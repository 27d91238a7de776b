-------------------------------- MODULE Board --------------------------------
(***************************************************************************)
(* Power, clocks and the rear transition module (RTM): main() from         *)
(* psu_init up to the scheduler, which configures the board over I2C with  *)
(* nothing else running, and then vblinkIFTask, which follows the RTM's    *)
(* presence pin and the FPGA's DONE pin.                                   *)
(*                                                                         *)
(* All devices hang on one bus: the multiplexer TCA on the bus itself, the *)
(* Si5324 of the AMC board behind its channel 4, and behind its channel 7  *)
(* the RTM: an IO extender and a second multiplexer, with the RTM's own    *)
(* Si5324 behind that.  Both Si5324 have the same address, so only the     *)
(* multiplexers decide which of them a write reaches.  A write is the      *)
(* address and the value; the functions that make them are the sequences   *)
(* of their writes.                                                        *)
(***************************************************************************)
EXTENDS Integers, Sequences

CONSTANTS RETRY_COUNT,    \* tries of i2c_write
          TABLE_LEN,      \* entries of InitTable and of InitTable_RTM
          MaxNoise        \* bound: failing transfers to a device that is there

ASSUME BoardAssumption ==
  /\ RETRY_COUNT \in Nat \ {0} /\ TABLE_LEN \in Nat \ {0}
  /\ MaxNoise \in Nat

VARIABLES
  phase,           \* "amc" and "rtm" in main(), then "run"
  todo,            \* the writes main() has still to make in this phase
  retry_count,     \* of the write it is making
  noise,           \* transfers that have failed so far for no reason
  mux, rtmMux,     \* the channel each multiplexer connects
  extender,        \* outputs of the RTM's IO extender
  si,              \* for each Si5324 and register, the table it was set from
  present,         \* the RTM is plugged in (RTM_PSn is low)
  moved,           \* it has been plugged or pulled since psu_init
  mp, p12,         \* the RTM's 3.3 V management power and its 12 V
  done,            \* the FPGA's DONE pin
  hold             \* the Ethernet PHY's reset pin is asserted

busVars == <<mux, rtmMux, extender, si>>
bootVars == <<phase, todo, retry_count, noise>>
pinVars == <<present, moved, done>>
outVars == <<mp, p12, hold>>
vars == <<phase, todo, retry_count, noise, mux, rtmMux, extender, si, present,
          moved, mp, p12, done, hold>>

Entry == 1 .. TABLE_LEN
Boards == {"AMC", "RTM"}
Unset == [e \in Entry |-> "none"]

Write(dev, val) == [dev |-> dev, val |-> val]

(* The writes of one of the tables; the registers are the same in both. *)
Table(t) == [e \in Entry |-> Write("SI5324", <<e, t>>)]

(* i2c_setSI5324: channel 4, the table, no channel. *)
i2c_setSI5324 ==
  <<Write("TCA", "AMC")>> \o Table("AMC") \o <<Write("TCA", "none")>>

(* i2c_RTM_PWRON: channel 7, the extender twice, no channel. *)
i2c_RTM_PWRON ==
  <<Write("TCA", "RTM"), Write("EXTENDER", "reset"), Write("EXTENDER", "on"),
    Write("TCA", "none")>>

(* Fault: the AMC's multiplexer is left where it is. *)
FaultNoSelect ==
  <<Write("TCARTM", "SI5324")>> \o Table("RTM")
    \o <<Write("TCARTM", "none"), Write("TCA", "none")>>

(* Fault: the RTM's multiplexer is not deselected. *)
FaultNoDeselect ==
  <<Write("TCA", "RTM"), Write("TCARTM", "SI5324")>> \o Table("RTM")
    \o <<Write("TCA", "none")>>

(* i2c_setSI5324_RTM: channel 7 and there channel 5, the table, none. *)
i2c_setSI5324_RTM ==
  <<Write("TCA", "RTM"), Write("TCARTM", "SI5324")>> \o Table("RTM")
    \o <<Write("TCARTM", "none"), Write("TCA", "none")>>

(* psu_init and i2c_init have run: the RTM is off, the PHY released. *)
Init ==
  /\ phase = "amc"
  /\ todo = i2c_setSI5324
  /\ retry_count = RETRY_COUNT
  /\ noise = 0
  /\ mux = "none" /\ rtmMux = "none" /\ extender = "reset"
  /\ si = [b \in Boards |-> Unset]
  /\ present \in BOOLEAN /\ moved = FALSE
  /\ mp = FALSE /\ p12 = FALSE
  /\ done \in BOOLEAN
  /\ hold = FALSE

-----------------------------------------------------------------------------
(* The devices. *)

(* The RTM's devices that are there and powered. *)
RtmOn == present /\ mp

(* The device that answers to an address answers now. *)
Answers(dev) ==
  CASE dev = "TCA" -> TRUE
    [] dev \in {"EXTENDER", "TCARTM"} -> mux = "RTM" /\ RtmOn
    [] dev = "SI5324" ->
         \/ mux = "AMC"
         \/ mux = "RTM" /\ RtmOn /\ rtmMux = "SI5324" /\ extender = "on"

(* What write w does when the device takes it. *)
Take(w) ==
  CASE w.dev = "TCA" -> mux' = w.val /\ UNCHANGED <<rtmMux, extender, si>>
    [] w.dev = "TCARTM" -> rtmMux' = w.val /\ UNCHANGED <<mux, extender, si>>
    [] w.dev = "EXTENDER" -> extender' = w.val /\ UNCHANGED <<mux, rtmMux, si>>
    [] w.dev = "SI5324" -> /\ si' = [si EXCEPT ![mux][w.val[1]] = w.val[2]]
                           /\ UNCHANGED <<mux, rtmMux, extender>>

(* What the RTM's devices hold without power. *)
RtmReset ==
  /\ rtmMux' = "none"
  /\ extender' = "reset"
  /\ si' = [si EXCEPT !["RTM"] = Unset]
  /\ UNCHANGED mux

-----------------------------------------------------------------------------
(* i2c_write, called by main(): tries of I2C_MasterTransferData. *)

(* The device acknowledges every byte: the next write. *)
Acknowledged ==
  /\ todo # <<>>
  /\ Answers(Head(todo).dev)
  /\ Take(Head(todo))
  /\ todo' = Tail(todo)
  /\ retry_count' = RETRY_COUNT
  /\ UNCHANGED <<phase, noise, pinVars, outVars>>

(* retry_count--; at zero the write is given up, and the caller goes on as *)
(* if it had been made.                                                    *)
TryAgain ==
  IF retry_count > 1
  THEN retry_count' = retry_count - 1 /\ UNCHANGED todo
  ELSE retry_count' = RETRY_COUNT /\ todo' = Tail(todo)

(* Nobody acknowledges the address. *)
NoAnswer ==
  /\ todo # <<>>
  /\ ~Answers(Head(todo).dev)
  /\ TryAgain
  /\ UNCHANGED <<phase, noise, busVars, pinVars, outVars>>

(* An acknowledge is not seen: the device has taken the write all the      *)
(* same, or has not.                                                       *)
Disturbed ==
  /\ todo # <<>>
  /\ Answers(Head(todo).dev)
  /\ noise < MaxNoise
  /\ noise' = noise + 1
  /\ Take(Head(todo)) \/ UNCHANGED busVars
  /\ TryAgain
  /\ UNCHANGED <<phase, pinVars, outVars>>

-----------------------------------------------------------------------------
(* main(): what it does between the writes. *)

(* The AMC is configured; the RTM is powered and configured if it is       *)
(* there.                                                                  *)
CheckRtm ==
  /\ phase = "amc" /\ todo = <<>>
  /\ mp' = present /\ p12' = present
  /\ phase' = IF present THEN "rtm" ELSE "run"
  /\ todo' = IF present THEN i2c_RTM_PWRON \o i2c_setSI5324_RTM ELSE <<>>
  /\ UNCHANGED <<retry_count, noise, busVars, pinVars, hold>>

(* vTaskStartScheduler. *)
StartScheduler ==
  /\ phase = "rtm" /\ todo = <<>>
  /\ phase' = "run"
  /\ UNCHANGED <<todo, retry_count, noise, busVars, pinVars, outVars>>

-----------------------------------------------------------------------------
(* vblinkIFTask. *)

(* Fault: the pin is read the wrong way round. *)
FaultRtmPower == ~present

(* RTM_PSn is low. *)
RtmPower == present

(* One turn of its loop: the PHY follows DONE, the RTM's power follows its *)
(* presence.  The RTM is not configured again.                             *)
Blink ==
  /\ phase = "run"
  /\ hold' = ~done
  /\ mp' = RtmPower /\ p12' = RtmPower
  /\ IF RtmPower THEN UNCHANGED busVars ELSE RtmReset
  /\ UNCHANGED <<bootVars, pinVars>>

-----------------------------------------------------------------------------
(* The surroundings. *)

(* The RTM is plugged in or pulled. *)
MoveRtm ==
  /\ present' = ~present
  /\ moved' = TRUE
  /\ RtmReset
  /\ UNCHANGED <<bootVars, done, outVars>>

(* The FPGA is configured, or loses its configuration. *)
Configure ==
  /\ done' = ~done
  /\ UNCHANGED <<bootVars, busVars, present, moved, outVars>>

-----------------------------------------------------------------------------
Main == Acknowledged \/ NoAnswer \/ Disturbed \/ CheckRtm \/ StartScheduler

Next == Main \/ Blink \/ MoveRtm \/ Configure

Spec == Init /\ [][Next]_vars

(* main() is alone on the processor; the scheduler runs the blink task.    *)
(* The I2C controller answers every command (SI is set in the end).        *)
FairSpec == Spec /\ WF_vars(Main) /\ WF_vars(Blink)

-----------------------------------------------------------------------------
(* Types of the pins, the devices and the locals. *)
TypeOK ==
  /\ phase \in {"amc", "rtm", "run"}
  /\ \A i \in 1 .. Len(todo) :
       todo[i].dev \in {"TCA", "TCARTM", "EXTENDER", "SI5324"}
  /\ retry_count \in 1 .. RETRY_COUNT
  /\ noise \in 0 .. MaxNoise
  /\ mux \in {"none", "AMC", "RTM"} /\ rtmMux \in {"none", "SI5324"}
  /\ extender \in {"reset", "on"}
  /\ si \in [Boards -> [Entry -> {"none", "AMC", "RTM"}]]
  /\ present \in BOOLEAN /\ moved \in BOOLEAN
  /\ mp \in BOOLEAN /\ p12 \in BOOLEAN
  /\ done \in BOOLEAN /\ hold \in BOOLEAN

(* Fewer disturbances than i2c_write has tries do no harm, wherever they   *)
(* strike and whether or not the write got through: when the scheduler     *)
(* starts and the RTM has stayed where it was, every Si5324 that is there  *)
(* holds the table meant for it and both multiplexers are deselected.      *)
BootConfigures ==
  phase = "run" /\ noise < RETRY_COUNT /\ ~moved =>
    /\ si["AMC"] = [e \in Entry |-> "AMC"]
    /\ present => si["RTM"] = [e \in Entry |-> "RTM"]
    /\ mux = "none" /\ rtmMux = "none"

(* The two Si5324 have the same address, and no caller looks at what       *)
(* i2c_write returns; still, the RTM's table goes to the AMC's Si5324 only *)
(* after four writes to the AMC's multiplexer have been given up.          *)
RightChip ==
  /\ TypeOK
  /\ noise < 4 * RETRY_COUNT =>
       \A b \in Boards, e \in Entry : si[b][e] \in {"none", b}

(* An RTM that is pulled loses its power, and one that is plugged gets it. *)
PowerFollows == \A b \in BOOLEAN : <>[](present = b) => <>[](mp = b /\ p12 = b)
=============================================================================
