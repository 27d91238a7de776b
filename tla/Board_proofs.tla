---------------------------- MODULE Board_proofs ----------------------------
(***************************************************************************)
(* Proofs about the boot of the board: for tables of any length, any       *)
(* number of tries and any number of disturbances on the I2C bus.          *)
(***************************************************************************)
EXTENDS Board, TLAPS

(* All that main() writes to configure the RTM.                            *)
RtmScript == i2c_RTM_PWRON \o i2c_setSI5324_RTM

AmcLen == TABLE_LEN + 2
RtmLen == TABLE_LEN + 8

(* What is left to do is the end of script s, which has n writes.          *)
EndOf(s, n) ==
  /\ Len(todo) <= n
  /\ \A i \in 1 .. Len(todo) : todo[i] = s[n - Len(todo) + i]

(* How many writes of the script have been made or given up.               *)
AmcPos == AmcLen - Len(todo)
RtmPos == RtmLen - Len(todo)

(* main() works through its two scripts, and writes no more when the       *)
(* scheduler runs.                                                         *)
Scripted ==
  /\ todo \in Seq([dev : {"TCA", "TCARTM", "EXTENDER", "SI5324"},
                   val : {"none", "AMC", "RTM", "SI5324", "reset", "on"}
                           \cup (Entry \X Boards)])
  /\ phase = "amc" => EndOf(i2c_setSI5324, AmcLen)
  /\ phase = "rtm" => EndOf(RtmScript, RtmLen)
  /\ phase = "run" => todo = <<>>
  /\ todo = <<>> => retry_count = RETRY_COUNT
  /\ phase = "amc" => ~mp

(* How many disturbances it took for the AMC's multiplexer to be still on  *)
(* the AMC's channel: RETRY_COUNT for each write to it that was given up,  *)
(* and those of the write that is being tried.                             *)
StillOnAmc ==
  /\ phase = "amc" => mux \in {"none", "AMC"}
  /\ mux = "AMC" =>
       /\ phase = "amc" /\ AmcPos = AmcLen - 1 => noise >= RETRY_COUNT - retry_count
       /\ phase = "amc" /\ AmcPos = AmcLen => noise >= RETRY_COUNT
       /\ phase = "rtm" /\ RtmPos = 0 => noise >= 2 * RETRY_COUNT - retry_count
       /\ phase = "rtm" /\ RtmPos \in 1 .. 2 => noise >= 2 * RETRY_COUNT
       /\ phase = "rtm" /\ RtmPos = 3 => noise >= 3 * RETRY_COUNT - retry_count
       /\ phase = "rtm" /\ RtmPos = 4 => noise >= 4 * RETRY_COUNT - retry_count
       /\ phase = "rtm" /\ RtmPos >= 5 => noise >= 4 * RETRY_COUNT

(* The tables that the two Si5324 can hold.                                *)
Chips ==
  /\ \A e \in Entry : si["RTM"][e] \in {"none", "RTM"}
  /\ noise < 4 * RETRY_COUNT => \A e \in Entry : si["AMC"][e] \in {"none", "AMC"}

(* With few disturbances and an RTM that stays, every write is made: what  *)
(* the devices hold follows from the position in the script.               *)
AmcDone(n) ==
  /\ n \in 1 .. TABLE_LEN => mux = "AMC"
  /\ n = AmcLen => mux = "none"
  /\ rtmMux = "none"
  /\ \A e \in Entry : e < n => si["AMC"][e] = "AMC"

RtmDone(n) ==
  /\ present = TRUE /\ mp = TRUE
  /\ \A e \in Entry : si["AMC"][e] = "AMC"
  /\ mux \in {"none", "RTM"}
  /\ (1 <= n /\ n <= 2) \/ (5 <= n /\ n <= TABLE_LEN + 6) => mux = "RTM"
  /\ n = RtmLen => mux = "none"
  /\ n >= 3 => extender = "on"
  /\ n <= 4 \/ n >= TABLE_LEN + 7 => rtmMux = "none"
  /\ 6 <= n /\ n <= TABLE_LEN + 5 => rtmMux = "SI5324"
  /\ \A e \in Entry : e + 5 < n => si["RTM"][e] = "RTM"

Configured ==
  noise < RETRY_COUNT /\ moved = FALSE =>
    /\ noise + retry_count >= RETRY_COUNT
    /\ phase = "amc" => AmcDone(AmcPos)
    /\ phase = "rtm" => RtmDone(RtmPos)
    /\ phase = "run" =>
         /\ \A e \in Entry : si["AMC"][e] = "AMC"
         /\ present = TRUE => \A e \in Entry : si["RTM"][e] = "RTM"
         /\ mux = "none" /\ rtmMux = "none"

IInv == TypeOK /\ Scripted /\ StillOnAmc /\ Chips /\ Configured

-----------------------------------------------------------------------------
(* The scripts.                                                            *)

(* A table is as long as it says (InitTable, InitTable_RTM).               *)
LEMMA TableFacts ==
  ASSUME NEW t \in Boards
  PROVE  /\ Table(t) \in Seq([dev : {"SI5324"}, val : Entry \X Boards])
         /\ Len(Table(t)) = TABLE_LEN
         /\ \A e \in Entry : Table(t)[e] = Write("SI5324", <<e, t>>)
  <1>1. TABLE_LEN \in Nat
    BY BoardAssumption
  <1>2. \A e \in Entry : Write("SI5324", <<e, t>>) \in [dev : {"SI5324"}, val : Entry \X Boards]
    BY DEF Write
  <1> QED
    BY <1>1, <1>2 DEF Table, Entry

(* What i2c_setSI5324 writes, by position.                                 *)
LEMMA AmcScriptFacts ==
  /\ Len(i2c_setSI5324) = AmcLen
  /\ i2c_setSI5324[1] = Write("TCA", "AMC")
  /\ \A e \in Entry : i2c_setSI5324[e + 1] = Write("SI5324", <<e, "AMC">>)
  /\ i2c_setSI5324[TABLE_LEN + 2] = Write("TCA", "none")
  <1> DEFINE t == Table("AMC")
  <1>1. /\ t \in Seq([dev : {"SI5324"}, val : Entry \X Boards]) /\ Len(t) = TABLE_LEN
        /\ \A e \in Entry : t[e] = Write("SI5324", <<e, "AMC">>)
    BY TableFacts DEF Boards
  <1>2. TABLE_LEN \in Nat \ {0}
    BY BoardAssumption
  <1>3. i2c_setSI5324 = <<Write("TCA", "AMC")>> \o t \o <<Write("TCA", "none")>>
    BY DEF i2c_setSI5324
  <1> HIDE DEF t
  <1> QED
    BY <1>1, <1>2, <1>3 DEF AmcLen, Entry

(* What i2c_RTM_PWRON and i2c_setSI5324_RTM write, by position.            *)
LEMMA RtmScriptFacts ==
  /\ Len(RtmScript) = RtmLen
  /\ RtmScript[1] = Write("TCA", "RTM")
  /\ RtmScript[2] = Write("EXTENDER", "reset")
  /\ RtmScript[3] = Write("EXTENDER", "on")
  /\ RtmScript[4] = Write("TCA", "none")
  /\ RtmScript[5] = Write("TCA", "RTM")
  /\ RtmScript[6] = Write("TCARTM", "SI5324")
  /\ \A e \in Entry : RtmScript[e + 6] = Write("SI5324", <<e, "RTM">>)
  /\ RtmScript[TABLE_LEN + 7] = Write("TCARTM", "none")
  /\ RtmScript[TABLE_LEN + 8] = Write("TCA", "none")
  <1> DEFINE t == Table("RTM")
             a == <<Write("TCA", "RTM"), Write("EXTENDER", "reset"),
                    Write("EXTENDER", "on"), Write("TCA", "none")>>
             b == <<Write("TCA", "RTM"), Write("TCARTM", "SI5324")>>
             d == <<Write("TCARTM", "none"), Write("TCA", "none")>>
  <1>1. /\ t \in Seq([dev : {"SI5324"}, val : Entry \X Boards]) /\ Len(t) = TABLE_LEN
        /\ \A e \in Entry : t[e] = Write("SI5324", <<e, "RTM">>)
    BY TableFacts DEF Boards
  <1>2. TABLE_LEN \in Nat \ {0}
    BY BoardAssumption
  <1>3. RtmScript = a \o (b \o t \o d)
    BY DEF RtmScript, i2c_RTM_PWRON, i2c_setSI5324_RTM
  <1> HIDE DEF t
  <1>4. /\ Len(b \o t) = TABLE_LEN + 2
        /\ (b \o t)[1] = b[1] /\ (b \o t)[2] = b[2]
        /\ \A e \in Entry : (b \o t)[e + 2] = t[e]
    BY <1>1, <1>2 DEF Entry
  <1> DEFINE u == b \o t \o d
  <1>5. /\ Len(u) = TABLE_LEN + 4 /\ u[1] = b[1] /\ u[2] = b[2]
        /\ \A e \in Entry : u[e + 2] = t[e]
        /\ u[TABLE_LEN + 3] = d[1] /\ u[TABLE_LEN + 4] = d[2]
    BY <1>1, <1>2, <1>4 DEF Entry
  <1>6. RtmScript = a \o u
    BY <1>3
  <1> HIDE DEF u
  <1>7. /\ Len(RtmScript) = TABLE_LEN + 8
        /\ \A i \in 1 .. 4 : RtmScript[i] = a[i]
        /\ \A i \in 1 .. TABLE_LEN + 4 : RtmScript[i + 4] = u[i]
    BY <1>2, <1>5, <1>6
  <1>8. \A e \in Entry : RtmScript[e + 6] = t[e]
    BY <1>2, <1>5, <1>7 DEF Entry
  <1>9. /\ RtmScript[1] = a[1] /\ RtmScript[2] = a[2]
        /\ RtmScript[3] = a[3] /\ RtmScript[4] = a[4]
    BY <1>7
  <1>10. RtmScript[5] = b[1] /\ RtmScript[6] = b[2]
    <2>1. RtmScript[1 + 4] = u[1] /\ RtmScript[2 + 4] = u[2]
      BY <1>2, <1>7
    <2> QED
      BY <2>1, <1>5
  <1>11. RtmScript[TABLE_LEN + 7] = d[1] /\ RtmScript[TABLE_LEN + 8] = d[2]
    <2>1. /\ RtmScript[(TABLE_LEN + 3) + 4] = u[TABLE_LEN + 3]
          /\ RtmScript[(TABLE_LEN + 4) + 4] = u[TABLE_LEN + 4]
      BY <1>2, <1>7
    <2>2. (TABLE_LEN + 3) + 4 = TABLE_LEN + 7 /\ (TABLE_LEN + 4) + 4 = TABLE_LEN + 8
      BY <1>2
    <2> QED
      BY <2>1, <2>2, <1>5
  <1>12. \A e \in Entry : RtmScript[e + 6] = Write("SI5324", <<e, "RTM">>)
    BY <1>1, <1>8
  <1>13. Len(RtmScript) = RtmLen
    BY <1>7 DEF RtmLen
  <1> QED
    BY <1>9, <1>10, <1>11, <1>12, <1>13

(* The writes of the two scripts are writes to the devices of the bus.     *)
LEMMA AmcScriptType ==
  i2c_setSI5324 \in Seq([dev : {"TCA", "TCARTM", "EXTENDER", "SI5324"},
                         val : {"none", "AMC", "RTM", "SI5324", "reset", "on"}
                                 \cup (Entry \X Boards)])
  <1> DEFINE V == {"none", "AMC", "RTM", "SI5324", "reset", "on"} \cup (Entry \X Boards)
             W == [dev : {"TCA", "TCARTM", "EXTENDER", "SI5324"}, val : V]
  <1>1. Write("TCA", "AMC") \in W /\ Write("TCA", "none") \in W
    BY DEF Write
  <1>2. Table("AMC") \in Seq(W)
    <2>1. \A e \in Entry : Write("SI5324", <<e, "AMC">>) \in W
      BY DEF Write, Boards
    <2> HIDE DEF W
    <2> QED
      BY <2>1, BoardAssumption DEF Table, Entry
  <1> HIDE DEF V, W
  <1>3. i2c_setSI5324 \in Seq(W)
    BY <1>1, <1>2 DEF i2c_setSI5324
  <1> QED
    BY <1>3 DEF V, W

(* Those of the RTM are, too.                                              *)
LEMMA RtmScriptType ==
  RtmScript \in Seq([dev : {"TCA", "TCARTM", "EXTENDER", "SI5324"},
                     val : {"none", "AMC", "RTM", "SI5324", "reset", "on"}
                             \cup (Entry \X Boards)])
  <1> DEFINE V == {"none", "AMC", "RTM", "SI5324", "reset", "on"} \cup (Entry \X Boards)
             W == [dev : {"TCA", "TCARTM", "EXTENDER", "SI5324"}, val : V]
  <1>1. /\ Write("TCA", "RTM") \in W /\ Write("TCA", "none") \in W
        /\ Write("EXTENDER", "reset") \in W /\ Write("EXTENDER", "on") \in W
        /\ Write("TCARTM", "SI5324") \in W /\ Write("TCARTM", "none") \in W
    BY DEF Write
  <1>2. Table("RTM") \in Seq(W)
    <2>1. \A e \in Entry : Write("SI5324", <<e, "RTM">>) \in W
      BY DEF Write, Boards
    <2> HIDE DEF W
    <2> QED
      BY <2>1, BoardAssumption DEF Table, Entry
  <1> HIDE DEF V, W
  <1>3. i2c_RTM_PWRON \in Seq(W) /\ i2c_setSI5324_RTM \in Seq(W)
    BY <1>1, <1>2 DEF i2c_RTM_PWRON, i2c_setSI5324_RTM
  <1>4. RtmScript \in Seq(W)
    BY <1>3 DEF RtmScript
  <1> QED
    BY <1>4 DEF V, W

-----------------------------------------------------------------------------
(* The write main() is making.                                             *)

(* In phase "amc" the position decides what is written.                    *)
LEMMA AmcWrite ==
  ASSUME IInv, phase = "amc", todo # <<>>
  PROVE  /\ AmcPos \in 0 .. TABLE_LEN + 1
         /\ AmcPos = 0 => Head(todo) = Write("TCA", "AMC")
         /\ AmcPos \in Entry => Head(todo) = Write("SI5324", <<AmcPos, "AMC">>)
         /\ AmcPos = TABLE_LEN + 1 => Head(todo) = Write("TCA", "none")
  <1>1. /\ Len(todo) \in 1 .. AmcLen /\ TABLE_LEN \in Nat \ {0}
        /\ Head(todo) = i2c_setSI5324[AmcLen - Len(todo) + 1]
    BY BoardAssumption DEF IInv, Scripted, EndOf, AmcLen
  <1> QED
    BY <1>1, AmcScriptFacts DEF AmcPos, AmcLen, Entry

(* And so it does in phase "rtm".                                          *)
LEMMA RtmWrite ==
  ASSUME IInv, phase = "rtm", todo # <<>>
  PROVE  /\ RtmPos \in 0 .. TABLE_LEN + 7
         /\ RtmPos \in {0, 4} => Head(todo) = Write("TCA", "RTM")
         /\ RtmPos = 1 => Head(todo) = Write("EXTENDER", "reset")
         /\ RtmPos = 2 => Head(todo) = Write("EXTENDER", "on")
         /\ RtmPos = 5 => Head(todo) = Write("TCARTM", "SI5324")
         /\ RtmPos - 5 \in Entry => Head(todo) = Write("SI5324", <<RtmPos - 5, "RTM">>)
         /\ RtmPos = TABLE_LEN + 6 => Head(todo) = Write("TCARTM", "none")
         /\ RtmPos \in {3, TABLE_LEN + 7} => Head(todo) = Write("TCA", "none")
  <1>1. /\ Len(todo) \in 1 .. RtmLen /\ TABLE_LEN \in Nat \ {0}
        /\ Head(todo) = RtmScript[RtmLen - Len(todo) + 1]
    BY BoardAssumption DEF IInv, Scripted, EndOf, RtmLen
  <1>2. /\ RtmPos \in 0 .. TABLE_LEN + 7 /\ RtmLen - Len(todo) + 1 = RtmPos + 1
        /\ (RtmPos - 5) + 6 = RtmPos + 1
    BY <1>1 DEF RtmPos, RtmLen
  <1>3. Head(todo) = RtmScript[RtmPos + 1]
    BY <1>1, <1>2
  <1>4. /\ RtmPos = TABLE_LEN + 6 => RtmPos + 1 = TABLE_LEN + 7
        /\ RtmPos = TABLE_LEN + 7 => RtmPos + 1 = TABLE_LEN + 8
    BY <1>1, <1>2
  <1> HIDE DEF RtmPos
  <1>5. RtmPos - 5 \in Entry => Head(todo) = Write("SI5324", <<RtmPos - 5, "RTM">>)
    BY <1>2, <1>3, RtmScriptFacts
  <1>6. /\ RtmPos = TABLE_LEN + 6 => Head(todo) = Write("TCARTM", "none")
        /\ RtmPos = TABLE_LEN + 7 => Head(todo) = Write("TCA", "none")
    BY <1>3, <1>4, RtmScriptFacts
  <1>7. /\ RtmPos = 0 => RtmPos + 1 = 1
        /\ RtmPos = 1 => RtmPos + 1 = 2
        /\ RtmPos = 2 => RtmPos + 1 = 3
        /\ RtmPos = 3 => RtmPos + 1 = 4
        /\ RtmPos = 4 => RtmPos + 1 = 5
        /\ RtmPos = 5 => RtmPos + 1 = 6
    OBVIOUS
  <1>8. /\ RtmPos = 0 => Head(todo) = Write("TCA", "RTM")
        /\ RtmPos = 1 => Head(todo) = Write("EXTENDER", "reset")
        /\ RtmPos = 2 => Head(todo) = Write("EXTENDER", "on")
        /\ RtmPos = 3 => Head(todo) = Write("TCA", "none")
        /\ RtmPos = 4 => Head(todo) = Write("TCA", "RTM")
        /\ RtmPos = 5 => Head(todo) = Write("TCARTM", "SI5324")
    BY <1>3, <1>7, RtmScriptFacts
  <1> QED
    BY <1>2, <1>5, <1>6, <1>8

(* The next write of a script follows the last.                            *)
LEMMA Onward ==
  ASSUME IInv, todo # <<>>, todo' = Tail(todo), phase' = phase,
         retry_count' = RETRY_COUNT, mp' = mp
  PROVE  Scripted' /\ AmcPos' = AmcPos + 1 /\ RtmPos' = RtmPos + 1
  <1>1. /\ Len(todo') = Len(todo) - 1 /\ Len(todo) \in Nat \ {0}
        /\ \A i \in 1 .. Len(todo') : todo'[i] = todo[i + 1]
    BY DEF IInv, Scripted
  <1>2. TABLE_LEN \in Nat
    BY BoardAssumption
  <1>3. phase = "amc" => EndOf(i2c_setSI5324, AmcLen)'
    <2>1. i2c_setSI5324' = i2c_setSI5324 /\ AmcLen' = AmcLen
      BY DEF i2c_setSI5324, Table, Entry, AmcLen
    <2> HAVE phase = "amc"
    <2>2. /\ Len(todo) <= AmcLen
          /\ \A i \in 1 .. Len(todo) : todo[i] = i2c_setSI5324[AmcLen - Len(todo) + i]
      BY DEF IInv, Scripted, EndOf
    <2>3. \A i \in 1 .. Len(todo') : todo'[i] = i2c_setSI5324[AmcLen - Len(todo') + i]
      BY <1>1, <1>2, <2>2 DEF AmcLen
    <2> QED
      BY <1>1, <1>2, <2>1, <2>2, <2>3 DEF EndOf, AmcLen
  <1>4. phase = "rtm" => EndOf(RtmScript, RtmLen)'
    BY <1>1, <1>2 DEF IInv, Scripted, EndOf, RtmLen, RtmScript, i2c_RTM_PWRON,
                      i2c_setSI5324_RTM, Table, Entry
  <1>5. phase # "run"
    BY DEF IInv, Scripted
  <1>6. AmcPos' = AmcPos + 1 /\ RtmPos' = RtmPos + 1
    BY <1>1, <1>2 DEF AmcPos, RtmPos, AmcLen, RtmLen
  <1>7. todo' \in Seq([dev : {"TCA", "TCARTM", "EXTENDER", "SI5324"},
                       val : {"none", "AMC", "RTM", "SI5324", "reset", "on"}
                               \cup (Entry \X Boards)])
    <2> DEFINE W == [dev : {"TCA", "TCARTM", "EXTENDER", "SI5324"},
                     val : {"none", "AMC", "RTM", "SI5324", "reset", "on"}
                             \cup (Entry \X Boards)]
    <2>1. todo \in Seq(W)
      BY DEF IInv, Scripted
    <2> HIDE DEF W
    <2>2. Tail(todo) \in Seq(W)
      BY <2>1
    <2> QED
      BY <2>2 DEF W
  <1>8. phase = "amc" => mp' = FALSE
    BY DEF IInv, Scripted
  <1> QED
    BY <1>3, <1>4, <1>5, <1>6, <1>7, <1>8 DEF Scripted, Entry

(* A write that is tried again leaves main() where it is.                  *)
LEMMA Again ==
  ASSUME IInv, todo # <<>>, todo' = todo, phase' = phase, mp' = mp
  PROVE  Scripted' /\ AmcPos' = AmcPos /\ RtmPos' = RtmPos
  <1>1. AmcPos' = AmcPos /\ RtmPos' = RtmPos
    BY DEF AmcPos, RtmPos, AmcLen, RtmLen
  <1>2. /\ phase = "amc" => EndOf(i2c_setSI5324, AmcLen)'
        /\ phase = "rtm" => EndOf(RtmScript, RtmLen)'
    BY DEF IInv, Scripted, EndOf, AmcLen, RtmLen, i2c_setSI5324, RtmScript,
           i2c_RTM_PWRON, i2c_setSI5324_RTM, Table, Entry
  <1> QED
    BY <1>1, <1>2 DEF IInv, Scripted, Entry

(* Between writes, too, main() is where it was.                            *)
LEMMA Idle ==
  ASSUME IInv, todo' = todo, phase' = phase, mp' = mp, retry_count' = retry_count
  PROVE  Scripted' /\ AmcPos' = AmcPos /\ RtmPos' = RtmPos
  <1>1. AmcPos' = AmcPos /\ RtmPos' = RtmPos
    BY DEF AmcPos, RtmPos, AmcLen, RtmLen
  <1>2. /\ phase = "amc" => EndOf(i2c_setSI5324, AmcLen)'
        /\ phase = "rtm" => EndOf(RtmScript, RtmLen)'
    BY DEF IInv, Scripted, EndOf, AmcLen, RtmLen, i2c_setSI5324, RtmScript,
           i2c_RTM_PWRON, i2c_setSI5324_RTM, Table, Entry
  <1> QED
    BY <1>1, <1>2 DEF IInv, Scripted, Entry

(* A step that touches neither main() nor the bus.                         *)
LEMMA SameBoot ==
  ASSUME IInv, phase' = phase, todo' = todo, noise' = noise,
         retry_count' = retry_count, present' = present, moved' = moved,
         mp' = mp, p12' = p12, hold' = hold, mux' = mux, rtmMux' = rtmMux,
         extender' = extender, si' = si, done' \in BOOLEAN
  PROVE  IInv'
  <1>1. Scripted' /\ AmcPos' = AmcPos /\ RtmPos' = RtmPos
    BY Idle
  <1>2. TypeOK'
    BY DEF IInv, TypeOK, Entry, Boards
  <1>3. StillOnAmc'
    BY <1>1 DEF IInv, StillOnAmc, AmcLen
  <1>4. Chips'
    BY DEF IInv, Chips, Entry
  <1>5. Configured'
    <2>1. AmcDone(AmcPos) => AmcDone(AmcPos)'
      BY <1>1 DEF AmcDone, AmcLen, Entry
    <2>2. RtmDone(RtmPos) => RtmDone(RtmPos)'
      BY <1>1 DEF RtmDone, RtmLen, Entry
    <2> QED
      BY <2>1, <2>2 DEF IInv, Configured, Entry
  <1> QED
    BY <1>1, <1>2, <1>3, <1>4, <1>5 DEF IInv

-----------------------------------------------------------------------------
(* What a write does.                                                      *)

(* A write of i2c_setSI5324 that is taken, by position.                    *)
LEMMA AmcTake ==
  ASSUME IInv, phase = "amc", todo # <<>>,
         Answers(Head(todo).dev), Take(Head(todo))
  PROVE  /\ UNCHANGED <<rtmMux, extender>>
         /\ AmcPos = 0 => mux' = "AMC" /\ si' = si
         /\ AmcPos \in Entry =>
              mux = "AMC" /\ mux' = "AMC" /\ si' = [si EXCEPT !["AMC"][AmcPos] = "AMC"]
         /\ AmcPos = TABLE_LEN + 1 => mux' = "none" /\ si' = si
  <1>1. mp = FALSE
    BY DEF IInv, Scripted, TypeOK
  <1>2. ASSUME AmcPos = 0
        PROVE  mux' = "AMC" /\ UNCHANGED <<rtmMux, extender, si>>
    <2>1. Head(todo).dev = "TCA" /\ Head(todo).val = "AMC"
      BY <1>2, AmcWrite DEF Write
    <2> QED
      BY <2>1 DEF Take
  <1>3. ASSUME AmcPos = TABLE_LEN + 1
        PROVE  mux' = "none" /\ UNCHANGED <<rtmMux, extender, si>>
    <2>1. Head(todo).dev = "TCA" /\ Head(todo).val = "none"
      BY <1>3, AmcWrite DEF Write
    <2> QED
      BY <2>1 DEF Take
  <1>4. ASSUME AmcPos \in Entry
        PROVE  /\ mux = "AMC" /\ si' = [si EXCEPT !["AMC"][AmcPos] = "AMC"]
               /\ UNCHANGED <<mux, rtmMux, extender>>
    <2>1. /\ Head(todo).dev = "SI5324" /\ Head(todo).val[1] = AmcPos
          /\ Head(todo).val[2] = "AMC"
      BY <1>4, AmcWrite DEF Write
    <2>2. mux = "AMC"
      BY <1>1, <2>1 DEF Answers, RtmOn
    <2> QED
      BY <2>1, <2>2 DEF Take
  <1>5. AmcPos = 0 \/ AmcPos \in Entry \/ AmcPos = TABLE_LEN + 1
    BY AmcWrite, BoardAssumption DEF Entry
  <1> QED
    BY <1>2, <1>3, <1>4, <1>5

(* A write of the RTM's script that is taken, by position.                 *)
LEMMA RtmTake ==
  ASSUME IInv, phase = "rtm", todo # <<>>,
         Answers(Head(todo).dev), Take(Head(todo))
  PROVE  /\ RtmPos \in {0, 4} => mux' = "RTM" /\ UNCHANGED <<rtmMux, extender, si>>
         /\ RtmPos = 1 => extender' = "reset" /\ UNCHANGED <<mux, rtmMux, si>>
         /\ RtmPos = 2 => extender' = "on" /\ UNCHANGED <<mux, rtmMux, si>>
         /\ RtmPos = 5 => rtmMux' = "SI5324" /\ UNCHANGED <<mux, extender, si>>
         /\ RtmPos - 5 \in Entry =>
              /\ mux \in Boards
              /\ si' = [si EXCEPT ![mux][RtmPos - 5] = "RTM"]
              /\ UNCHANGED <<mux, rtmMux, extender>>
         /\ RtmPos = TABLE_LEN + 6 => rtmMux' = "none" /\ UNCHANGED <<mux, extender, si>>
         /\ RtmPos \in {3, TABLE_LEN + 7} =>
              mux' = "none" /\ UNCHANGED <<rtmMux, extender, si>>
  <1>1. ASSUME RtmPos \in {0, 4}
        PROVE  mux' = "RTM" /\ UNCHANGED <<rtmMux, extender, si>>
    <2>1. Head(todo).dev = "TCA" /\ Head(todo).val = "RTM"
      BY <1>1, RtmWrite DEF Write
    <2> QED
      BY <2>1 DEF Take
  <1>2. ASSUME RtmPos \in {3, TABLE_LEN + 7}
        PROVE  mux' = "none" /\ UNCHANGED <<rtmMux, extender, si>>
    <2>1. Head(todo).dev = "TCA" /\ Head(todo).val = "none"
      BY <1>2, RtmWrite DEF Write
    <2> QED
      BY <2>1 DEF Take
  <1>3. ASSUME RtmPos = 1
        PROVE  extender' = "reset" /\ UNCHANGED <<mux, rtmMux, si>>
    <2>1. Head(todo).dev = "EXTENDER" /\ Head(todo).val = "reset"
      BY <1>3, RtmWrite DEF Write
    <2> QED
      BY <2>1 DEF Take
  <1>4. ASSUME RtmPos = 2
        PROVE  extender' = "on" /\ UNCHANGED <<mux, rtmMux, si>>
    <2>1. Head(todo).dev = "EXTENDER" /\ Head(todo).val = "on"
      BY <1>4, RtmWrite DEF Write
    <2> QED
      BY <2>1 DEF Take
  <1>5. ASSUME RtmPos = 5
        PROVE  rtmMux' = "SI5324" /\ UNCHANGED <<mux, extender, si>>
    <2>1. Head(todo).dev = "TCARTM" /\ Head(todo).val = "SI5324"
      BY <1>5, RtmWrite DEF Write
    <2> QED
      BY <2>1 DEF Take
  <1>6. ASSUME RtmPos = TABLE_LEN + 6
        PROVE  rtmMux' = "none" /\ UNCHANGED <<mux, extender, si>>
    <2>1. Head(todo).dev = "TCARTM" /\ Head(todo).val = "none"
      BY <1>6, RtmWrite DEF Write
    <2> QED
      BY <2>1 DEF Take
  <1>7. ASSUME RtmPos - 5 \in Entry
        PROVE  /\ mux \in Boards
               /\ si' = [si EXCEPT ![mux][RtmPos - 5] = "RTM"]
               /\ UNCHANGED <<mux, rtmMux, extender>>
    <2>1. /\ Head(todo).dev = "SI5324" /\ Head(todo).val[1] = RtmPos - 5
          /\ Head(todo).val[2] = "RTM"
      BY <1>7, RtmWrite DEF Write
    <2>2. mux \in Boards
      BY <2>1 DEF Answers, Boards
    <2> QED
      BY <2>1, <2>2 DEF Take
  <1> QED
    BY <1>1, <1>2, <1>3, <1>4, <1>5, <1>6, <1>7

(* A write that is taken leaves the devices in states they have, and each  *)
(* Si5324 with the tables it may hold.                                     *)
LEMMA TakeBus ==
  ASSUME IInv, phase # "run", todo # <<>>,
         Answers(Head(todo).dev), Take(Head(todo))
  PROVE  /\ mux' \in {"none", "AMC", "RTM"} /\ rtmMux' \in {"none", "SI5324"}
         /\ extender' \in {"reset", "on"}
         /\ si' \in [Boards -> [Entry -> {"none", "AMC", "RTM"}]]
         /\ \A e \in Entry : si'["RTM"][e] \in {"none", "RTM"}
         /\ noise < 4 * RETRY_COUNT =>
              \A e \in Entry : si'["AMC"][e] \in {"none", "AMC"}
  <1>1. /\ mux \in {"none", "AMC", "RTM"} /\ rtmMux \in {"none", "SI5324"}
        /\ extender \in {"reset", "on"} /\ noise \in Nat
        /\ si \in [Boards -> [Entry -> {"none", "AMC", "RTM"}]]
        /\ \A e \in Entry : si["RTM"][e] \in {"none", "RTM"}
        /\ noise < 4 * RETRY_COUNT =>
             \A e \in Entry : si["AMC"][e] \in {"none", "AMC"}
    BY BoardAssumption DEF IInv, TypeOK, Chips
  <1>2. TABLE_LEN \in Nat \ {0} /\ RETRY_COUNT \in Nat \ {0}
    BY BoardAssumption
  <1>3. CASE phase = "amc"
    <2>1. CASE AmcPos \in Entry
      <3>1. mux' = "AMC" /\ si' = [si EXCEPT !["AMC"][AmcPos] = "AMC"]
            /\ UNCHANGED <<rtmMux, extender>>
        BY <1>3, <2>1, AmcTake
      <3> QED
        BY <1>1, <2>1, <3>1 DEF Boards
    <2>2. CASE AmcPos \notin Entry
      <3>1. mux' \in {"none", "AMC"} /\ UNCHANGED <<rtmMux, extender, si>>
        BY <1>2, <1>3, <2>2, AmcTake, AmcWrite DEF Entry
      <3> QED
        BY <1>1, <3>1
    <2> QED
      BY <2>1, <2>2
  <1>4. CASE phase = "rtm"
    <2>1. CASE RtmPos - 5 \in Entry
      <3>1. /\ mux \in Boards /\ si' = [si EXCEPT ![mux][RtmPos - 5] = "RTM"]
            /\ UNCHANGED <<mux, rtmMux, extender>>
        BY <1>4, <2>1, RtmTake
      <3>2. mux = "AMC" => noise >= 4 * RETRY_COUNT
        BY <1>2, <1>4, <2>1, RtmWrite DEF IInv, StillOnAmc, Entry
      <3>3. CASE mux = "AMC"
        <4>1. si'["RTM"] = si["RTM"] /\ si' \in [Boards -> [Entry -> {"none", "AMC", "RTM"}]]
          BY <1>1, <2>1, <3>1, <3>3 DEF Boards
        <4> QED
          BY <1>1, <1>2, <3>1, <3>2, <3>3, <4>1
      <3>4. CASE mux = "RTM"
        <4>1. /\ si'["AMC"] = si["AMC"]
              /\ si'["RTM"] = [si["RTM"] EXCEPT ![RtmPos - 5] = "RTM"]
              /\ si' \in [Boards -> [Entry -> {"none", "AMC", "RTM"}]]
          BY <1>1, <2>1, <3>1, <3>4 DEF Boards
        <4> QED
          BY <1>1, <2>1, <3>1, <4>1 DEF Boards
      <3> QED
        BY <3>1, <3>3, <3>4 DEF Boards
    <2>2. CASE RtmPos - 5 \notin Entry
      <3>1. RtmPos \in {0, 1, 2, 3, 4, 5, TABLE_LEN + 6, TABLE_LEN + 7}
        BY <1>2, <1>4, <2>2, RtmWrite DEF Entry
      <3>2. /\ si' = si /\ mux' \in {mux, "none", "RTM"}
            /\ rtmMux' \in {rtmMux, "none", "SI5324"}
            /\ extender' \in {extender, "reset", "on"}
        BY <1>4, <3>1, RtmTake
      <3> QED
        BY <1>1, <3>2
    <2> QED
      BY <2>1, <2>2
  <1> QED
    BY <1>3, <1>4 DEF IInv, TypeOK

-----------------------------------------------------------------------------
(* Where the AMC's multiplexer stands.                                     *)

(* A write that is taken.                                                  *)
LEMMA StillTaken ==
  ASSUME IInv, phase # "run", todo # <<>>, phase' = phase,
         Answers(Head(todo).dev), Take(Head(todo)),
         noise' \in {noise, noise + 1},
         \/ AmcPos' = AmcPos /\ RtmPos' = RtmPos
         \/ AmcPos' = AmcPos + 1 /\ RtmPos' = RtmPos + 1 /\ retry_count' = RETRY_COUNT
  PROVE  StillOnAmc'
  <1>1. TABLE_LEN \in Nat \ {0} /\ RETRY_COUNT \in Nat \ {0} /\ noise \in Nat
    BY BoardAssumption DEF IInv, TypeOK
  <1>2. CASE phase = "amc"
    <2>1. mux' \in {"none", "AMC"} /\ (mux' = "AMC" => AmcPos \in 0 .. TABLE_LEN)
      BY <1>1, <1>2, AmcTake, AmcWrite DEF Entry
    <2> QED
      BY <1>1, <1>2, <2>1 DEF StillOnAmc, AmcLen
  <1>3. CASE phase = "rtm"
    <2>1. mux' = "AMC" => mux = "AMC" /\ RtmPos \notin {0, 3, 4}
      BY <1>1, <1>3, RtmTake, RtmWrite DEF Entry
    <2>2. RtmPos \in 0 .. TABLE_LEN + 7
      BY <1>3, RtmWrite
    <2>3. mux = "AMC" /\ RtmPos \in 1 .. 2 => noise >= 2 * RETRY_COUNT
      BY <1>3 DEF IInv, StillOnAmc
    <2>4. mux = "AMC" /\ RtmPos >= 5 => noise >= 4 * RETRY_COUNT
      BY <1>3 DEF IInv, StillOnAmc
    <2> QED
      BY <1>1, <1>3, <2>1, <2>2, <2>3, <2>4 DEF StillOnAmc
  <1> QED
    BY <1>2, <1>3 DEF IInv, TypeOK

(* The AMC's multiplexer is always there.                                  *)
LEMMA TcaAnswers ==
  ASSUME Head(todo).dev = "TCA"
  PROVE  Answers(Head(todo).dev)
  <1>1. Answers("TCA")
    BY DEF Answers
  <1> QED
    BY <1>1

(* A try that fails: nobody answers, which the AMC's multiplexer always    *)
(* does, or it counts as a disturbance.                                    *)
LEMMA StillFailed ==
  ASSUME IInv, phase # "run", todo # <<>>, phase' = phase, mux' = mux,
         \/ noise' = noise + 1
         \/ noise' = noise /\ ~Answers(Head(todo).dev),
         \/ /\ AmcPos' = AmcPos /\ RtmPos' = RtmPos
            /\ retry_count' = retry_count - 1
         \/ /\ AmcPos' = AmcPos + 1 /\ RtmPos' = RtmPos + 1
            /\ retry_count = 1 /\ retry_count' = RETRY_COUNT
  PROVE  StillOnAmc'
  <1>1. /\ TABLE_LEN \in Nat \ {0} /\ RETRY_COUNT \in Nat \ {0} /\ noise \in Nat
        /\ retry_count \in 1 .. RETRY_COUNT
    BY BoardAssumption DEF IInv, TypeOK
  <1>2. CASE phase = "amc"
    <2>1. AmcPos = TABLE_LEN + 1 => noise' = noise + 1
      <3>1. AmcPos = TABLE_LEN + 1 => Head(todo).dev = "TCA"
        BY <1>2, AmcWrite DEF Write
      <3> QED
        BY <3>1, TcaAnswers
    <2>2. mux = "AMC" /\ AmcPos = TABLE_LEN + 1 => noise >= RETRY_COUNT - retry_count
      BY <1>1, <1>2 DEF IInv, StillOnAmc, AmcLen
    <2>3. AmcPos \in 0 .. TABLE_LEN + 1 /\ mux \in {"none", "AMC"}
      BY <1>2, AmcWrite DEF IInv, StillOnAmc
    <2> QED
      BY <1>1, <1>2, <2>1, <2>2, <2>3 DEF StillOnAmc, AmcLen
  <1>3. CASE phase = "rtm"
    <2>1. RtmPos \in {0, 3, 4} => noise' = noise + 1
      <3>1. RtmPos \in {0, 3, 4} => Head(todo).dev = "TCA"
        BY <1>3, RtmWrite DEF Write
      <3> QED
        BY <3>1, TcaAnswers
    <2>2. RtmPos \in 0 .. TABLE_LEN + 7
      BY <1>3, RtmWrite
    <2>3. mux = "AMC" =>
            /\ RtmPos = 0 => noise >= 2 * RETRY_COUNT - retry_count
            /\ RtmPos \in 1 .. 2 => noise >= 2 * RETRY_COUNT
            /\ RtmPos = 3 => noise >= 3 * RETRY_COUNT - retry_count
            /\ RtmPos = 4 => noise >= 4 * RETRY_COUNT - retry_count
            /\ RtmPos >= 5 => noise >= 4 * RETRY_COUNT
      BY <1>3 DEF IInv, StillOnAmc
    <2> QED
      BY <1>1, <1>3, <2>1, <2>2, <2>3 DEF StillOnAmc
  <1> QED
    BY <1>2, <1>3 DEF IInv, TypeOK

-----------------------------------------------------------------------------
(* Few disturbances and an RTM that stays.                                 *)

(* Then the device that is written to is always reachable.                 *)
LEMMA Reachable ==
  ASSUME IInv, phase # "run", todo # <<>>, noise < RETRY_COUNT, moved = FALSE
  PROVE  Answers(Head(todo).dev)
  <1>1. TABLE_LEN \in Nat \ {0}
    BY BoardAssumption
  <1>2. CASE phase = "amc"
    <2>1. CASE AmcPos \in Entry
      <3>1. Head(todo).dev = "SI5324"
        BY <1>2, <2>1, AmcWrite DEF Write
      <3>2. mux = "AMC"
        BY <1>2, <2>1 DEF IInv, Configured, AmcDone, Entry
      <3> QED
        BY <3>1, <3>2 DEF Answers
    <2>2. CASE AmcPos \notin Entry
      <3>1. Head(todo).dev = "TCA"
        BY <1>1, <1>2, <2>2, AmcWrite DEF Entry, Write
      <3> QED
        BY <3>1, TcaAnswers
    <2> QED
      BY <2>1, <2>2
  <1>3. CASE phase = "rtm"
    <2>1. RtmDone(RtmPos)
      BY <1>3 DEF IInv, Configured
    <2>2. RtmOn
      BY <2>1 DEF RtmDone, RtmOn
    <2>3. CASE RtmPos \in {0, 3, 4, TABLE_LEN + 7}
      <3>1. Head(todo).dev = "TCA"
        BY <1>3, <2>3, RtmWrite DEF Write
      <3> QED
        BY <3>1, TcaAnswers
    <2>4. CASE RtmPos \in {1, 2, 5, TABLE_LEN + 6}
      <3>1. Head(todo).dev \in {"EXTENDER", "TCARTM"}
        BY <1>3, <2>4, RtmWrite DEF Write
      <3>2. mux = "RTM"
        BY <1>1, <2>1, <2>4 DEF RtmDone
      <3> QED
        BY <2>2, <3>1, <3>2 DEF Answers
    <2>5. CASE RtmPos - 5 \in Entry
      <3>1. Head(todo).dev = "SI5324" /\ RtmPos \in 6 .. TABLE_LEN + 5
        BY <1>1, <1>3, <2>5, RtmWrite DEF Write, Entry
      <3>2. mux = "RTM" /\ rtmMux = "SI5324" /\ extender = "on"
        BY <1>1, <2>1, <3>1 DEF RtmDone
      <3> QED
        BY <2>2, <3>1, <3>2 DEF Answers
    <2> QED
      BY <1>1, <1>3, <2>3, <2>4, <2>5, RtmWrite DEF Entry
  <1> QED
    BY <1>2, <1>3 DEF IInv, TypeOK

(* A write of i2c_setSI5324 that is taken does its part, whether it is     *)
(* seen or repeated.                                                       *)
LEMMA AmcDoneTaken ==
  ASSUME IInv, phase = "amc", todo # <<>>, noise < RETRY_COUNT, moved = FALSE,
         Answers(Head(todo).dev), Take(Head(todo)),
         AmcPos' \in {AmcPos, AmcPos + 1}
  PROVE  AmcDone(AmcPos)'
  <1>1. TABLE_LEN \in Nat \ {0} /\ AmcPos \in 0 .. TABLE_LEN + 1
    BY AmcWrite, BoardAssumption
  <1>2. AmcDone(AmcPos) /\ si \in [Boards -> [Entry -> {"none", "AMC", "RTM"}]]
    BY DEF IInv, Configured, TypeOK
  <1>3. CASE AmcPos = 0
    <2>1. mux' = "AMC" /\ si' = si /\ rtmMux' = rtmMux
      BY <1>3, AmcTake
    <2> QED
      BY <1>1, <1>2, <1>3, <2>1 DEF AmcDone, AmcLen, Entry
  <1>4. CASE AmcPos \in Entry
    <2>1. /\ mux' = "AMC" /\ si' = [si EXCEPT !["AMC"][AmcPos] = "AMC"]
          /\ rtmMux' = rtmMux
      BY <1>4, AmcTake
    <2>2. \A e \in Entry : si'["AMC"][e] = IF e = AmcPos THEN "AMC" ELSE si["AMC"][e]
      BY <1>2, <1>4, <2>1 DEF Boards
    <2> QED
      BY <1>1, <1>2, <1>4, <2>1, <2>2 DEF AmcDone, AmcLen, Entry
  <1>5. CASE AmcPos = TABLE_LEN + 1
    <2>1. mux' = "none" /\ si' = si /\ rtmMux' = rtmMux
      BY <1>5, AmcTake
    <2> QED
      BY <1>1, <1>2, <1>5, <2>1 DEF AmcDone, AmcLen, Entry
  <1> QED
    BY <1>1, <1>3, <1>4, <1>5 DEF Entry

(* And so does one of the RTM's script.                                    *)
LEMMA RtmDoneTaken ==
  ASSUME IInv, phase = "rtm", todo # <<>>, noise < RETRY_COUNT, moved = FALSE,
         Answers(Head(todo).dev), Take(Head(todo)), present' = present, mp' = mp,
         RtmPos' \in {RtmPos, RtmPos + 1}
  PROVE  RtmDone(RtmPos)'
  <1>1. TABLE_LEN \in Nat \ {0} /\ RtmPos \in 0 .. TABLE_LEN + 7
    BY RtmWrite, BoardAssumption
  <1>2. RtmDone(RtmPos) /\ si \in [Boards -> [Entry -> {"none", "AMC", "RTM"}]]
    BY DEF IInv, Configured, TypeOK
  <1>3. CASE RtmPos \in {0, 4}
    <2>1. mux' = "RTM" /\ rtmMux' = rtmMux /\ extender' = extender /\ si' = si
      BY <1>3, RtmTake
    <2> QED
      BY <1>1, <1>2, <1>3, <2>1 DEF RtmDone, RtmLen, Entry
  <1>4. CASE RtmPos = 1
    <2>1. extender' = "reset" /\ mux' = mux /\ rtmMux' = rtmMux /\ si' = si
      BY <1>4, RtmTake
    <2> QED
      BY <1>1, <1>2, <1>4, <2>1 DEF RtmDone, RtmLen, Entry
  <1>5. CASE RtmPos = 2
    <2>1. extender' = "on" /\ mux' = mux /\ rtmMux' = rtmMux /\ si' = si
      BY <1>5, RtmTake
    <2> QED
      BY <1>1, <1>2, <1>5, <2>1 DEF RtmDone, RtmLen, Entry
  <1>6. CASE RtmPos = 3
    <2>1. mux' = "none" /\ rtmMux' = rtmMux /\ extender' = extender /\ si' = si
      BY <1>6, RtmTake
    <2> QED
      BY <1>1, <1>2, <1>6, <2>1 DEF RtmDone, RtmLen, Entry
  <1>7. CASE RtmPos = 5
    <2>1. rtmMux' = "SI5324" /\ mux' = mux /\ extender' = extender /\ si' = si
      BY <1>7, RtmTake
    <2> QED
      BY <1>1, <1>2, <1>7, <2>1 DEF RtmDone, RtmLen, Entry
  <1>8. CASE RtmPos - 5 \in Entry
    <2>1. mux = "RTM"
      BY <1>1, <1>2, <1>8 DEF RtmDone, Entry
    <2>2. /\ si' = [si EXCEPT !["RTM"][RtmPos - 5] = "RTM"]
          /\ UNCHANGED <<mux, rtmMux, extender>>
      BY <1>8, <2>1, RtmTake
    <2>3. /\ si'["AMC"] = si["AMC"]
          /\ \A e \in Entry :
               si'["RTM"][e] = IF e = RtmPos - 5 THEN "RTM" ELSE si["RTM"][e]
      BY <1>2, <1>8, <2>2 DEF Boards
    <2>4. RtmPos \in 6 .. TABLE_LEN + 5
      BY <1>1, <1>8 DEF Entry
    <2> QED
      BY <1>1, <1>2, <2>1, <2>2, <2>3, <2>4 DEF RtmDone, RtmLen, Entry
  <1>9. CASE RtmPos = TABLE_LEN + 6
    <2>1. rtmMux' = "none" /\ mux' = mux /\ extender' = extender /\ si' = si
      BY <1>9, RtmTake
    <2> QED
      BY <1>1, <1>2, <1>9, <2>1 DEF RtmDone, RtmLen, Entry
  <1>10. CASE RtmPos = TABLE_LEN + 7
    <2>1. mux' = "none" /\ rtmMux' = rtmMux /\ extender' = extender /\ si' = si
      BY <1>10, RtmTake
    <2> QED
      BY <1>1, <1>2, <1>10, <2>1 DEF RtmDone, RtmLen, Entry
  <1> QED
    BY <1>1, <1>3, <1>4, <1>5, <1>6, <1>7, <1>8, <1>9, <1>10 DEF Entry

-----------------------------------------------------------------------------
(* The steps of i2c_write.                                                 *)

(* A failed try is repeated, or the write given up at the last.            *)
LEMMA TryAgainMoves ==
  ASSUME IInv, todo # <<>>, phase' = phase, mp' = mp, TryAgain
  PROVE  /\ Scripted' /\ retry_count' \in 1 .. RETRY_COUNT
         /\ \/ /\ AmcPos' = AmcPos /\ RtmPos' = RtmPos
               /\ retry_count > 1 /\ retry_count' = retry_count - 1
            \/ /\ AmcPos' = AmcPos + 1 /\ RtmPos' = RtmPos + 1
               /\ retry_count = 1 /\ retry_count' = RETRY_COUNT
  <1>1. RETRY_COUNT \in Nat \ {0} /\ retry_count \in 1 .. RETRY_COUNT
    BY BoardAssumption DEF IInv, TypeOK
  <1>2. CASE retry_count > 1
    <2>1. retry_count' = retry_count - 1 /\ todo' = todo
      BY <1>2 DEF TryAgain
    <2> QED
      BY <1>1, <1>2, <2>1, Again
  <1>3. CASE ~(retry_count > 1)
    <2>1. retry_count' = RETRY_COUNT /\ todo' = Tail(todo) /\ retry_count = 1
      BY <1>1, <1>3 DEF TryAgain
    <2> QED
      BY <1>1, <2>1, Onward
  <1> QED
    BY <1>2, <1>3

(* The devices that Scripted allows are the ones of TypeOK.                *)
LEMMA ScriptedDevices ==
  ASSUME Scripted
  PROVE  \A i \in 1 .. Len(todo) : todo[i].dev \in {"TCA", "TCARTM", "EXTENDER", "SI5324"}
  <1> DEFINE D == {"TCA", "TCARTM", "EXTENDER", "SI5324"}
             V == {"none", "AMC", "RTM", "SI5324", "reset", "on"} \cup (Entry \X Boards)
             W == [dev : D, val : V]
  <1>1. todo \in Seq(W)
    BY DEF Scripted
  <1> HIDE DEF W
  <1>2. \A i \in 1 .. Len(todo) : todo[i] \in W
    BY <1>1
  <1> HIDE DEF D, V
  <1>3. \A i \in 1 .. Len(todo) : todo[i].dev \in D
    BY <1>2 DEF W
  <1> QED
    BY <1>3 DEF D

(* main() is not in a write when the scheduler runs.                       *)
LEMMA WriteBeforeRun ==
  ASSUME IInv, todo # <<>>
  PROVE  phase \in {"amc", "rtm"}
  BY DEF IInv, Scripted, TypeOK

(* A write is acknowledged.                                                *)
LEMMA AcknowledgedInvariant ==
  ASSUME IInv, Acknowledged
  PROVE  IInv'
  <1>1. /\ todo # <<>> /\ Answers(Head(todo).dev) /\ Take(Head(todo))
        /\ todo' = Tail(todo) /\ retry_count' = RETRY_COUNT
        /\ phase' = phase /\ noise' = noise /\ present' = present /\ moved' = moved
        /\ done' = done /\ mp' = mp /\ p12' = p12 /\ hold' = hold
    BY DEF Acknowledged, pinVars, outVars
  <1>2. phase \in {"amc", "rtm"}
    BY <1>1, WriteBeforeRun
  <1>3. Scripted' /\ AmcPos' = AmcPos + 1 /\ RtmPos' = RtmPos + 1
    BY <1>1, Onward
  <1>4. /\ mux' \in {"none", "AMC", "RTM"} /\ rtmMux' \in {"none", "SI5324"}
        /\ extender' \in {"reset", "on"}
        /\ si' \in [Boards -> [Entry -> {"none", "AMC", "RTM"}]]
        /\ \A e \in Entry : si'["RTM"][e] \in {"none", "RTM"}
        /\ noise < 4 * RETRY_COUNT =>
             \A e \in Entry : si'["AMC"][e] \in {"none", "AMC"}
    BY <1>1, <1>2, TakeBus
  <1>5. TypeOK'
    <2>1. (\A i \in 1 .. Len(todo) :
             todo[i].dev \in {"TCA", "TCARTM", "EXTENDER", "SI5324"})'
      BY <1>3, ScriptedDevices, PTL
    <2>2. RETRY_COUNT \in 1 .. RETRY_COUNT
      BY BoardAssumption
    <2> QED
      BY <1>1, <1>4, <2>1, <2>2 DEF IInv, TypeOK, Entry, Boards
  <1>6. StillOnAmc'
    BY <1>1, <1>2, <1>3, StillTaken
  <1>7. Chips'
    BY <1>1, <1>4 DEF Chips, Entry
  <1>8. Configured'
    <2> SUFFICES ASSUME noise < RETRY_COUNT, moved = FALSE
                 PROVE  /\ noise + RETRY_COUNT >= RETRY_COUNT
                        /\ phase = "amc" => AmcDone(AmcPos)'
                        /\ phase = "rtm" => RtmDone(RtmPos)'
      BY <1>1, <1>2 DEF Configured
    <2>1. noise + RETRY_COUNT >= RETRY_COUNT
      BY BoardAssumption DEF IInv, TypeOK
    <2>2. phase = "amc" => AmcDone(AmcPos)'
      BY <1>1, <1>3, AmcDoneTaken
    <2>3. phase = "rtm" => RtmDone(RtmPos)'
      BY <1>1, <1>3, RtmDoneTaken
    <2> QED
      BY <2>1, <2>2, <2>3
  <1> QED
    BY <1>3, <1>5, <1>6, <1>7, <1>8 DEF IInv

(* Nobody answers.                                                         *)
LEMMA NoAnswerInvariant ==
  ASSUME IInv, NoAnswer
  PROVE  IInv'
  <1>1. /\ todo # <<>> /\ ~Answers(Head(todo).dev) /\ TryAgain
        /\ phase' = phase /\ noise' = noise /\ present' = present /\ moved' = moved
        /\ mux' = mux /\ rtmMux' = rtmMux /\ extender' = extender /\ si' = si
        /\ done' = done /\ mp' = mp /\ p12' = p12 /\ hold' = hold
    BY DEF NoAnswer, busVars, pinVars, outVars
  <1>2. phase \in {"amc", "rtm"}
    BY <1>1, WriteBeforeRun
  <1>3. /\ Scripted' /\ retry_count' \in 1 .. RETRY_COUNT
        /\ \/ /\ AmcPos' = AmcPos /\ RtmPos' = RtmPos
              /\ retry_count > 1 /\ retry_count' = retry_count - 1
           \/ /\ AmcPos' = AmcPos + 1 /\ RtmPos' = RtmPos + 1
              /\ retry_count = 1 /\ retry_count' = RETRY_COUNT
    BY <1>1, TryAgainMoves
  <1>4. TypeOK'
    <2>1. (\A i \in 1 .. Len(todo) :
             todo[i].dev \in {"TCA", "TCARTM", "EXTENDER", "SI5324"})'
      BY <1>3, ScriptedDevices, PTL
    <2> QED
      BY <1>1, <1>3, <2>1 DEF IInv, TypeOK, Entry, Boards
  <1>5. StillOnAmc'
    BY <1>1, <1>2, <1>3, StillFailed
  <1>6. Chips'
    BY <1>1 DEF IInv, Chips, Entry
  <1>7. Configured'
    <2>1. ~(noise < RETRY_COUNT /\ moved = FALSE)
      BY <1>1, <1>2, Reachable
    <2> QED
      BY <1>1, <2>1 DEF Configured
  <1> QED
    BY <1>3, <1>4, <1>5, <1>6, <1>7 DEF IInv

(* An acknowledge is not seen.                                             *)
LEMMA DisturbedInvariant ==
  ASSUME IInv, Disturbed
  PROVE  IInv'
  <1>1. /\ todo # <<>> /\ Answers(Head(todo).dev) /\ TryAgain
        /\ noise < MaxNoise /\ noise' = noise + 1
        /\ phase' = phase /\ present' = present /\ moved' = moved
        /\ done' = done /\ mp' = mp /\ p12' = p12 /\ hold' = hold
    BY DEF Disturbed, pinVars, outVars
  <1>2. \/ Take(Head(todo))
        \/ mux' = mux /\ rtmMux' = rtmMux /\ extender' = extender /\ si' = si
    BY DEF Disturbed, busVars
  <1>3. phase \in {"amc", "rtm"}
    BY <1>1, WriteBeforeRun
  <1>4. /\ Scripted' /\ retry_count' \in 1 .. RETRY_COUNT
        /\ \/ /\ AmcPos' = AmcPos /\ RtmPos' = RtmPos
              /\ retry_count > 1 /\ retry_count' = retry_count - 1
           \/ /\ AmcPos' = AmcPos + 1 /\ RtmPos' = RtmPos + 1
              /\ retry_count = 1 /\ retry_count' = RETRY_COUNT
    BY <1>1, TryAgainMoves
  <1>5. /\ RETRY_COUNT \in Nat \ {0} /\ retry_count \in 1 .. RETRY_COUNT
        /\ noise \in 0 .. MaxNoise /\ MaxNoise \in Nat
    BY BoardAssumption DEF IInv, TypeOK
  <1>6. /\ mux' \in {"none", "AMC", "RTM"} /\ rtmMux' \in {"none", "SI5324"}
        /\ extender' \in {"reset", "on"}
        /\ si' \in [Boards -> [Entry -> {"none", "AMC", "RTM"}]]
        /\ \A e \in Entry : si'["RTM"][e] \in {"none", "RTM"}
        /\ noise < 4 * RETRY_COUNT =>
             \A e \in Entry : si'["AMC"][e] \in {"none", "AMC"}
    <2>1. CASE Take(Head(todo))
      BY <1>1, <1>3, <2>1, TakeBus
    <2>2. CASE ~Take(Head(todo))
      BY <1>2, <2>2 DEF IInv, TypeOK, Chips
    <2> QED
      BY <2>1, <2>2
  <1>7. TypeOK'
    <2>1. (\A i \in 1 .. Len(todo) :
             todo[i].dev \in {"TCA", "TCARTM", "EXTENDER", "SI5324"})'
      BY <1>4, ScriptedDevices, PTL
    <2>2. noise' \in 0 .. MaxNoise
      BY <1>1, <1>5
    <2> QED
      BY <1>1, <1>4, <1>6, <2>1, <2>2 DEF IInv, TypeOK, Entry, Boards
  <1>8. StillOnAmc'
    <2>1. CASE Take(Head(todo))
      BY <1>1, <1>3, <1>4, <2>1, StillTaken
    <2>2. CASE ~Take(Head(todo))
      BY <1>1, <1>2, <1>3, <1>4, <2>2, StillFailed
    <2> QED
      BY <2>1, <2>2
  <1>9. Chips'
    <2>1. noise' < 4 * RETRY_COUNT => noise < 4 * RETRY_COUNT
      BY <1>1, <1>5
    <2> QED
      BY <1>6, <2>1 DEF Chips, Entry
  <1>10. Configured'
    <2> SUFFICES ASSUME noise + 1 < RETRY_COUNT, moved = FALSE
                 PROVE  /\ noise' + retry_count' >= RETRY_COUNT
                        /\ phase = "amc" => AmcDone(AmcPos)'
                        /\ phase = "rtm" => RtmDone(RtmPos)'
      BY <1>1, <1>3 DEF Configured
    <2>1. noise < RETRY_COUNT /\ noise + retry_count >= RETRY_COUNT
      BY <1>5 DEF IInv, Configured
    <2>2. /\ AmcPos' = AmcPos /\ RtmPos' = RtmPos /\ retry_count' = retry_count - 1
      BY <1>4, <1>5, <2>1
    <2>3. noise' + retry_count' >= RETRY_COUNT
      BY <1>1, <1>5, <2>1, <2>2
    <2>4. CASE Take(Head(todo))
      <3>1. phase = "amc" => AmcDone(AmcPos)'
        BY <1>1, <2>1, <2>2, <2>4, AmcDoneTaken
      <3>2. phase = "rtm" => RtmDone(RtmPos)'
        BY <1>1, <2>1, <2>2, <2>4, RtmDoneTaken
      <3> QED
        BY <2>3, <3>1, <3>2
    <2>5. CASE ~Take(Head(todo))
      <3>1. phase = "amc" => AmcDone(AmcPos)'
        BY <1>2, <2>1, <2>2, <2>5 DEF IInv, Configured, AmcDone, AmcLen, Entry
      <3>2. phase = "rtm" => RtmDone(RtmPos)'
        BY <1>1, <1>2, <2>1, <2>2, <2>5 DEF IInv, Configured, RtmDone, RtmLen, Entry
      <3> QED
        BY <2>3, <3>1, <3>2
    <2> QED
      BY <2>4, <2>5
  <1> QED
    BY <1>4, <1>7, <1>8, <1>9, <1>10 DEF IInv

-----------------------------------------------------------------------------
(* The other steps of main().                                              *)

(* The AMC is done; with few disturbances its Si5324 is set and no channel *)
(* selected.                                                               *)
LEMMA CheckRtmInvariant ==
  ASSUME IInv, CheckRtm
  PROVE  IInv'
  <1>1. /\ phase = "amc" /\ todo = <<>> /\ mp' = present /\ p12' = present
        /\ retry_count' = retry_count /\ noise' = noise /\ present' = present
        /\ moved' = moved /\ done' = done /\ hold' = hold
        /\ mux' = mux /\ rtmMux' = rtmMux /\ extender' = extender /\ si' = si
    BY DEF CheckRtm, busVars, pinVars
  <1>2. /\ TABLE_LEN \in Nat \ {0} /\ RETRY_COUNT \in Nat \ {0} /\ noise \in Nat
        /\ retry_count = RETRY_COUNT /\ mux \in {"none", "AMC"}
        /\ present \in BOOLEAN
    BY <1>1, BoardAssumption DEF IInv, TypeOK, Scripted, StillOnAmc
  <1>3. AmcPos = AmcLen
    BY <1>1, <1>2 DEF AmcPos, AmcLen
  <1>4. mux = "AMC" => noise >= RETRY_COUNT
    BY <1>1, <1>2, <1>3 DEF IInv, StillOnAmc
  <1>5. noise < RETRY_COUNT /\ moved = FALSE =>
          /\ mux = "none" /\ rtmMux = "none" /\ noise + retry_count >= RETRY_COUNT
          /\ \A e \in Entry : si["AMC"][e] = "AMC"
    BY <1>1, <1>2, <1>3 DEF IInv, Configured, AmcDone, AmcLen, Entry
  <1>6. Chips'
    BY <1>1 DEF IInv, Chips, Entry
  <1>7. CASE present = TRUE
    <2>1. phase' = "rtm" /\ todo' = RtmScript
      BY <1>7 DEF CheckRtm, RtmScript
    <2>2. /\ RtmScript \in Seq([dev : {"TCA", "TCARTM", "EXTENDER", "SI5324"},
                                val : {"none", "AMC", "RTM", "SI5324", "reset", "on"}
                                        \cup (Entry \X Boards)])
          /\ Len(RtmScript) = RtmLen
      BY RtmScriptType, RtmScriptFacts
    <2>3. Len(todo') = RtmLen /\ RtmPos' = 0 /\ todo' # <<>>
      BY <1>2, <2>1, <2>2 DEF RtmPos, RtmLen
    <2>4. RtmScript' = RtmScript
      BY DEF RtmScript, i2c_RTM_PWRON, i2c_setSI5324_RTM, Table, Entry
    <2>5. EndOf(RtmScript, RtmLen)'
      BY <1>2, <2>1, <2>3, <2>4 DEF EndOf, RtmLen
    <2>6. Scripted'
      BY <2>1, <2>2, <2>3, <2>5 DEF Scripted, Entry
    <2>7. TypeOK'
      <3>1. (\A i \in 1 .. Len(todo) :
               todo[i].dev \in {"TCA", "TCARTM", "EXTENDER", "SI5324"})'
        BY <2>6, ScriptedDevices, PTL
      <3> QED
        BY <1>1, <2>1, <3>1 DEF IInv, TypeOK, Entry, Boards
    <2>8. StillOnAmc'
      BY <1>1, <1>2, <1>4, <2>1, <2>3 DEF StillOnAmc
    <2>9. Configured'
      <3>1. noise < RETRY_COUNT /\ moved = FALSE => RtmDone(RtmPos)'
        BY <1>1, <1>2, <1>5, <1>7, <2>3 DEF RtmDone, RtmLen, Entry
      <3> QED
        BY <1>1, <1>5, <2>1, <3>1 DEF Configured
    <2> QED
      BY <1>6, <2>6, <2>7, <2>8, <2>9 DEF IInv
  <1>8. CASE present = FALSE
    <2>1. phase' = "run" /\ todo' = <<>>
      BY <1>8 DEF CheckRtm
    <2>2. Scripted'
      BY <1>1, <1>2, <2>1 DEF Scripted
    <2>3. TypeOK'
      BY <1>1, <2>1 DEF IInv, TypeOK, Entry, Boards
    <2>4. StillOnAmc'
      BY <2>1 DEF StillOnAmc
    <2>5. Configured'
      BY <1>1, <1>5, <1>8, <2>1 DEF Configured, Entry
    <2> QED
      BY <1>6, <2>2, <2>3, <2>4, <2>5 DEF IInv
  <1> QED
    BY <1>2, <1>7, <1>8

(* The RTM is done.                                                        *)
LEMMA StartSchedulerInvariant ==
  ASSUME IInv, StartScheduler
  PROVE  IInv'
  <1>1. /\ phase = "rtm" /\ todo = <<>> /\ phase' = "run" /\ todo' = todo
        /\ retry_count' = retry_count /\ noise' = noise /\ present' = present
        /\ moved' = moved /\ done' = done /\ mp' = mp /\ p12' = p12 /\ hold' = hold
        /\ mux' = mux /\ rtmMux' = rtmMux /\ extender' = extender /\ si' = si
    BY DEF StartScheduler, busVars, pinVars, outVars
  <1>2. TABLE_LEN \in Nat \ {0}
    BY BoardAssumption
  <1>3. RtmPos = RtmLen
    BY <1>1, <1>2 DEF RtmPos, RtmLen
  <1>4. noise < RETRY_COUNT /\ moved = FALSE =>
          /\ mux = "none" /\ rtmMux = "none" /\ noise + retry_count >= RETRY_COUNT
          /\ \A e \in Entry : si["AMC"][e] = "AMC"
          /\ \A e \in Entry : si["RTM"][e] = "RTM"
    BY <1>1, <1>2, <1>3 DEF IInv, Configured, RtmDone, RtmLen, Entry
  <1>5. TypeOK'
    BY <1>1 DEF IInv, TypeOK, Entry, Boards
  <1>6. Scripted'
    BY <1>1 DEF IInv, Scripted, Entry
  <1>7. StillOnAmc'
    BY <1>1 DEF StillOnAmc
  <1>8. Chips'
    BY <1>1 DEF IInv, Chips, Entry
  <1>9. Configured'
    BY <1>1, <1>4 DEF Configured, Entry
  <1> QED
    BY <1>5, <1>6, <1>7, <1>8, <1>9 DEF IInv

-----------------------------------------------------------------------------
(* The blink task and the surroundings.                                    *)

(* The RTM's devices lose what they hold; the AMC's do not.                *)
LEMMA ResetFacts ==
  ASSUME IInv, RtmReset
  PROVE  /\ rtmMux' = "none" /\ extender' = "reset" /\ mux' = mux
         /\ si' \in [Boards -> [Entry -> {"none", "AMC", "RTM"}]]
         /\ si'["AMC"] = si["AMC"]
         /\ \A e \in Entry : si'["RTM"][e] = "none"
  BY DEF IInv, TypeOK, RtmReset, Unset, Boards

(* The turn of the blink task leaves the configuration of an RTM that has  *)
(* stayed.                                                                 *)
LEMMA BlinkInvariant ==
  ASSUME IInv, Blink
  PROVE  IInv'
  <1>1. /\ phase = "run" /\ phase' = phase /\ todo' = todo /\ noise' = noise
        /\ retry_count' = retry_count /\ hold' = ~done /\ mp' = present
        /\ p12' = present /\ present' = present /\ moved' = moved /\ done' = done
    BY DEF Blink, RtmPower, bootVars, pinVars
  <1>2. \/ mux' = mux /\ rtmMux' = rtmMux /\ extender' = extender /\ si' = si
        \/ present = FALSE /\ RtmReset
    BY DEF Blink, RtmPower, busVars, IInv, TypeOK
  <1>3. Scripted'
    BY <1>1 DEF IInv, Scripted, Entry
  <1>4. StillOnAmc'
    BY <1>1 DEF StillOnAmc
  <1>5. (~done) \in BOOLEAN
    BY DEF IInv, TypeOK
  <1>6. CASE mux' = mux /\ rtmMux' = rtmMux /\ extender' = extender /\ si' = si
    <2>1. TypeOK'
      BY <1>1, <1>5, <1>6 DEF IInv, TypeOK, Entry, Boards
    <2>2. Chips' /\ Configured'
      BY <1>1, <1>6 DEF IInv, Chips, Configured, Entry
    <2> QED
      BY <1>3, <1>4, <2>1, <2>2 DEF IInv
  <1>7. CASE present = FALSE /\ RtmReset
    <2>1. TypeOK'
      BY <1>1, <1>5, <1>7, ResetFacts DEF IInv, TypeOK, Entry, Boards
    <2>2. Chips'
      BY <1>1, <1>7, ResetFacts DEF IInv, Chips, Entry
    <2>3. Configured'
      BY <1>1, <1>7, ResetFacts DEF IInv, Configured, Entry
    <2> QED
      BY <1>3, <1>4, <2>1, <2>2, <2>3 DEF IInv
  <1> QED
    BY <1>2, <1>6, <1>7

(* The RTM is moved: its devices are reset, its power is not touched.      *)
LEMMA MoveRtmInvariant ==
  ASSUME IInv, MoveRtm
  PROVE  IInv'
  <1>1. /\ phase' = phase /\ todo' = todo /\ noise' = noise /\ RtmReset
        /\ retry_count' = retry_count /\ present' = ~present /\ moved' = TRUE
        /\ done' = done /\ mp' = mp /\ p12' = p12 /\ hold' = hold
    BY DEF MoveRtm, bootVars, outVars
  <1>2. TypeOK'
    BY <1>1, ResetFacts DEF IInv, TypeOK, Entry, Boards
  <1>3. Scripted' /\ AmcPos' = AmcPos /\ RtmPos' = RtmPos
    BY <1>1, Idle
  <1>4. StillOnAmc'
    BY <1>1, <1>3, ResetFacts DEF IInv, StillOnAmc, AmcLen
  <1>5. Chips'
    BY <1>1, ResetFacts DEF IInv, Chips, Entry
  <1>6. Configured'
    BY <1>1 DEF Configured
  <1> QED
    BY <1>2, <1>3, <1>4, <1>5, <1>6 DEF IInv

(* The FPGA's DONE pin.                                                    *)
LEMMA ConfigureInvariant ==
  ASSUME IInv, Configure
  PROVE  IInv'
  <1>1. /\ phase' = phase /\ todo' = todo /\ noise' = noise
        /\ retry_count' = retry_count /\ present' = present /\ moved' = moved
        /\ done' = ~done /\ mp' = mp /\ p12' = p12 /\ hold' = hold
        /\ mux' = mux /\ rtmMux' = rtmMux /\ extender' = extender /\ si' = si
    BY DEF Configure, bootVars, busVars, outVars
  <1>2. done' \in BOOLEAN
    BY <1>1 DEF IInv, TypeOK
  <1> QED
    BY <1>1, <1>2, SameBoot

(* Nothing the invariant speaks of changes.                                *)
LEMMA StutterInvariant ==
  ASSUME IInv, UNCHANGED vars
  PROVE  IInv'
  <1>1. /\ phase' = phase /\ todo' = todo /\ noise' = noise
        /\ retry_count' = retry_count /\ present' = present /\ moved' = moved
        /\ done' = done /\ mp' = mp /\ p12' = p12 /\ hold' = hold
        /\ mux' = mux /\ rtmMux' = rtmMux /\ extender' = extender /\ si' = si
    BY DEF vars
  <1>2. done' \in BOOLEAN
    BY <1>1 DEF IInv, TypeOK
  <1> QED
    BY <1>1, <1>2, SameBoot

-----------------------------------------------------------------------------
(* main() has nothing written yet.                                         *)
LEMMA InitInvariant ==
  ASSUME Init
  PROVE  IInv
  <1>1. /\ TABLE_LEN \in Nat \ {0} /\ RETRY_COUNT \in Nat \ {0} /\ MaxNoise \in Nat
        /\ RETRY_COUNT \in 1 .. RETRY_COUNT /\ 0 \in 0 .. MaxNoise
    BY BoardAssumption
  <1>2. /\ i2c_setSI5324 \in Seq([dev : {"TCA", "TCARTM", "EXTENDER", "SI5324"},
                                  val : {"none", "AMC", "RTM", "SI5324", "reset", "on"}
                                          \cup (Entry \X Boards)])
        /\ Len(i2c_setSI5324) = AmcLen
    BY AmcScriptType, AmcScriptFacts
  <1>3. Len(todo) = AmcLen /\ AmcPos = 0 /\ todo # <<>>
    BY <1>1, <1>2 DEF Init, AmcPos, AmcLen
  <1>4. EndOf(i2c_setSI5324, AmcLen)
    BY <1>1, <1>3 DEF Init, EndOf, AmcLen
  <1>5. Scripted
    BY <1>2, <1>3, <1>4 DEF Init, Scripted
  <1>6. TypeOK
    BY <1>1, <1>5, ScriptedDevices DEF Init, TypeOK, Unset, Boards
  <1>7. StillOnAmc
    BY DEF Init, StillOnAmc
  <1>8. Chips
    BY DEF Init, Chips, Unset, Boards
  <1>9. Configured
    BY <1>1, <1>3 DEF Init, Configured, AmcDone, AmcLen, Entry
  <1> QED
    BY <1>5, <1>6, <1>7, <1>8, <1>9 DEF IInv

(* The inductive invariant holds in every state of every behaviour.        *)
THEOREM Invariant == Spec => []IInv
  <1>1. Init => IInv
    BY InitInvariant
  <1>2. IInv /\ [Next]_vars => IInv'
    BY AcknowledgedInvariant, NoAnswerInvariant, DisturbedInvariant,
       CheckRtmInvariant, StartSchedulerInvariant, BlinkInvariant,
       MoveRtmInvariant, ConfigureInvariant, StutterInvariant
    DEF Next, Main
  <1> QED
    BY <1>1, <1>2, PTL DEF Spec

(* Fewer disturbances than tries, and an RTM that stays: when the          *)
(* scheduler starts, every Si5324 that is there is configured and both     *)
(* multiplexers are deselected, whatever the length of the tables.         *)
THEOREM BootConfiguresTheorem == Spec => []BootConfigures
  <1>1. IInv => BootConfigures
    <2> SUFFICES ASSUME IInv, phase = "run", noise < RETRY_COUNT, ~moved
                 PROVE  /\ si["AMC"] = [e \in Entry |-> "AMC"]
                        /\ present => si["RTM"] = [e \in Entry |-> "RTM"]
                        /\ mux = "none" /\ rtmMux = "none"
      BY DEF BootConfigures
    <2>1. si["AMC"] \in [Entry -> {"none", "AMC", "RTM"}]
          /\ si["RTM"] \in [Entry -> {"none", "AMC", "RTM"}]
      BY DEF IInv, TypeOK, Boards
    <2>2. /\ \A e \in Entry : si["AMC"][e] = "AMC"
          /\ present = TRUE => \A e \in Entry : si["RTM"][e] = "RTM"
          /\ mux = "none" /\ rtmMux = "none"
      BY DEF IInv, Configured, TypeOK
    <2>3. si["AMC"] = [e \in Entry |-> "AMC"]
      BY <2>1, <2>2
    <2>4. present => si["RTM"] = [e \in Entry |-> "RTM"]
      BY <2>1, <2>2 DEF IInv, TypeOK
    <2> QED
      BY <2>2, <2>3, <2>4
  <1> QED
    BY <1>1, Invariant, PTL

(* The RTM's table reaches the AMC's Si5324 only after four writes to the  *)
(* AMC's multiplexer have been given up, and the AMC's table never reaches *)
(* the RTM's; and every variable has its type.                             *)
THEOREM RightChipTheorem == Spec => []RightChip
  <1>1. IInv => RightChip
    BY DEF IInv, Chips, RightChip, Boards
  <1> QED
    BY <1>1, Invariant, PTL
=============================================================================
