------------------------- MODULE MeshGatewayProofs -------------------------
(***************************************************************************)
(* Proofs about whom the gateway blames for an error of the mesh, for any  *)
(* number of lamps, dashboards, commands and lost connections.             *)
(*                                                                         *)
(* An error line does not name its command, so that AloneIsBlamed rests on *)
(* there being one open command at most: OneOpen says that, and that it is *)
(* the one lastUID holds, in each of the places where it can be.  Settled  *)
(* is the state IconsAgree leads to, which only a command disturbs.        *)
(***************************************************************************)
EXTENDS MeshGateway, SequenceTheorems, TLAPS

Command == [uid : Lamps, light : BOOLEAN]

Types ==
  /\ TypeOK
  /\ rec \in Seq(Command) /\ out \in Seq(Command)
  /\ subPc = "write" => taken \in Command
  /\ commanded \in [Lamps -> Nat] /\ blamed \in [Lamps -> Nat]

LEMMA LampsNotZero == Lamps \subseteq (0 .. N) \ {0} /\ 0 \notin Lamps /\ 0 \in 0 .. N
  BY MeshBounds, SMT DEF Lamps

LEMMA CommandIsReading == Command \subseteq Reading /\ Seq(Command) \subseteq Seq(Reading)
<1>1. Command \subseteq Reading
  BY LampsNotZero DEF Command, Reading
<1> QED BY <1>1, SeqMonotonic

LEMMA TypesInit == Init => Types
<1> SUFFICES ASSUME Init PROVE Types
  OBVIOUS
<1>1. {subUp, pubUp, overlap, wrong} \subseteq BOOLEAN
  BY Zenon DEF Init
<1>2. taken \in Reading
  BY LampsNotZero DEF Init, Reading
<1> QED BY <1>1, <1>2, LampsNotZero, SMT DEF Init, Types, TypeOK

(* Head, tail and a new last element of a sequence.                        *)
LEMMA Queue ==
  ASSUME NEW S, NEW s \in Seq(S)
  PROVE  /\ \A e \in S : Append(s, e) \in Seq(S)
         /\ s # <<>> => Head(s) \in S /\ Tail(s) \in Seq(S)
  BY AppendProperties, HeadTailProperties

LEMMA TypesPage ==
  ASSUME Types, NEW b \in Browsers,
         \/ \E l \in Lamps : OnePoste(b, l) \/ \E lamp \in BOOLEAN : AllPoste(b, l, lamp)
         \/ OnMessageArrived(b) \/ ConnectionLost(b) \/ Connect(b)
  PROVE  Types'
<1> USE DEF Types, TypeOK
<1>1. ASSUME NEW l \in Lamps, NEW on \in BOOLEAN,
             Send(b, l, on), icon' \in [Browsers -> [Lamps -> BOOLEAN]]
      PROVE  Types'
  <2>1. [uid |-> l, light |-> on] \in Command
    BY DEF Command
  <2>2. rec' \in Seq(Command)
    BY <1>1, <2>1, Queue DEF Send
  <2>3. rec' \in Seq(Reading)
    BY <2>2, CommandIsReading
  <2>4. UNCHANGED <<page, links, subThread, lastUID, pubThread, out, in, light, cmd, history>>
    BY <1>1 DEF Send
  <2> QED BY <1>1, <2>2, <2>3, <2>4 DEF links, subThread, pubThread, history
<1>2. ASSUME NEW l \in Lamps, OnePoste(b, l) PROVE Types'
  <2>1. \A x \in BOOLEAN : (~x) \in BOOLEAN
    OBVIOUS
  <2>2. icon' = [icon EXCEPT ![b] = [icon[b] EXCEPT ![l] = ~icon[b][l]]]
    BY <1>2, Zenon DEF OnePoste
  <2>3. icon' \in [Browsers -> [Lamps -> BOOLEAN]]
    BY <2>1, <2>2, Zenon
  <2> QED BY <1>1, <1>2, <2>1, <2>3, Zenon DEF OnePoste
<1>3. ASSUME NEW l \in Lamps, NEW lamp \in BOOLEAN, AllPoste(b, l, lamp) PROVE Types'
  BY <1>1, <1>3 DEF AllPoste
<1>4. CASE OnMessageArrived(b)
  <2>1. Head(cmd[b]) \in Reading /\ Tail(cmd[b]) \in Seq(Reading)
    BY <1>4, Queue DEF OnMessageArrived
  <2>2. icon' \in [Browsers -> [Lamps -> BOOLEAN]]
    BY <1>4, <2>1 DEF OnMessageArrived, Reading
  <2>3. cmd' \in [Browsers -> Seq(Reading)]
    BY <1>4, <2>1 DEF OnMessageArrived
  <2> QED BY <1>4, <2>2, <2>3 DEF OnMessageArrived, links, subThread, pubThread, history
<1>5. CASE ConnectionLost(b)
  <2>1. cmd' \in [Browsers -> Seq(Reading)] /\ page' \in [Browsers -> {"up", "down", "dead"}]
    BY <1>5 DEF ConnectionLost
  <2> QED BY <1>5, <2>1 DEF ConnectionLost, links, subThread, pubThread, history
<1>6. CASE Connect(b)
  <2>1. page' \in [Browsers -> {"up", "down", "dead"}]
    BY <1>6 DEF Connect
  <2> QED BY <1>6, <2>1 DEF Connect, links, subThread, pubThread, history
<1> QED BY <1>2, <1>3, <1>4, <1>5, <1>6

LEMMA TypesSub == Types /\ (OnMessage \/ SerialWrite) => Types'
<1> SUFFICES ASSUME Types, OnMessage \/ SerialWrite PROVE Types'
  OBVIOUS
<1> USE DEF Types, TypeOK
<1>1. CASE OnMessage
  <2>1. taken' \in Command /\ rec' \in Seq(Command)
    BY <1>1, Queue DEF OnMessage
  <2>2. taken' \in Reading /\ rec' \in Seq(Reading) /\ taken'.uid \in Lamps
    <3>1. taken' \in Reading
      BY <2>1, CommandIsReading
    <3>2. taken'.uid \in Lamps
      BY <2>1 DEF Command
    <3> QED BY <2>1, <3>1, <3>2, CommandIsReading
  <2>3. lastUID' \in 0 .. N
    BY <1>1, <2>2, LampsNotZero DEF OnMessage
  <2>4. commanded' \in [Lamps -> Nat]
    BY <1>1, <2>2, SMTT(60) DEF OnMessage
  <2>5. overlap' \in BOOLEAN
    BY <1>1, Zenon DEF OnMessage
  <2> QED BY <1>1, <2>1, <2>2, <2>3, <2>4, <2>5 DEF OnMessage, browser, links, pubThread
<1>2. CASE SerialWrite
  <2>1. out' \in Seq(Command)
    BY <1>2, Queue DEF SerialWrite
  <2>2. out' \in Seq(Reading)
    BY <2>1, CommandIsReading
  <2> QED BY <1>2, <2>1, <2>2 DEF SerialWrite, browser, links, pubThread, history
<1> QED BY <1>1, <1>2

LEMMA TypesPub == Types /\ (ReadData \/ ReadError \/ ReadGarbled \/ Forget) => Types'
<1> SUFFICES ASSUME Types, ReadData \/ ReadError \/ ReadGarbled \/ Forget PROVE Types'
  OBVIOUS
<1> USE DEF Types, TypeOK
<1>1. ASSUME NEW payload \in Reading, Publish(payload)
      PROVE  cmd' \in [Browsers -> Seq(Reading)]
  <2>1. \A b \in Browsers : Append(cmd[b], payload) \in Seq(Reading)
    BY Queue
  <2> QED BY <1>1, <2>1 DEF Publish
<1>2. ASSUME ReadLine
      PROVE  /\ Head(in) \in Line /\ in' \in Seq(Line)
             /\ UNCHANGED <<icon, page, rec, subUp, pubUp, taken, subPc, lastUID, out, light,
                            overlap, commanded>>
  BY <1>2, Queue DEF ReadLine, browser, links, subThread
<1>3. CASE ReadData
  <2>1. [uid |-> Head(in).uid, light |-> Head(in).light] \in Reading /\ uid' \in 0 .. N
    BY <1>2, <1>3, LampsNotZero DEF ReadData, Line, Reading
  <2>2. cmd' \in [Browsers -> Seq(Reading)]
    BY <1>1, <1>3, <2>1 DEF ReadData
  <2> QED BY <1>2, <1>3, <2>1, <2>2 DEF ReadData
<1>4. CASE ReadError
  <2>1. [uid |-> lastUID, light |-> FALSE] \in Reading
    BY DEF Reading
  <2>2. cmd' \in [Browsers -> Seq(Reading)]
    BY <1>1, <1>4, <2>1 DEF ReadError
  <2>3. blamed' \in [Lamps -> Nat]
    <3>1. \A l \in Lamps : blamed[l] + (IF l = lastUID THEN 1 ELSE 0) \in Nat
      OBVIOUS
    <3>2. \/ UNCHANGED blamed
          \/ blamed' = [l \in Lamps |-> blamed[l] + (IF l = lastUID THEN 1 ELSE 0)]
      BY <1>4 DEF ReadError
    <3> QED BY <3>1, <3>2
  <2>4. wrong' \in BOOLEAN
    BY <1>4, Zenon DEF ReadError
  <2>5. pubPc' \in {"read", "forget", "dead"} /\ UNCHANGED uid
    BY <1>4 DEF ReadError
  <2> QED BY <1>2, <1>4, <2>2, <2>3, <2>4, <2>5 DEF ReadError
<1>5. CASE Forget
  BY <1>5, LampsNotZero DEF Forget, browser, links, subThread, history
<1>6. CASE ReadGarbled
  BY <1>6 DEF ReadGarbled, browser, links, subThread, history
<1> QED BY <1>3, <1>4, <1>5, <1>6

LEMMA TypesMesh ==
  Types /\ (LoseLink \/ Reconnect \/ Route \/ \E l \in Lamps : Report(l)) => Types'
<1> SUFFICES ASSUME Types, LoseLink \/ Reconnect \/ Route \/ \E l \in Lamps : Report(l)
             PROVE  Types'
  OBVIOUS
<1> USE DEF Types, TypeOK
<1>1. CASE LoseLink
  <2>1. rec' \in Seq(Command) /\ rec' \in Seq(Reading)
    <3>1. <<>> \in Seq(Command)
      OBVIOUS
    <3>2. rec' = <<>> \/ UNCHANGED rec
      BY <1>1 DEF LoseLink
    <3> QED BY <3>1, <3>2, CommandIsReading
  <2>2. {subUp, pubUp}' \subseteq BOOLEAN
    BY <1>1, Zenon DEF LoseLink
  <2> QED BY <1>1, <2>1, <2>2 DEF LoseLink, browser, subThread, pubThread, history
<1>2. CASE Reconnect
  <2>1. {subUp, pubUp}' \subseteq BOOLEAN
    BY <1>2, Zenon DEF Reconnect
  <2> QED BY <1>2, <2>1 DEF Reconnect, browser, subThread, pubThread, history
<1>3. CASE Route
  <2>1. Head(out) \in Command /\ out' \in Seq(Command) /\ out' \in Seq(Reading)
    BY <1>3, Queue, CommandIsReading DEF Route
  <2>2. light' \in [Lamps -> BOOLEAN]
    BY <1>3, <2>1 DEF Route, Command
  <2>3. [error |-> TRUE, uid |-> Head(out).uid, light |-> FALSE] \in Line
    BY <2>1 DEF Command, Line
  <2>4. in' \in Seq(Line)
    <3>1. \/ UNCHANGED in
          \/ in' = Append(in, [error |-> TRUE, uid |-> Head(out).uid, light |-> FALSE])
      BY <1>3, Zenon DEF Route
    <3>2. \A e \in Line : Append(in, e) \in Seq(Line)
      BY Queue
    <3> QED BY <2>3, <3>1, <3>2
  <2> QED BY <1>3, <2>1, <2>2, <2>4 DEF Route, browser, links, subThread, pubThread, history
<1>4. ASSUME NEW l \in Lamps, Report(l) PROVE Types'
  <2>1. [error |-> FALSE, uid |-> l, light |-> light[l]] \in Line
    BY DEF Line
  <2>2. in' \in Seq(Line)
    BY <1>4, <2>1, Queue DEF Report
  <2> QED BY <1>4, <2>2 DEF Report, browser, links, subThread, pubThread, history
<1> QED BY <1>1, <1>2, <1>3, <1>4

LEMMA TypesNext == Types /\ [Next]_vars => Types'
<1>1. Types /\ UNCHANGED vars => Types'
  BY DEF Types, TypeOK, vars, browser, links, subThread, pubThread, history
<1> QED BY <1>1, TypesPage, TypesSub, TypesPub, TypesMesh DEF Next

(* Every variable has its type, and so have the histories.                 *)
THEOREM TypeCorrect == Spec => []TypeOK
<1>1. Types => TypeOK
  BY DEF Types
<1> QED BY <1>1, TypesInit, TypesNext, PTL DEF Spec

-----------------------------------------------------------------------------
(* One command at a time.  The open command, if there is one, is the one    *)
(* lastUID holds, and it is in one place: not written yet, on the line to   *)
(* the mesh, or an error on the line from it.                               *)
NoError == \A i \in DOMAIN in : ~in[i].error

Undecided ==
  /\ ~wrong
  /\ subPc = "write" => out = <<>> /\ NoError /\ pubPc # "forget" /\ taken.uid = lastUID
  /\ out # <<>> => Len(out) = 1 /\ Head(out).uid = lastUID /\ NoError /\ pubPc # "forget"
  /\ \A i \in DOMAIN in : in[i].error => in[i].uid = lastUID /\ pubPc # "forget"
  /\ \A i, j \in DOMAIN in : in[i].error /\ in[j].error => i = j

OneOpen == overlap \/ Undecided

LEMMA OpenInit == Init => OneOpen
<1> SUFFICES ASSUME Init PROVE Undecided
  BY DEF OneOpen
<1>1. DOMAIN <<>> = {}
  OBVIOUS
<1>2. ~wrong /\ subPc = "wait" /\ out = <<>> /\ in = <<>>
  BY Zenon DEF Init
<1> QED BY <1>1, <1>2 DEF Undecided, NoError

(* What happens to the line from the mesh when its first entry is read, and *)
(* when another one arrives.                                                *)
LEMMA LineShifts ==
  ASSUME Types, in # <<>>, in' = Tail(in)
  PROVE  /\ Len(in) >= 1 /\ Head(in) = in[1]
         /\ \A i \in DOMAIN in' : i + 1 \in DOMAIN in /\ in'[i] = in[i + 1] /\ i \in Nat
         /\ DOMAIN in = 1 .. Len(in)
  BY DEF Types, TypeOK

LEMMA LineGrows ==
  ASSUME Types, NEW e \in Line, in' = Append(in, e)
  PROVE  /\ \A i \in DOMAIN in' : \/ i \in DOMAIN in /\ in'[i] = in[i]
                                  \/ i = Len(in) + 1 /\ in'[i] = e
         /\ DOMAIN in = 1 .. Len(in) /\ Len(in) \in Nat
<1>1. in \in Seq(Line)
  BY DEF Types, TypeOK
<1>2. /\ Len(in') = Len(in) + 1 /\ in' \in Seq(Line)
      /\ \A i \in 1 .. Len(in) : in'[i] = in[i]
      /\ in'[Len(in) + 1] = e
  BY <1>1, AppendProperties
<1>3. DOMAIN in = 1 .. Len(in) /\ DOMAIN in' = 1 .. Len(in') /\ Len(in) \in Nat
  BY <1>1, <1>2
<1>4. ASSUME NEW i \in DOMAIN in'
      PROVE  \/ i \in DOMAIN in /\ in'[i] = in[i]
             \/ i = Len(in) + 1 /\ in'[i] = e
  <2>1. i \in 1 .. Len(in) \/ i = Len(in) + 1
    BY <1>2, <1>3
  <2>2. CASE i \in 1 .. Len(in)
    BY <1>2, <1>3, <2>2
  <2>3. CASE i = Len(in) + 1
    BY <1>2, <2>3
  <2> QED BY <2>1, <2>2, <2>3
<1> QED BY <1>3, <1>4

LEMMA OpenIdle ==
  ASSUME OneOpen, UNCHANGED <<overlap, wrong, subPc, taken, out, in, lastUID, pubPc>>
  PROVE  OneOpen'
  BY DEF OneOpen, Undecided, NoError

LEMMA OpenPage ==
  ASSUME OneOpen, NEW b \in Browsers,
         \/ \E l \in Lamps : OnePoste(b, l) \/ \E lamp \in BOOLEAN : AllPoste(b, l, lamp)
         \/ OnMessageArrived(b) \/ ConnectionLost(b) \/ Connect(b)
  PROVE  OneOpen'
  BY OpenIdle DEF OnePoste, AllPoste, Send, OnMessageArrived, ConnectionLost, Connect, links,
     subThread, pubThread, history

LEMMA OpenOnMessage == ASSUME Types, OneOpen, OnMessage PROVE OneOpen'
<1>1. /\ lastUID' = taken'.uid /\ overlap' = (overlap \/ Open)
      /\ UNCHANGED <<out, in, pubPc, wrong>>
  BY DEF OnMessage, pubThread
<1>2. CASE overlap \/ Open
  BY <1>1, <1>2 DEF OneOpen
<1>3. CASE ~overlap /\ ~Open
  <2>1. ~wrong /\ NoError /\ out = <<>> /\ pubPc # "forget"
    BY <1>3 DEF Open, OneOpen, Undecided, NoError
  <2> QED BY <1>1, <2>1 DEF OneOpen, Undecided, NoError
<1> QED BY <1>2, <1>3

LEMMA OpenSerialWrite == ASSUME Types, OneOpen, SerialWrite PROVE OneOpen'
<1>1. /\ subPc = "write" /\ out' = Append(out, taken) /\ subPc' = "wait"
      /\ UNCHANGED <<overlap, wrong, taken, in, lastUID, pubPc>>
  BY DEF SerialWrite, pubThread, history
<1>2. ASSUME ~overlap PROVE Undecided'
  <2>1. Undecided /\ out = <<>> /\ NoError /\ pubPc # "forget" /\ taken.uid = lastUID
    BY <1>1, <1>2 DEF OneOpen, Undecided
  <2>2. Len(out') = 1 /\ Head(out') = taken
    BY <1>1, <2>1
  <2> QED BY <1>1, <2>1, <2>2 DEF Undecided, NoError
<1> QED BY <1>1, <1>2 DEF OneOpen

LEMMA OpenRead == ASSUME Types, OneOpen, ReadData \/ ReadError PROVE OneOpen'
<1>1. /\ pubPc = "read" /\ in # <<>> /\ in' = Tail(in)
      /\ UNCHANGED <<overlap, subPc, taken, out, lastUID>>
  BY DEF ReadData, ReadError, ReadLine, subThread
<1>2. /\ Len(in) >= 1 /\ Head(in) = in[1] /\ DOMAIN in = 1 .. Len(in)
      /\ \A i \in DOMAIN in' : i + 1 \in DOMAIN in /\ in'[i] = in[i + 1] /\ i \in Nat
  BY <1>1, LineShifts
<1>3. CASE overlap
  BY <1>1, <1>3 DEF OneOpen
<1>4. CASE ~overlap /\ ReadData
  <2>1. UNCHANGED <<pubPc, wrong>> /\ Undecided
    BY <1>4 DEF ReadData, OneOpen
  <2>2. NoError => NoError'
    BY <1>2 DEF NoError
  <2>3. \A i \in DOMAIN in' : in'[i].error => in'[i].uid = lastUID /\ pubPc # "forget"
    BY <1>2, <2>1 DEF Undecided
  <2>4. \A i, j \in DOMAIN in' : in'[i].error /\ in'[j].error => i = j
    <3> SUFFICES ASSUME NEW i \in DOMAIN in', NEW j \in DOMAIN in', in'[i].error, in'[j].error
                 PROVE  i = j
      OBVIOUS
    <3>1. i + 1 = j + 1
      BY <1>2, <2>1 DEF Undecided
    <3> QED BY <1>2, <3>1
  <2> QED BY <1>1, <2>1, <2>2, <2>3, <2>4 DEF OneOpen, Undecided
<1>5. CASE ~overlap /\ ReadError
  <2>1. Undecided /\ 1 \in DOMAIN in /\ in[1].error /\ ~NoError
    BY <1>2, <1>5 DEF ReadError, OneOpen, NoError
  <2>2. subPc # "write" /\ out = <<>> /\ in[1].uid = lastUID
    BY <2>1 DEF Undecided
  <2>3. NoError'
    <3> SUFFICES ASSUME NEW i \in DOMAIN in', in'[i].error PROVE FALSE
      BY DEF NoError
    <3>1. i + 1 = 1 /\ i \in DOMAIN in'
      BY <1>2, <2>1 DEF Undecided
    <3>2. i \in 1 .. Len(in')
      BY <1>1 DEF Types, TypeOK
    <3> QED BY <3>1, <3>2
  <2>4. ~wrong'
    BY <1>2, <1>5, <2>1, <2>2 DEF ReadError, Undecided
  <2> QED BY <1>1, <2>2, <2>3, <2>4 DEF OneOpen, Undecided, NoError
<1> QED BY <1>3, <1>4, <1>5

LEMMA OpenForget == ASSUME Types, OneOpen, Forget PROVE OneOpen'
<1>1. /\ pubPc = "forget" /\ pubPc' = "read"
      /\ UNCHANGED <<overlap, wrong, subPc, taken, out, in>>
  BY DEF Forget, subThread, history
<1> QED BY <1>1 DEF OneOpen, Undecided, NoError

LEMMA OpenGarbled == ASSUME OneOpen, ReadGarbled PROVE OneOpen'
<1>1. /\ pubPc' # "forget" /\ UNCHANGED <<overlap, wrong, subPc, taken, out, in, lastUID>>
  BY DEF ReadGarbled, subThread, history
<1> QED BY <1>1 DEF OneOpen, Undecided, NoError

LEMMA OpenRoute == ASSUME Types, OneOpen, Route PROVE OneOpen'
<1> DEFINE e == [error |-> TRUE, uid |-> Head(out).uid, light |-> FALSE]
<1>1. /\ out # <<>> /\ out' = Tail(out)
      /\ UNCHANGED <<overlap, wrong, subPc, taken, lastUID, pubPc>>
  BY DEF Route, subThread, pubThread, history
<1>2. UNCHANGED in \/ in' = Append(in, e)
  BY Zenon DEF Route
<1>3. ASSUME ~overlap PROVE Undecided'
  <2>1. /\ Undecided /\ Len(out) = 1 /\ Head(out).uid = lastUID /\ NoError
        /\ pubPc # "forget" /\ subPc # "write"
    BY <1>1, <1>3 DEF OneOpen, Undecided
  <2>2. out' = <<>>
    BY <1>1, <2>1 DEF Types, TypeOK
  <2>3. CASE UNCHANGED in
    BY <1>1, <2>1, <2>2, <2>3 DEF Undecided
  <2>4. CASE in' = Append(in, e)
    <3>1. e \in Line /\ e.uid = lastUID
      <4>1. Head(out) \in Command
        BY <1>1, Queue DEF Types
      <4> QED BY <2>1, <4>1 DEF Command, Line
    <3> HIDE DEF e
    <3>2. \A i \in DOMAIN in' : \/ i \in DOMAIN in /\ in'[i] = in[i]
                                \/ i = Len(in) + 1 /\ in'[i] = e
      BY <2>4, <3>1, LineGrows
    <3>3. \A i \in DOMAIN in' : in'[i].error => i = Len(in) + 1 /\ in'[i] = e
      BY <2>1, <3>2 DEF NoError
    <3> QED BY <1>1, <2>1, <2>2, <3>1, <3>3 DEF Undecided
  <2> QED BY <1>2, <2>3, <2>4
<1> QED BY <1>1, <1>3 DEF OneOpen

LEMMA OpenReport == ASSUME Types, OneOpen, NEW l \in Lamps, Report(l) PROVE OneOpen'
<1> DEFINE e == [error |-> FALSE, uid |-> l, light |-> light[l]]
<1>1. /\ in' = Append(in, e)
      /\ UNCHANGED <<overlap, wrong, subPc, taken, out, lastUID, pubPc>>
  BY DEF Report, subThread, pubThread, history
<1>2. e \in Line /\ ~e.error
  BY DEF Line, Types, TypeOK
<1> HIDE DEF e
<1>3. \A i \in DOMAIN in' : \/ i \in DOMAIN in /\ in'[i] = in[i]
                            \/ i = Len(in) + 1 /\ in'[i] = e
  BY <1>1, <1>2, LineGrows
<1>4. \A i \in DOMAIN in' : in'[i].error => i \in DOMAIN in /\ in'[i] = in[i]
  BY <1>2, <1>3
<1> QED BY <1>1, <1>4 DEF OneOpen, Undecided, NoError

LEMMA OpenNext == Types /\ OneOpen /\ [Next]_vars => OneOpen'
<1> SUFFICES ASSUME Types, OneOpen, [Next]_vars PROVE OneOpen'
  OBVIOUS
<1>1. CASE UNCHANGED vars
  BY <1>1, OpenIdle DEF vars, subThread, pubThread, history
<1>2. CASE LoseLink \/ Reconnect
  BY <1>2, OpenIdle DEF LoseLink, Reconnect, subThread, pubThread, history
<1> QED
  BY <1>1, <1>2, OpenPage, OpenOnMessage, OpenSerialWrite, OpenRead, OpenForget, OpenGarbled,
     OpenRoute, OpenReport DEF Next

(* While commands come one at a time, an error is blamed on the lamp it is *)
(* about, however the two threads, the mesh and the broker interleave.      *)
THEOREM OneCommandIsBlamedRight == Spec => []AloneIsBlamed
<1>1. OneOpen => AloneIsBlamed
  BY DEF OneOpen, Undecided, AloneIsBlamed
<1> QED BY <1>1, TypesInit, TypesNext, OpenInit, OpenNext, PTL DEF Spec

-----------------------------------------------------------------------------
(* Commands may overlap.  The lamp lastUID holds has had a command it was   *)
(* not blamed for yet, unless the blame is just being published.            *)
Covered ==
  \A l \in Lamps :
    /\ blamed[l] <= commanded[l]
    /\ lastUID = l /\ pubPc # "forget" => blamed[l] + 1 <= commanded[l]

LEMMA CoveredNext == Types /\ Covered /\ [Next]_vars => Covered'
<1> SUFFICES ASSUME Types, Covered, [Next]_vars PROVE Covered'
  OBVIOUS
<1> DEFINE Same == UNCHANGED <<lastUID, pubPc, blamed, commanded>>
<1>1. ASSUME Same PROVE Covered'
  BY <1>1 DEF Covered
<1>2. CASE OnMessage
  <2>1. /\ lastUID' = taken'.uid /\ UNCHANGED <<pubPc, blamed>>
        /\ commanded' = [commanded EXCEPT ![taken'.uid] = @ + 1]
    BY <1>2 DEF OnMessage, pubThread
  <2> QED BY <2>1 DEF Covered, Types
<1>3. CASE ReadError
  <2>1. pubPc = "read" /\ UNCHANGED <<lastUID, commanded>>
    BY <1>3 DEF ReadError, ReadLine
  <2>2. CASE pubPc' = "dead" /\ UNCHANGED blamed
    BY <2>1, <2>2 DEF Covered
  <2>3. CASE /\ pubPc' = "forget"
             /\ blamed' = [l \in Lamps |-> blamed[l] + (IF l = lastUID THEN 1 ELSE 0)]
    BY <2>1, <2>3 DEF Covered, Types
  <2> QED BY <1>3, <2>2, <2>3 DEF ReadError
<1>4. CASE Forget
  <2>1. lastUID' = 0 /\ UNCHANGED <<blamed, commanded>>
    BY <1>4 DEF Forget, history
  <2> QED BY <2>1, LampsNotZero DEF Covered
<1>5. CASE \E b \in Browsers :
             \/ \E l \in Lamps : OnePoste(b, l) \/ \E lamp \in BOOLEAN : AllPoste(b, l, lamp)
             \/ OnMessageArrived(b) \/ ConnectionLost(b) \/ Connect(b)
  <2>1. Same
    BY <1>5 DEF OnePoste, AllPoste, Send, OnMessageArrived, ConnectionLost, Connect, pubThread,
       history
  <2> QED BY <1>1, <2>1
<1>6. CASE \/ SerialWrite \/ ReadData \/ LoseLink \/ Reconnect \/ Route
           \/ (\E l \in Lamps : Report(l)) \/ UNCHANGED vars
  <2>1. Same
    BY <1>6 DEF SerialWrite, ReadData, ReadLine, LoseLink, Reconnect, Route, Report, vars,
       pubThread, history
  <2> QED BY <1>1, <2>1
<1>7. CASE ReadGarbled
  <2>1. pubPc = "read" /\ UNCHANGED <<lastUID, blamed, commanded>>
    BY <1>7 DEF ReadGarbled, history
  <2> QED BY <2>1 DEF Covered
<1> QED BY <1>2, <1>3, <1>4, <1>5, <1>6, <1>7 DEF Next

(* However commands, errors and the two threads overlap, no lamp is blamed *)
(* more often than it was commanded.                                        *)
THEOREM NeverBlamedTwice == Spec => []BlamedOnce
<1>1. Init => Covered
  BY LampsNotZero DEF Init, Covered
<1>2. Covered => BlamedOnce
  BY DEF Covered, BlamedOnce
<1> QED BY <1>1, <1>2, TypesInit, TypesNext, CoveredNext, PTL DEF Spec

-----------------------------------------------------------------------------
(* Dashboards that agree with the lamps                                    *)

(* What the lines and reports under way say, when they say what is so.     *)
AgreeingLines == {m \in Line : ~m.error /\ m.light = light[m.uid]}
AgreeingReports == {r \in Reading : r.uid \in Lamps => r.light = light[r.uid]}

(* The dashboard b agrees with the lamps, no command is under way, and     *)
(* whatever will be reported agrees as well.                               *)
Settled(b) ==
  /\ rec = <<>> /\ subPc = "wait" /\ out = <<>> /\ pubPc # "forget"
  /\ in \in Seq(AgreeingLines)
  /\ cmd[b] \in Seq(AgreeingReports)
  /\ icon[b] = light

(* No step but a click or a button disturbs it.                            *)
KeepsSettled == commands' = commands => \A b \in Browsers : Settled(b) => Settled(b)'
SettledStays == [][KeepsSettled]_vars

Counted == commands \in Nat

LEMMA CommandsNext == Counted /\ [Next]_vars => Counted'
<1> SUFFICES ASSUME Counted, [Next]_vars PROVE Counted'
  OBVIOUS
<1>1. commands' \in {commands, commands + 1}
  BY DEF Next, OnePoste, AllPoste, Send, OnMessageArrived, ConnectionLost, Connect, OnMessage,
         SerialWrite, ReadData, ReadError, ReadGarbled, ReadLine, Forget, LoseLink, Reconnect,
         Route, Report, vars
<1> QED BY <1>1, SMT DEF Counted

(* The pages: a report that agrees changes nothing that is shown.          *)
LEMMA SettledPage ==
  ASSUME Types, NEW b \in Browsers, Settled(b), NEW c \in Browsers,
         OnMessageArrived(c) \/ ConnectionLost(c) \/ Connect(c)
  PROVE  Settled(b)'
<1>1. /\ UNCHANGED <<rec, subPc, out, pubPc, in, light>>
      /\ AgreeingLines' = AgreeingLines /\ AgreeingReports' = AgreeingReports
  BY DEF OnMessageArrived, ConnectionLost, Connect, subThread, pubThread, AgreeingLines,
         AgreeingReports
<1>2. /\ cmd \in [Browsers -> Seq(Reading)] /\ icon \in [Browsers -> [Lamps -> BOOLEAN]]
      /\ cmd[b] \in Seq(AgreeingReports) /\ icon[b] = light /\ light \in [Lamps -> BOOLEAN]
  BY DEF Types, TypeOK, Settled
<1>3. cmd'[b] \in Seq(AgreeingReports) /\ icon'[b] = light
  <2>1. CASE OnMessageArrived(c) /\ c = b
    <3>1. cmd[b] # <<>> /\ cmd'[b] = Tail(cmd[b])
      BY <1>2, <2>1 DEF OnMessageArrived
    <3>2. Head(cmd[b]) \in AgreeingReports /\ cmd'[b] \in Seq(AgreeingReports)
      BY <1>2, <3>1, Queue
    <3>3. CASE Head(cmd[b]).uid \in Lamps
      <4>1. icon'[b] = [light EXCEPT ![Head(cmd[b]).uid] = Head(cmd[b]).light]
        BY <1>2, <2>1, <3>3 DEF OnMessageArrived
      <4>2. Head(cmd[b]).light = light[Head(cmd[b]).uid]
        BY <3>2, <3>3 DEF AgreeingReports
      <4> QED BY <1>2, <3>2, <4>1, <4>2
    <3>4. CASE Head(cmd[b]).uid \notin Lamps
      BY <1>2, <2>1, <3>2, <3>4 DEF OnMessageArrived
    <3> QED BY <3>3, <3>4
  <2>2. CASE OnMessageArrived(c) /\ c # b
    <3>1. cmd'[b] = cmd[b] /\ icon'[b] = icon[b]
      BY <1>2, <2>2 DEF OnMessageArrived
    <3> QED BY <1>2, <3>1
  <2>3. CASE ConnectionLost(c) \/ Connect(c)
    <3>1. cmd'[b] \in {cmd[b], <<>>} /\ UNCHANGED icon
      BY <1>2, <2>3 DEF ConnectionLost, Connect
    <3>2. <<>> \in Seq(AgreeingReports)
      OBVIOUS
    <3> QED BY <1>2, <3>1, <3>2
  <2> QED BY <2>1, <2>2, <2>3
<1> QED BY <1>1, <1>3 DEF Settled

(* The gateway, the broker and the mesh: there is no command to work on,   *)
(* and a lamp reports what it is.                                          *)
LEMMA SettledGateway ==
  ASSUME Types, NEW b \in Browsers, Settled(b),
         \/ OnMessage \/ SerialWrite \/ ReadData \/ ReadError \/ ReadGarbled \/ Forget
         \/ LoseLink \/ Reconnect \/ Route
         \/ \E l \in Lamps : Report(l)
  PROVE  Settled(b)'
<1>1. /\ cmd \in [Browsers -> Seq(Reading)] /\ in \in Seq(AgreeingLines)
      /\ cmd[b] \in Seq(AgreeingReports) /\ light \in [Lamps -> BOOLEAN]
  BY DEF Types, TypeOK, Settled
<1>2. ~OnMessage /\ ~SerialWrite /\ ~Forget /\ ~Route
  BY DEF Settled, OnMessage, SerialWrite, Forget, Route
<1>3. ASSUME UNCHANGED <<icon, subPc, out, light>>, rec' \in {rec, <<>>}, pubPc' \in {pubPc, "dead"},
             in' \in Seq(AgreeingLines), cmd'[b] \in Seq(AgreeingReports)
      PROVE  Settled(b)'
  <2>1. AgreeingLines' = AgreeingLines /\ AgreeingReports' = AgreeingReports
    BY <1>3 DEF AgreeingLines, AgreeingReports
  <2> QED BY <1>3, <2>1 DEF Settled
<1>4. ASSUME ReadLine
      PROVE  /\ Head(in) \in AgreeingLines /\ in' \in Seq(AgreeingLines)
             /\ UNCHANGED <<icon, subPc, out, light, rec>>
  BY <1>1, <1>4, Queue DEF ReadLine, browser, subThread
<1>5. CASE ReadData
  <2>1. [uid |-> Head(in).uid, light |-> Head(in).light] \in AgreeingReports
    <3>1. Head(in) \in Line /\ Head(in).light = light[Head(in).uid]
      BY <1>4, <1>5 DEF ReadData, AgreeingLines
    <3>2. [uid |-> Head(in).uid, light |-> Head(in).light] \in Reading
      BY <3>1, LampsNotZero DEF Line, Reading
    <3> QED BY <3>1, <3>2 DEF AgreeingReports
  <2>2. cmd'[b] \in {cmd[b], Append(cmd[b], [uid |-> Head(in).uid, light |-> Head(in).light])}
    BY <1>5 DEF ReadData, Publish
  <2>3. cmd'[b] \in Seq(AgreeingReports)
    BY <1>1, <2>1, <2>2, Queue
  <2> QED BY <1>3, <1>4, <1>5, <2>3 DEF ReadData
<1>6. ~ReadError
  <2> SUFFICES ASSUME ReadError PROVE FALSE
    OBVIOUS
  <2> QED BY <1>4 DEF ReadError, AgreeingLines
<1>7. CASE LoseLink \/ Reconnect
  BY <1>1, <1>3, <1>7 DEF LoseLink, Reconnect, browser, subThread, pubThread
<1>8. ASSUME NEW l \in Lamps, Report(l) PROVE Settled(b)'
  <2>1. [error |-> FALSE, uid |-> l, light |-> light[l]] \in AgreeingLines
    BY <1>1 DEF AgreeingLines, Line
  <2>2. in' \in Seq(AgreeingLines)
    BY <1>1, <1>8, <2>1, Queue DEF Report
  <2> QED BY <1>1, <1>3, <1>8, <2>2 DEF Report, browser, subThread, pubThread
<1>9. CASE ReadGarbled
  BY <1>1, <1>3, <1>9 DEF ReadGarbled, browser, subThread
<1> QED BY <1>2, <1>5, <1>6, <1>7, <1>8, <1>9

(* dashboard.html and gateway.py: a page that shows the lamps as they are, *)
(* with no command under way, goes on showing them so until a user clicks, *)
(* whatever connections are lost and whoever reports when.                 *)
THEOREM SettledDashboardsStay == Spec => SettledStays
<1>1. Types /\ Counted /\ [Next]_vars => KeepsSettled
  <2> SUFFICES ASSUME Types, Counted, [Next]_vars, commands' = commands,
                      NEW b \in Browsers, Settled(b)
               PROVE  Settled(b)'
    BY DEF KeepsSettled
  <2>1. ~\E c \in Browsers, l \in Lamps : OnePoste(c, l) \/ \E lamp \in BOOLEAN : AllPoste(c, l, lamp)
    <3>1. commands' # commands + 1
      BY SMT DEF Counted
    <3> QED BY <3>1, Zenon DEF OnePoste, AllPoste, Send
  <2>2. CASE UNCHANGED vars
    BY <2>2 DEF vars, browser, subThread, pubThread, Settled, AgreeingLines, AgreeingReports
  <2> QED BY <2>1, <2>2, SettledPage, SettledGateway DEF Next
<1>2. Init => Counted
  BY DEF Init, Counted
<1> QED BY <1>1, <1>2, TypesInit, TypesNext, CommandsNext, PTL DEF Spec, SettledStays

=============================================================================
