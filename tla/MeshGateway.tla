---------------------------- MODULE MeshGateway ----------------------------
(***************************************************************************)
(* The street-light demonstration: dashboards in browsers                  *)
(* (dashboard/dashboard.html) send commands through an MQTT broker to the  *)
(* gateway (gateway/gateway.py), which writes them on the serial line of a *)
(* mesh of lamps, reads the reports of the lamps and the errors of the     *)
(* mesh from that line, and publishes them for the dashboards.             *)
(*                                                                         *)
(* The gateway has two threads, which share lastUID: sub_loop takes        *)
(* commands, pub_loop reads the line.  An error of the mesh does not say   *)
(* which command failed; the gateway blames the lamp commanded last.       *)
(*                                                                         *)
(* The broker (QoS 0, clean sessions), the mesh and the lamps are external *)
(* and as nondeterministic as gateway and dashboard allow.                 *)
(***************************************************************************)
EXTENDS Naturals, Sequences, FiniteSets

CONSTANTS
  Browsers,     \* the open dashboards
  N,            \* lamps have the numbers 1 to N (TOTAL)
  MaxCommands,  \* commands given by the users
  MaxLosses,    \* connections lost and lines garbled
  MaxInFlight   \* reports on their way to a browser

ASSUME MeshBounds ==
  /\ {N, MaxInFlight} \subseteq Nat \ {0}
  /\ {MaxCommands, MaxLosses} \subseteq Nat

VARIABLES
  icon,       \* what each browser shows of each lamp
  page,       \* the connection of a browser: "up", "down", "dead"
  rec,        \* commands on their way from the broker to sub_loop
  subUp, pubUp,  \* the connections of the gateway's two clients
  taken,      \* the command on_message handles
  subPc,      \* its next step
  lastUID,    \* shared by the threads
  uid,        \* pub_loop's local variable, 0 while it is unbound
  pubPc,      \* its next step
  out, in,    \* the serial line: commands to the mesh, lines from it
  light,      \* the lamps
  cmd,        \* reports on their way to each browser
  commands, losses,  \* counters
  overlap,    \* history: a command was taken while an earlier one was open
  wrong,      \* history: an error blamed a lamp that had not failed
  commanded, blamed  \* history: commands and errors of each lamp

browser == <<icon, page>>
subThread == <<taken, subPc>>
pubThread == <<uid, pubPc>>
links == <<subUp, pubUp>>
history == <<overlap, wrong, commanded, blamed>>
vars == <<browser, rec, links, subThread, lastUID, pubThread, out, in, light, cmd,
          commands, losses, history>>

Lamps == 1 .. N
Reading == [uid : 0 .. N, light : BOOLEAN]
Line == [error : BOOLEAN, uid : Lamps, light : BOOLEAN]

Init ==
  /\ icon = [b \in Browsers |-> [l \in Lamps |-> FALSE]]
  /\ page = [b \in Browsers |-> "down"]
  /\ rec = <<>> /\ subUp = TRUE /\ pubUp = TRUE
  /\ taken = [uid |-> 0, light |-> FALSE] /\ subPc = "wait"
  /\ lastUID = 0 /\ uid = 0 /\ pubPc = "read"
  /\ out = <<>> /\ in = <<>>
  /\ light \in [Lamps -> BOOLEAN]
  /\ cmd = [b \in Browsers |-> <<>>]
  /\ commands = 0 /\ losses = 0
  /\ overlap = FALSE /\ wrong = FALSE
  /\ commanded = [l \in Lamps |-> 0] /\ blamed = [l \in Lamps |-> 0]

-----------------------------------------------------------------------------
(* The dashboard                                                           *)

(* client.send reaches the gateway if both are connected.                  *)
Send(b, l, on) ==
  /\ commands < MaxCommands /\ commands' = commands + 1
  /\ rec' = IF page[b] = "up" /\ subUp THEN Append(rec, [uid |-> l, light |-> on]) ELSE rec
  /\ UNCHANGED <<page, links, subThread, lastUID, pubThread, out, in, light, cmd, losses,
                 history>>

(* A click shows the lamp as it is to become, and then asks for it.        *)
OnePoste(b, l) ==
  /\ icon' = [icon EXCEPT ![b][l] = ~@]
  /\ Send(b, l, ~icon[b][l])

(* The buttons for all lamps ask and show nothing.                         *)
AllPoste(b, l, lamp) ==
  /\ UNCHANGED icon
  /\ Send(b, l, lamp)

OnMessageArrived(b) ==
  /\ cmd[b] # <<>>
  /\ LET payload == Head(cmd[b])
     IN  icon' = IF payload.uid \in Lamps
                 THEN [icon EXCEPT ![b][payload.uid] = payload.light] ELSE icon
  /\ cmd' = [cmd EXCEPT ![b] = Tail(@)]
  /\ UNCHANGED <<page, rec, links, subThread, lastUID, pubThread, out, in, light, commands,
                 losses, history>>

ConnectionLost(b) ==
  /\ page[b] = "up" /\ losses < MaxLosses
  /\ losses' = losses + 1
  /\ page' = [page EXCEPT ![b] = "down"] /\ cmd' = [cmd EXCEPT ![b] = <<>>]
  /\ UNCHANGED <<icon, rec, links, subThread, lastUID, pubThread, out, in, light, commands,
                 history>>

(* Mutant of Connect: a page that connects again does not subscribe.       *)
ConnectOnce(b) ==
  /\ page[b] = "down"
  /\ \/ page' = [page EXCEPT ![b] = IF losses = 0 THEN "up" ELSE "mute"] /\ UNCHANGED losses
     \/ /\ losses < MaxLosses /\ losses' = losses + 1
        /\ page' = [page EXCEPT ![b] = "dead"]
  /\ UNCHANGED <<icon, rec, links, subThread, lastUID, pubThread, out, in, light, cmd,
                 commands, history>>

(* client.connect subscribes to every lamp; when it fails, the page gives  *)
(* up for good.                                                            *)
Connect(b) ==
  /\ page[b] = "down"
  /\ \/ page' = [page EXCEPT ![b] = "up"] /\ UNCHANGED losses
     \/ /\ losses < MaxLosses /\ losses' = losses + 1
        /\ page' = [page EXCEPT ![b] = "dead"]
  /\ UNCHANGED <<icon, rec, links, subThread, lastUID, pubThread, out, in, light, cmd,
                 commands, history>>

-----------------------------------------------------------------------------
(* The gateway: sub_loop                                                   *)

(* A command whose outcome the gateway may still hear of.                  *)
Open == out # <<>> \/ (\E i \in DOMAIN in : in[i].error) \/ pubPc = "forget"

(* Mutant of OnMessage: a lamp that is not cleared stays to blame.         *)
OnMessageKeeps ==
  /\ subPc = "wait" /\ rec # <<>>
  /\ taken' = Head(rec) /\ rec' = Tail(rec)
  /\ lastUID' = IF lastUID = 0 THEN taken'.uid ELSE lastUID
  /\ subPc' = "write"
  /\ overlap' = (overlap \/ Open)
  /\ commanded' = [commanded EXCEPT ![taken'.uid] = @ + 1]
  /\ UNCHANGED <<browser, links, pubThread, out, in, light, cmd, commands, losses, wrong,
                 blamed>>

OnMessage ==
  /\ subPc = "wait" /\ rec # <<>>
  /\ taken' = Head(rec) /\ rec' = Tail(rec)
  /\ lastUID' = taken'.uid
  /\ subPc' = "write"
  /\ overlap' = (overlap \/ Open)
  /\ commanded' = [commanded EXCEPT ![taken'.uid] = @ + 1]
  /\ UNCHANGED <<browser, links, pubThread, out, in, light, cmd, commands, losses, wrong,
                 blamed>>

SerialWrite ==
  /\ subPc = "write"
  /\ out' = Append(out, taken)
  /\ subPc' = "wait"
  /\ UNCHANGED <<browser, rec, links, taken, lastUID, pubThread, in, light, cmd, commands,
                 losses, history>>

-----------------------------------------------------------------------------
(* The gateway: pub_loop                                                   *)

(* pub.publish: to every page that is connected.                           *)
Publish(payload) ==
  cmd' = [b \in Browsers |-> IF page[b] = "up" /\ pubUp THEN Append(cmd[b], payload)
                                                      ELSE cmd[b]]

ReadLine ==
  /\ pubPc = "read" /\ in # <<>>
  /\ \A b \in Browsers : Len(cmd[b]) < MaxInFlight
  /\ in' = Tail(in)
  /\ UNCHANGED <<browser, rec, links, subThread, lastUID, out, light, commands, losses,
                 overlap, commanded>>

ReadData ==
  /\ ReadLine /\ ~Head(in).error
  /\ uid' = Head(in).uid
  /\ Publish([uid |-> Head(in).uid, light |-> Head(in).light])
  /\ UNCHANGED <<pubPc, wrong, blamed>>

(* The topic is made from uid, which is unbound before the first report:   *)
(* the exception ends the thread.                                          *)
ReadError ==
  /\ ReadLine /\ Head(in).error
  /\ IF uid = 0
     THEN pubPc' = "dead" /\ UNCHANGED <<cmd, wrong, blamed>>
     ELSE /\ Publish([uid |-> lastUID, light |-> FALSE])
          /\ pubPc' = "forget"
          /\ wrong' = (wrong \/ lastUID # Head(in).uid)
          /\ blamed' = [l \in Lamps |-> blamed[l] + (IF l = lastUID THEN 1 ELSE 0)]
  /\ UNCHANGED uid

(* A line that is not text, or whose four fields are not all numbers: the  *)
(* exception ends the thread.                                              *)
ReadGarbled ==
  /\ pubPc = "read" /\ pubPc' = "dead"
  /\ losses < MaxLosses /\ losses' = losses + 1
  /\ UNCHANGED <<browser, rec, links, subThread, lastUID, uid, out, in, light, cmd, commands,
                 history>>

(* Mutant of Forget: the lamp stays to blame.                              *)
ForgetNot ==
  /\ pubPc = "forget"
  /\ pubPc' = "read"
  /\ UNCHANGED <<browser, rec, links, subThread, lastUID, uid, out, in, light, cmd, commands,
                 losses, history>>

(* The other thread may have taken a command in between: it is forgotten.  *)
Forget ==
  /\ pubPc = "forget"
  /\ lastUID' = 0 /\ pubPc' = "read"
  /\ UNCHANGED <<browser, rec, links, subThread, uid, out, in, light, cmd, commands, losses,
                 history>>

(* loop_forever and loop_start connect again, and on_connect subscribes.   *)
LoseLink ==
  /\ losses < MaxLosses /\ losses' = losses + 1
  /\ \/ subUp /\ subUp' = FALSE /\ rec' = <<>> /\ UNCHANGED pubUp
     \/ pubUp /\ pubUp' = FALSE /\ UNCHANGED <<subUp, rec>>
  /\ UNCHANGED <<browser, subThread, lastUID, pubThread, out, in, light, cmd, commands,
                 history>>

Reconnect ==
  /\ ~subUp \/ ~pubUp
  /\ subUp' = TRUE /\ pubUp' = TRUE
  /\ UNCHANGED <<browser, rec, subThread, lastUID, pubThread, out, in, light, cmd, commands,
                 losses, history>>

-----------------------------------------------------------------------------
(* The mesh and the lamps                                                  *)

(* A command switches its lamp, comes back as an error, or gets lost.      *)
Route ==
  /\ out # <<>>
  /\ out' = Tail(out)
  /\ LET c == Head(out)
     IN  \/ light' = [light EXCEPT ![c.uid] = c.light] /\ UNCHANGED in
         \/ /\ in' = Append(in, [error |-> TRUE, uid |-> c.uid, light |-> FALSE])
            /\ UNCHANGED light
         \/ UNCHANGED <<light, in>>
  /\ UNCHANGED <<browser, rec, links, subThread, lastUID, pubThread, cmd, commands, losses,
                 history>>

(* A lamp reports now and then.                                            *)
Report(l) ==
  /\ ~\E i \in DOMAIN in : in[i].uid = l /\ ~in[i].error
  /\ in' = Append(in, [error |-> FALSE, uid |-> l, light |-> light[l]])
  /\ UNCHANGED <<browser, rec, links, subThread, lastUID, pubThread, out, light, cmd,
                 commands, losses, history>>

-----------------------------------------------------------------------------
Next ==
  \/ \E b \in Browsers, l \in Lamps :
       OnePoste(b, l) \/ \E lamp \in BOOLEAN : AllPoste(b, l, lamp)
  \/ \E b \in Browsers : OnMessageArrived(b) \/ ConnectionLost(b) \/ Connect(b)
  \/ OnMessage \/ SerialWrite
  \/ ReadData \/ ReadError \/ ReadGarbled \/ Forget
  \/ LoseLink \/ Reconnect
  \/ Route \/ \E l \in Lamps : Report(l)

(* Browsers, threads and the mesh go on, lamps report again and again; the *)
(* users need not do anything, and no connection need get lost.            *)
Fairness ==
  /\ \A b \in Browsers : WF_vars(OnMessageArrived(b)) /\ WF_vars(Connect(b))
  /\ WF_vars(OnMessage) /\ WF_vars(SerialWrite)
  /\ WF_vars(ReadData) /\ WF_vars(ReadError) /\ WF_vars(Forget)
  /\ WF_vars(Reconnect) /\ WF_vars(Route)
  /\ \A l \in Lamps : WF_vars(Report(l))

Spec == Init /\ [][Next]_vars /\ Fairness

-----------------------------------------------------------------------------
(* Properties                                                              *)

(* Every variable has its type.                                            *)
TypeOK ==
  /\ icon \in [Browsers -> [Lamps -> BOOLEAN]]
  /\ page \in [Browsers -> {"up", "down", "dead"}]
  /\ rec \in Seq(Reading) /\ out \in Seq(Reading) /\ in \in Seq(Line)
  /\ taken \in Reading /\ subPc \in {"wait", "write"}
  /\ lastUID \in 0 .. N /\ uid \in 0 .. N /\ pubPc \in {"read", "forget", "dead"}
  /\ light \in [Lamps -> BOOLEAN] /\ cmd \in [Browsers -> Seq(Reading)]
  /\ {subUp, pubUp, overlap, wrong} \subseteq BOOLEAN

(* While commands come one at a time, an error of the mesh is blamed on the *)
(* lamp it is about: lastUID is set before the command is written.          *)
AloneIsBlamed == wrong => overlap

(* A lamp is blamed at most once for each command it was given.             *)
BlamedOnce == \A l \in Lamps : blamed[l] <= commanded[l]

(* When the users leave the dashboards alone, every page that is connected  *)
(* shows the lamps as they are, whatever was lost, blamed or overtaken      *)
(* before; unless the thread that publishes reports has died.               *)
IconsAgree ==
  <>[](pubPc = "dead" \/ \A b \in Browsers : page[b] = "dead" \/ icon[b] = light)
=============================================================================
