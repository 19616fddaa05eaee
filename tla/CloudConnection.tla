-------------------------- MODULE CloudConnection --------------------------
(***************************************************************************)
(* How the AVR-IoT firmware gets from power-up to publishing, and back     *)
(* there after a failure: the state machine of cloud/cloud.c with the      *)
(* callbacks of cloud/network.c, the MQTT client (mqtt_client.c, umqtt.c), *)
(* the callbacks of main.c and led.c, and the sockets of the WINC1500      *)
(* driver (socket.c) they use.                                             *)
(*                                                                         *)
(* One turn of the superloop (CLOUD_runTask) first delivers what the Wi-Fi *)
(* chip has answered, any number of callbacks, then runs one expired timer *)
(* callback, then acts on the one event that occured_event holds: whatever *)
(* was reported last.  The access point, the chip, the server and the      *)
(* broker are external: they answer each request when they like, and fail  *)
(* in the ways listed in Faults, at most Budget times.  The timers are     *)
(* those of TimerService, without the time they take.                      *)
(***************************************************************************)
EXTENDS Integers, SequencesExt

CONSTANTS
  Slots,       (* the TCP sockets of the chip, TCP_SOCK_MAX: 7 in the code     *)
  ResetAfter,  (* LED_toggle resets the board after so many calls: 100         *)
  Faults,      (* the kinds of failure that can happen                         *)
  DropStates,  (* the states of the machine in which the access point may drop *)
  Budget,      (* bound: the number of failures                                *)
  MaxSends     (* bound: SEND replies the chip can owe before the next publish *)

ASSUME CloudAssumption ==
  /\ Slots \in Nat \ {0} /\ ResetAfter \in Nat /\ Budget \in Nat /\ MaxSends \in Nat \ {0}
  /\ Faults \subseteq {"request", "answer", "mute", "join", "drop", "renew", "peer", "refuse"}

States == {"INIT", "WIFI_CONNECT", "WAIT_FOR_INTERNET", "DNS_REQUEST", "TLS_CONNECT",
           "MQTT", "SENDING"}
SocketIds == 0 .. Slots - 1
NoSocket == -1
None == "CLOUD_NO_EVENT"
Success == "CLOUD_EVENT_SUCCESS"
Fail == "CLOUD_EVENT_FAIL"

VARIABLES
  state,      (* current_state                                              *)
  event,      (* occured_event                                              *)
  phase,      (* where CLOUD_runTask is: "poll" for answers, then "act"     *)
  endpoint,   (* whether endpoint_ip holds an address                       *)
  sock,       (* tcpClientSocket                                            *)
  nextSock,   (* u8NextTcpSock                                              *)
  sockets,    (* gastrSockets, with what the chip makes of each             *)
  mqtt,       (* umqtt_conn.state                                           *)
  subInit,    (* sub_init                                                   *)
  tasks,      (* the timers send_task and toggle_led: waiting and ready     *)
  online,     (* isInternetConnection                                       *)
  wdt,        (* wdt_connect                                                *)
  wifi,       (* external: the association with the access point            *)
  pings,      (* external: ping replies the chip owes                       *)
  lookups,    (* external: DNS replies the chip owes                        *)
  broker,     (* external: how far the broker is with our connection        *)
  budget      (* bound: failures left                                       *)

machine == <<state, phase>>
driver == <<endpoint, sock, nextSock, sockets>>
client == <<mqtt, subInit>>
timers == <<tasks, online, wdt>>
network == <<wifi, pings, lookups>>
vars == <<machine, event, driver, client, timers, network, broker, budget>>

-----------------------------------------------------------------------------
(* A failure of the environment: one of the possible kinds, and counted. *)
Fault(kind) == kind \in Faults /\ budget > 0 /\ budget' = budget - 1

(* A failure that needs no fault when something failed before. *)
FailsFor(kind, forced) == IF forced THEN budget' = budget ELSE Fault(kind)

(* A slot of gastrSockets.  An unused one may still be owed a CONNECT reply
   ("stale"), which m2m_ip_cb delivers without a look at its session. *)
Socket(link) == [link |-> link, sends |-> 0, recv |-> FALSE]
IsUsed(s) == s \in SocketIds /\ sockets[s].link \notin {"free", "stale"}
Connected(s) == IsUsed(s) /\ sockets[s].link = "connected"

(* close() *)
Close(s) ==
  IF ~IsUsed(s) THEN sockets
  ELSE [sockets EXCEPT ![s] =
          Socket(IF @.link \in {"connecting", "nowhere"} THEN "stale" ELSE "free")]

(* The session with the broker is over when its socket is. *)
BrokerWithout(s) == IF s = sock THEN "none" ELSE broker

(* socket(): the slots are tried in turn from u8NextTcpSock. *)
FreeSocket ==
  LET inTurn == [k \in SocketIds |-> (nextSock + k) % Slots]
      free == {k \in SocketIds : ~IsUsed(inTurn[k])}
  IN IF free = {} THEN NoSocket
     ELSE inTurn[CHOOSE k \in free : \A j \in free : k <= j]

(* send() on a socket of which `n` packets are accepted. *)
Send(s, n) == IF IsUsed(s) THEN [sockets EXCEPT ![s].sends = @ + n] ELSE sockets

(* The timers, as TimerService has them. *)
DeleteRunning(ts, t) == [ts EXCEPT !.waiting = @ \ {t}]
Unlink(q, t) ==
  IF t \in ToSet(q) THEN RemoveAt(q, CHOOSE i \in DOMAIN q : q[i] = t) ELSE q
Delete(ts, t) == [waiting |-> ts.waiting \ {t}, ready |-> Unlink(ts.ready, t)]
CreateOnTop(ts, t) == [ts EXCEPT !.waiting = @ \cup {t}]
Create(ts, t) == [Delete(ts, t) EXCEPT !.waiting = @ \cup {t}]

-----------------------------------------------------------------------------
(* Power-up: main() before its loop, up to the success of CLOUD_startApp. *)
Init ==
  /\ state = "INIT" /\ event = Success /\ phase = "poll"
  /\ endpoint = FALSE /\ sock = NoSocket /\ nextSock = 0
  /\ sockets = [s \in SocketIds |-> Socket("free")]
  /\ mqtt = "INIT" /\ subInit = FALSE
  /\ tasks = [waiting |-> {}, ready |-> <<>>] /\ online = TRUE /\ wdt = 0
  /\ wifi = "down" /\ pings = 0 /\ lookups = 0 /\ broker = "none"
  /\ budget = Budget

(* RSTCTRL_reset: main() again, with the chip reset and every variable initial. *)
Reset ==
  /\ state' = "INIT" /\ event' = Success /\ phase' = "poll"
  /\ endpoint' = FALSE /\ sock' = NoSocket /\ nextSock' = 0
  /\ sockets' = [s \in SocketIds |-> Socket("free")]
  /\ mqtt' = "INIT" /\ subInit' = FALSE
  /\ tasks' = [waiting |-> {}, ready |-> <<>>] /\ online' = TRUE /\ wdt' = 0
  /\ wifi' = "down" /\ pings' = 0 /\ lookups' = 0 /\ broker' = "none"
  /\ budget' = budget

-----------------------------------------------------------------------------
(* Callbacks, delivered by m2m_wifi_handle_events. *)
Polling == phase = "poll"

(* M2M_WIFI_REQ_DHCP_CONF: an address, for the first time or renewed. *)
GetAddress ==
  /\ Polling /\ wifi # "down"
  /\ IF wifi = "joining" THEN budget' = budget ELSE Fault("renew")
  /\ wifi' = "up" /\ event' = Success
  /\ UNCHANGED <<machine, driver, client, timers, pings, lookups, broker>>

(* M2M_WIFI_RESP_CON_STATE_CHANGED with M2M_WIFI_DISCONNECTED. *)
LoseWifi ==
  /\ Polling
  /\ \/ wifi = "joining" /\ Fault("join")
     \/ wifi = "up" /\ state \in DropStates /\ Fault("drop")
  /\ wifi' = "down" /\ event' = Fail
  /\ sockets' = Close(sock) /\ broker' = "none"
  /\ UNCHANGED <<machine, endpoint, sock, nextSock, client, timers, pings, lookups>>

(* NETWORK_pingCallback *)
PingReply ==
  /\ Polling /\ pings > 0 /\ pings' = pings - 1
  /\ \/ wifi = "up" /\ event' = Success /\ budget' = budget
     \/ FailsFor("answer", wifi # "up") /\ event' = Fail
     \/ Fault("mute") /\ event' = event
  /\ UNCHANGED <<machine, driver, client, timers, wifi, lookups, broker>>

(* NETWORK_dnsCallback *)
DnsReply ==
  /\ Polling /\ lookups > 0 /\ lookups' = lookups - 1
  /\ \/ wifi = "up" /\ endpoint' = TRUE /\ event' = Success /\ budget' = budget
     \/ FailsFor("answer", wifi # "up") /\ endpoint' = endpoint /\ event' = Fail
  /\ UNCHANGED <<machine, sock, nextSock, sockets, client, timers, wifi, pings, broker>>

(* SOCKET_MSG_CONNECT without the close of a socket that failed to connect. *)
ConnectReplyNoClose(s) ==
  /\ Polling
  /\ \/ /\ wifi = "up" /\ sockets[s].link = "connecting" /\ budget' = budget
        /\ sockets' = [sockets EXCEPT ![s].link = "connected"] /\ event' = Success
     \/ /\ sockets[s].link \in {"connecting", "nowhere", "stale"}
        /\ FailsFor("answer", wifi # "up" \/ sockets[s].link # "connecting")
        /\ sockets' = [sockets EXCEPT ![s].link = IF @ = "stale" THEN "free" ELSE "dead"]
        /\ event' = Fail
  /\ UNCHANGED <<machine, endpoint, sock, nextSock, client, timers, network, broker>>

(* SOCKET_MSG_CONNECT *)
ConnectReply(s) ==
  /\ Polling
  /\ \/ /\ wifi = "up" /\ sockets[s].link = "connecting" /\ budget' = budget
        /\ sockets' = [sockets EXCEPT ![s].link = "connected"] /\ event' = Success
     \/ /\ sockets[s].link \in {"connecting", "nowhere", "stale"}
        /\ FailsFor("answer", wifi # "up" \/ sockets[s].link # "connecting")
        /\ sockets' = [sockets EXCEPT ![s] = Socket("free")] /\ event' = Fail
  /\ UNCHANGED <<machine, endpoint, sock, nextSock, client, timers, network, broker>>

(* SOCKET_MSG_SEND, which asks for the next data on tcpClientSocket.  There is no
   other place that calls recv. *)
SendReply(s) ==
  /\ Polling /\ IsUsed(s) /\ sockets[s].sends > 0
  /\ LET sent == [sockets EXCEPT ![s].sends = @ - 1]
     IN sockets' = IF IsUsed(sock) THEN [sent EXCEPT ![sock].recv = TRUE] ELSE sent
  /\ UNCHANGED <<machine, event, endpoint, sock, nextSock, client, timers, network,
                 broker, budget>>

(* SOCKET_MSG_RECV with a packet of the broker: umqtt_packet_arrived. *)
ReceivePacket ==
  /\ Polling /\ Connected(sock) /\ wifi = "up" /\ sockets[sock].recv
  /\ sockets' = [sockets EXCEPT ![sock].recv = FALSE]
  /\ \/ /\ broker = "connect" /\ broker' = "session" /\ budget' = budget
        /\ mqtt' = "CONNECTED" /\ event' = Success
     \/ /\ broker = "connect" /\ broker' = "none" /\ Fault("refuse")
        /\ mqtt' = "FAILED" /\ event' = event
     \/ /\ broker = "subscribed" /\ event' \in {event, Success}
        /\ UNCHANGED <<broker, mqtt, budget>>
  /\ UNCHANGED <<machine, endpoint, sock, nextSock, subInit, timers, network>>

(* SOCKET_MSG_RECV with an error: there is no connection, or no longer. *)
ReceiveError(s) ==
  /\ Polling /\ IsUsed(s) /\ sockets[s].recv /\ ~(Connected(s) /\ wifi = "up")
  /\ sockets' = Close(s) /\ broker' = BrokerWithout(s) /\ event' = Fail
  /\ UNCHANGED <<machine, endpoint, sock, nextSock, client, timers, network, budget>>

(* The server ends the connection.  The firmware learns of it by the next recv. *)
PeerCloses(s) ==
  /\ Connected(s) /\ Fault("peer")
  /\ sockets' = [sockets EXCEPT ![s].link = "dead"] /\ broker' = BrokerWithout(s)
  /\ UNCHANGED <<machine, event, endpoint, sock, nextSock, client, timers, network>>

-----------------------------------------------------------------------------
(* The timer interrupt, at any time, and scheduler_timeout_call_next_callback. *)
Expire(t) ==
  /\ t \in tasks.waiting
  /\ t = "send_task" => \A s \in SocketIds : sockets[s].sends + 2 <= MaxSends
  /\ tasks' = [waiting |-> tasks.waiting \ {t}, ready |-> Append(tasks.ready, t)]
  /\ UNCHANGED <<machine, event, driver, client, online, wdt, network, broker, budget>>

NoCallback ==
  /\ Polling /\ tasks.ready = <<>> /\ phase' = "act"
  /\ UNCHANGED <<state, event, driver, client, timers, network, broker, budget>>

(* LED_toggle: after ResetAfter calls the board is reset, and the chip with it. *)
ToggleLed ==
  /\ Polling /\ tasks.ready # <<>> /\ Head(tasks.ready) = "toggle_led"
  /\ \/ wdt >= ResetAfter /\ Reset
     \/ /\ wdt < ResetAfter /\ wdt' = wdt + 1
        /\ tasks' = Create([tasks EXCEPT !.ready = Tail(@)], "toggle_led")
        /\ phase' = "act"
        /\ UNCHANGED <<state, event, driver, client, online, network, broker, budget>>

(* publishADC: a PUBLISH, the first time a SUBSCRIBE as well, and again in ten
   seconds.  Each can be lost when the request to the chip fails.  A broker that
   gets either before it accepted the CONNECT ends the connection. *)
PublishADC ==
  /\ Polling /\ tasks.ready # <<>> /\ Head(tasks.ready) = "send_task"
  /\ \E accepted \in SUBSET (IF subInit THEN {"publish"} ELSE {"publish", "subscribe"}) :
       LET lost == "publish" \notin accepted \/ ~(subInit \/ "subscribe" \in accepted)
           sent == Send(sock, Cardinality(accepted))
           reaches == Connected(sock) /\ accepted # {}
           inSession == broker \notin {"none", "connect"}
       IN /\ IF lost THEN Fault("mute") ELSE budget' = budget
          /\ sockets' = IF reaches /\ ~inSession
                          THEN [sent EXCEPT ![sock].link = "dead"] ELSE sent
          /\ broker' = IF ~reaches THEN broker
                       ELSE IF ~inSession THEN "none"
                       ELSE IF "subscribe" \in accepted THEN "subscribed"
                       ELSE IF broker = "session" THEN "published" ELSE broker
  /\ subInit' = TRUE
  /\ tasks' = Create([tasks EXCEPT !.ready = Tail(@)], "send_task")
  /\ phase' = "act"
  /\ UNCHANGED <<state, event, endpoint, sock, nextSock, mqtt, online, wdt, network>>

-----------------------------------------------------------------------------
(* The handlers of the states, which run in the turn that takes the event. *)
WifiConnect ==
  /\ state' = "WIFI_CONNECT"
  /\ \/ wifi' = "joining" /\ event' = None /\ budget' = budget
     \/ wifi' = wifi /\ event' = Fail /\ Fault("request")
  /\ UNCHANGED <<driver, mqtt, pings, lookups, broker>>

WaitForInternet ==
  /\ state' = "WAIT_FOR_INTERNET" /\ event' = None
  /\ \/ pings' = pings + 1 /\ budget' = budget
     \/ pings' = pings /\ Fault("mute")
  /\ UNCHANGED <<driver, mqtt, wifi, lookups, broker>>

RequestDns ==
  /\ state' = "DNS_REQUEST" /\ endpoint' = FALSE
  /\ \/ lookups' = lookups + 1 /\ event' = None /\ budget' = budget
     \/ lookups' = lookups /\ event' = Fail /\ Fault("request")
  /\ UNCHANGED <<sock, nextSock, sockets, mqtt, wifi, pings, broker>>

TlsConnect ==
  /\ state' = "TLS_CONNECT" /\ sock' = FreeSocket /\ broker' = "none"
  /\ \/ /\ sock' = NoSocket /\ event' = Fail
        /\ UNCHANGED <<sockets, nextSock, budget>>
     \/ /\ sock' # NoSocket /\ nextSock' = (sock' + 1) % Slots
        /\ \/ /\ event' = None /\ budget' = budget
              /\ sockets' = [sockets EXCEPT ![sock'] =
                               Socket(IF endpoint THEN "connecting" ELSE "nowhere")]
           \/ /\ event' = Fail /\ Fault("request")
              /\ sockets' = [sockets EXCEPT ![sock'] = Socket("open")]
  /\ UNCHANGED <<endpoint, mqtt, network>>

MqttConnectNoWait ==
  /\ state' = "MQTT" /\ mqtt' = "CONNECTING" /\ event' = Success
  /\ sockets' = Send(sock, 1) /\ budget' = budget
  /\ broker' = IF Connected(sock) THEN "connect" ELSE broker
  /\ UNCHANGED <<endpoint, sock, nextSock, network>>

(* initUmqtt and MQTT_CLIENT_connect: the CONNECT packet, with clean session. *)
MqttConnect ==
  /\ state' = "MQTT" /\ mqtt' = "CONNECTING" /\ event' = None
  /\ \/ /\ sockets' = Send(sock, 1) /\ budget' = budget
        /\ broker' = IF Connected(sock) THEN "connect" ELSE broker
     \/ Fault("mute") /\ UNCHANGED <<sockets, broker>>
  /\ UNCHANGED <<endpoint, sock, nextSock, network>>

StartSending ==
  /\ state' = "SENDING" /\ event' = None
  /\ UNCHANGED <<driver, mqtt, network, broker, budget>>

Handler(from) ==
  \/ from = "INIT" /\ WifiConnect
  \/ from = "WIFI_CONNECT" /\ WaitForInternet
  \/ from = "WAIT_FOR_INTERNET" /\ RequestDns
  \/ from = "DNS_REQUEST" /\ TlsConnect
  \/ from = "TLS_CONNECT" /\ MqttConnect
  \/ from \in {"MQTT", "SENDING"} /\ StartSending

ErrorHandlerSameForSending(from) ==
  CASE from = "WAIT_FOR_INTERNET" -> "WIFI_CONNECT"
    [] from = "DNS_REQUEST" -> "WAIT_FOR_INTERNET"
    [] from \in {"TLS_CONNECT", "MQTT", "SENDING"} -> "DNS_REQUEST"
    [] OTHER -> "INIT"

(* errorHandler: the state whose handler is to run after a failure. *)
ErrorHandler(from) ==
  CASE from = "WAIT_FOR_INTERNET" -> "WIFI_CONNECT"
    [] from = "DNS_REQUEST" -> "WAIT_FOR_INTERNET"
    [] from \in {"TLS_CONNECT", "MQTT"} -> "DNS_REQUEST"
    [] OTHER -> "INIT"

(* LED_userHandler: the first ping that fails starts toggle_led. *)
LedTasks ==
  IF event = Fail /\ state = "WAIT_FOR_INTERNET" /\ online
    THEN Create(tasks, "toggle_led") ELSE tasks

(* The rest of CLOUD_runTask. *)
NoEvent ==
  /\ phase = "act" /\ event = None /\ phase' = "poll"
  /\ UNCHANGED <<state, event, driver, client, timers, network, broker, budget>>

TakeEvent ==
  LET from == IF event = Fail THEN ErrorHandler(state) ELSE state
      stopped == IF event = Fail /\ state = "SENDING"
                   THEN Delete(LedTasks, "send_task") ELSE LedTasks
  IN
  /\ phase = "act" /\ event # None /\ phase' = "poll"
  /\ online' = IF state = "WAIT_FOR_INTERNET" THEN event = Success ELSE online
  /\ tasks' = IF from \in {"MQTT", "SENDING"} THEN Create(stopped, "send_task") ELSE stopped
  /\ Handler(from)
  /\ UNCHANGED <<subInit, wdt>>

-----------------------------------------------------------------------------
Answer ==
  \/ PingReply \/ DnsReply \/ ReceivePacket \/ (wifi = "joining" /\ GetAddress)
  \/ \E s \in SocketIds : ConnectReply(s) \/ ReceiveError(s)

Sent == \E s \in SocketIds : SendReply(s)

Loop == NoCallback \/ ToggleLed \/ PublishADC \/ NoEvent \/ TakeEvent

Next ==
  \/ Answer \/ Sent \/ Loop \/ LoseWifi \/ (wifi = "up" /\ GetAddress)
  \/ \E s \in SocketIds : PeerCloses(s)
  \/ \E t \in tasks.waiting : Expire(t)

Spec == Init /\ [][Next]_vars

(* The superloop runs on; while the chip owes answers it goes on delivering some,
   and likewise its reports of what it sent; the interrupt serves the timers.
   Nothing obliges a failure to happen, or a particular answer to be next. *)
FairSpec ==
  /\ Spec /\ WF_vars(Loop) /\ SF_vars(Answer) /\ SF_vars(Sent)
  /\ \A t \in {"send_task", "toggle_led"} : SF_vars(Expire(t))

-----------------------------------------------------------------------------
Links == {"free", "stale", "open", "connecting", "nowhere", "connected", "dead"}
SocketRecord == [link : Links, sends : 0 .. MaxSends, recv : BOOLEAN]
Timers == {"send_task", "toggle_led"}

Values ==
  /\ state \in States /\ event \in {None, Success, Fail} /\ phase \in {"poll", "act"}
  /\ endpoint \in BOOLEAN /\ sock \in SocketIds \cup {NoSocket} /\ nextSock \in SocketIds
  /\ sockets \in [SocketIds -> SocketRecord]
  /\ mqtt \in {"INIT", "CONNECTING", "CONNECTED", "FAILED"} /\ subInit \in BOOLEAN
  /\ online \in BOOLEAN /\ wdt \in 0 .. ResetAfter
  /\ wifi \in {"down", "joining", "up"} /\ pings \in Nat /\ lookups \in Nat
  /\ broker \in {"none", "connect", "session", "published", "subscribed"}
  /\ budget \in 0 .. Budget

(* The values of the variables; a timer is linked in one place only, and the chip
   never owes more SEND replies for a socket than the guard of Expire foresees. *)
TypeOK ==
  /\ Values
  /\ tasks.waiting \subseteq Timers
  /\ IsInjective(tasks.ready)
  /\ ToSet(tasks.ready) \subseteq Timers \ tasks.waiting

(* The publishing timer runs, or waits for its callback, in the state SENDING and in
   no other (cloud.c:168, 198): every way into SENDING starts it, every way out stops
   it even when it has just expired, and no other call or callback loses it.  This
   holds for every failure, and for events that overtake each other. *)
SendTaskIffSending ==
  state = "SENDING" <=> "send_task" \in tasks.waiting \cup ToSet(tasks.ready)

(* Unless a failure is about to be handled, a firmware that publishes over a live
   connection has had its CONNECT accepted on that same connection (cloud.c:61):
   the events that led it here are not left from an earlier connection. *)
SendingInSession ==
  state = "SENDING" /\ Connected(sock) /\ event # Fail
    => broker \in {"session", "published", "subscribed"}

(* The firmware connects again only after its previous socket is closed, so that the
   few sockets of the chip last (network.c:50): no socket but tcpClientSocket is in
   use, except those whose connect request the chip refused, which nobody closes
   (cloud.c:150). *)
OnlyOneSocket == \A s \in SocketIds \ {sock} : IsUsed(s) => sockets[s].link = "open"

(* The callback for the delta topic (main.c:37) receives what is published there: in
   no session does the firmware publish its own state without having subscribed. *)
StaysSubscribed == broker # "published"

(* LED_toggle resets the board, some time after a ping failed (led.c:62). *)
LedResets == wdt >= ResetAfter /\ tasks.ready # <<>> /\ Head(tasks.ready) = "toggle_led"

Publishing == state = "SENDING" /\ Connected(sock) /\ event # Fail

(* A firmware that publishes over a live connection goes on with it until something
   fails again, or LED_toggle resets the board: no answer, report or timer left over
   from an earlier attempt makes it give up what works (cloud.c:242, network.c:76). *)
KeepsPublishing == [][Publishing => Publishing' \/ budget' < budget \/ LedResets]_vars

(* After finitely many failures of kinds that are reported, the firmware ends up
   publishing over an accepted connection for good, some of them by a reset of the
   board (cloud.c:176, led.c:62). *)
Recovers == <>[](state = "SENDING" /\ Connected(sock) /\ mqtt = "CONNECTED")
=============================================================================
