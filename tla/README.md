# Verification of the AVR-IoT firmware and its mesh gateway

TLA+ specifications of the programs in this repository, checked with TLC and proved
about with TLAPS. The repository holds the material of a workshop: the firmware of an
AVR-IoT board that reports its sensors to AWS and lets Alexa switch its LED
(`alexa/Lab2/avr.iot-aws-demo`), and a street-light demo made of a gateway between an
MQTT broker and a serial mesh radio (`gateway/gateway.py`) and a web page
(`dashboard/dashboard.html`). Paths below are relative to
`src/alexa/Lab2/avr.iot-aws-demo` unless they say otherwise.

## 1. The system

The firmware is a superloop (`main.c`): each turn lets the Wi-Fi chip's driver deliver
what the chip has reported, runs the callback of one expired timer, and lets the cloud
state machine act on the last event reported. Interrupts (real-time counter, the chip's
interrupt line, I2C, serial port) run between any two instructions of the loop.

| Component | State | Operations | Talks to | What is hard, and what makes it correct |
|---|---|---|---|---|
| Timeout scheduler, `src/timeout.c` | list of running timers sorted by absolute time, queue of expired timers, time of the last timeout, counter load, RTC counter, overflow flag and mask | init, create, delete, call next callback, overflow interrupt | every client with a timer: `cloud.c`, `led.c` | Interrupt between the steps of a call; counter that overflows while masked; timeouts beyond the counter's 16 bits; wrap of absolute time. Lists stay sound, the first timer is always armed, no timer is early, lost or run twice, each expires. |
| Cloud state machine, `cloud/cloud.c` | `current_state`, `occured_event`, the timer `send_task` | one handler per state, error handler, run task, receive event | network callbacks, timers, sockets, MQTT, LED observer | One event slot for every callback; failures in every state; late answers. Publishes only when connected, gives sockets back, finds its way back after a failure. |
| Network callbacks, `cloud/network.c` | `tcpClientSocket`, `endpoint_ip` | Wi-Fi, ping, DNS, socket, TLS callbacks | cloud state machine, MQTT client | The order of callbacks is the chip's. |
| MQTT client, `mqtt_client/`, `umqtt/` | connection state, byte rings, unacknowledged counts | connect, subscribe, publish, packet arrived | sockets, application | Rings at their limit, packets split over receptions, lengths cut to 8 bits, session lost and re-established. |
| Application, `main.c`, `led.c`, `sensors_handling.c` | `sub_init`, `IO_status`, `isInternetConnection`, `wdt_connect`, the timer `toggle_led` | publish, message received, toggle, LED observer | MQTT, timers | Reset of the board by a counter of toggles. |
| WINC socket layer, `winc/socket/source/socket.c` | table of sockets: in use, session, receive pending | socket, connect, send, recv, close, ping, DNS, and their replies | host interface, network callbacks | Replies to a socket that was closed or reused; sockets that leak; data in chunks. |
| WINC host interface, `winc/driver/source/m2m_hif.c` | interrupt count, receive buffer and its "done" flag, sleep count | send, receive, handle interrupt, wake, sleep | the chip over SPI, all of the WINC front ends | Interrupt count shared with the handler; the buffer released exactly once; DMA buffers granted late; accesses that fail or get lost. |
| TLS requests, `m2m_ssl.c`, `cloud/crypto_client.c`, `cloud/ecc_functions_tls.c` | cursor into the chip's buffer | ECC request, retrieve certificate and hash, done | host interface, secure element | A step that fails leaves the cursor where later steps still read. |
| SPI flash of the chip, `winc/spi_flash` | contents, write enable | read, write, erase | chip | Splitting at page and sector boundaries. Not modelled. |
| I2C master, `src/i2c_master.c`, `src/i2c_simple_master.c` | transfer state, busy flag, buffer, callbacks | open, close, transfer, interrupt | secure element, temperature sensor | The interrupt drives the transfer while the caller polls; the buffer is on the caller's stack; no error reaches the caller. |
| Secure element driver, `cryptoauthlib/lib/basic`, `hal/hal_atmega4809_i2c.c` | response packet | wake, send, receive, idle | I2C master | An older answer must not pass for the one to this command. |
| Serial port, `src/usart_basic.c` | transmit ring | write, data-register-empty interrupt | `printf` | Ring and count shared with the interrupt, which disables itself. |
| ADC, SPI and start-up drivers | registers | init, conversions | sensors | Configuration only. Not modelled. |
| Gateway, `src/gateway/gateway.py` | `lastUID`, `uid`, two MQTT clients, the serial port | message received, serial line received | broker, mesh | Two threads share `lastUID`; an error is attributed to the last command. |
| Dashboard, `src/dashboard/dashboard.html` | icon of each lamp, connection | click, message arrived, connection lost | broker, gateway | Icons changed before the lamp confirms. |
| Provisioning scripts, Alexa skills, rest of CryptoAuthLib | - | - | - | Vendor tools and library; not modelled. |

`PROJECT.json` lists, under `hazards`, what in this code is hard to test, at its line,
with the properties that would catch it.

## 2. Plan

In this order, the most important behaviour first.

1. `TimeoutScheduler`, refining `TimerService`; proofs in `TimeoutSchedulerProofs`. **Done.**
2. `CloudConnection`: superloop, state machine, callbacks, MQTT session, socket slots. **Done.**
3. `HostInterface`: interrupts, messages, buffers of `m2m_hif.c`, the callbacks of the
   socket layer and of the TLS requests; proofs in `HostInterfaceProofs`. **Done.**
4. `SerialPort`, refining `CharFifo`; `I2cMaster`; and `Peripherals`, which composes them
   with the secure element and the superloop's use of both; proofs of all three in
   `PeripheralsProofs`. **Done.**
5. `MeshGateway`: dashboards, gateway threads, mesh; proofs in `MeshGatewayProofs`. **Done.**
6. `MqttStream`: receive requests, chunks, ring and framing; proofs in `MqttStreamProofs`.
   **Done.**
7. Theorems about `CloudConnection`, in `CloudConnectionProofs`: `SendTaskIffSending` and the
   types for every kind of failure, `SendingInSession` and `OnlyOneSocket` for the kinds
   under which they hold. **Done.**
8. Theorem that `TimeoutScheduler` implements `TimerService`: `TimeoutSchedulerRefinement`.
   **Done.**
9. Every safety property of a passing run is the subject of a theorem. Left: the session
   numbers of `socket.c` composed with `CloudConnection` (a reply that reaches a slot used
   again); page splitting in `winc/spi_flash`.

## 3. What is modelled

### TimeoutScheduler, TimerService

`active` and `queue` are the two linked lists as sequences; `last`, `load`, `running` the
driver's variables; `cnt`, `ovf`, `ie` the counter, its overflow flag and the interrupt
mask. The main loop is cut where an overflow interrupt, or an edge of the counter, makes a
difference to what follows: `BeginDelete` or `BeginCreate`, `CheckEmpty` (the test before
the mask), `Mask`, `UnlinkActive` or `UnlinkQueued` (the rest of `delete_helper`, on either
list), `MaskInsert` and `Insert` (create after its delete: the mask, and everything behind
it). `BeginDispatch`, `Dispatch` and `CallbackReturns` are
`scheduler_timeout_call_next_callback`, cut between the reading of the mask (`tempIE`) and
the masking: an interrupt there may expire the last timer, after which dispatch unmasks the
overflow with an empty list. `call` says where the main loop is. `Expire` is the interrupt
handler with a timer at the head, `ExpireNothing` the handler with an empty list, after
which nothing is modelled (`fault`). `Tick` is one edge of the counter. An edge may fall
between create's mask and its reading of the counter, so that make_absolute meets an
overflow that is flagged and not served (`src/timeout.c:116`); between that reading and the
end of create none does. Inside delete's masked section one may fall when `TickInUnlink` is
TRUE. The handler is atomic and no edge falls between an overflow that is not masked and
its handler: `src/timeout.c:347` makes that assumption of the callbacks. `due` is a history
variable, the edges still owed to each request.

`TimerService` is what clients rely on: a timer waits, expires no earlier than its edges
are over, is queued behind those that expired before, is dispatched once or cancelled.
`ImplementsService` maps `waiting` to the timers in `active` other than the dummy, and
`ready` to `queue`.

### CloudConnection

A turn of the superloop has two phases. In `"poll"` the chip delivers any number of
replies (`GetAddress`, `LoseWifi`, `PingReply`, `DnsReply`, `ConnectReply`, `SendReply`,
`ReceivePacket`, `ReceiveError`) and then at most one timer callback runs
(`PublishADC`, `ToggleLed`, or `NoCallback`); in `"act"` the machine takes the event
(`TakeEvent`, `NoEvent`). `TakeEvent` is all of `CLOUD_runTask` after the test: the LED
observer (`LedTasks`), the error handler (`ErrorHandler`) and the handler of the state
(`Handler` and one operator per handler function). `sockets` is the slot table with what
the chip makes of each socket: `"open"` (created, its connect request refused),
`"connecting"`, `"nowhere"` (connecting to address 0), `"connected"`, `"dead"` (ended by
the peer, not yet noticed), `"stale"` (closed while a reply to its connect is still to
come) and `"free"`. `broker` is how far the broker is with our connection: it has a
CONNECT to answer, a session, a session in which something was published without a
subscription, or a subscription. The timers are `TimerService` without their durations.

Failures are external and counted by `budget`. `Faults` selects their kinds: a request
the chip refuses (`request`), a failure reported as the answer (`answer`), one the
firmware is not told of or does not look at (`mute`), a failed join (`join`), a lost
access point (`drop`, in the states `DropStates`), a renewed lease (`renew`), the server
ending the connection (`peer`), a refused CONNECT (`refuse`).

After a failure in SENDING the machine calls `m2m_wifi_connect` although the access point
may still be there; the chip then joins afresh (`wifi` goes to `"joining"`), which can fail
like any join.

Left out: topics and payloads, LED colours, sensor values, the TLS handshake's ECC
requests (`HostInterface` has them), the bytes of the stream (`MqttStream` has them), UDP
and server sockets, replies that reach a
slot after it was used again, a failing `CLOUD_startApp`, integer time.

### HostInterface

One action is one access of the superloop to the chip, since the chip and the interrupt
act between two of them; `pc` names the next. The chip (`Post`) puts a message in its only
receive buffer, which it `held`s until RX done, and pulls the line (`irq`); `edge` is the
flagged pin interrupt and `Isr` its handler, which counts. `LoadCount` and `StoreCount`
are the two halves of the decrement in `hif_handle_isr`, `ReadInterrupt`, `ClearInterrupt`
and `Fetch` are `hif_isr` up to the callback, `AckRead` and `AckWrite`
`hif_set_rx_done`. What a callback does with its message is its `Plan`: the blocks it
reads (`ReadBlock` is `hif_receive`), the check of a signature, giving up (`Stop`), and
the response it sends. The kinds are the callbacks the firmware registers: one header
(`reply`), received data in two chunks with the application free to close the socket in
between (`data`), and the three ECC requests (`verify`, `sign`, `ecdh`), with the ways
out that `m2m_ssl.c` and `ecc_functions_tls.c` take when a step fails. A `padded` message
is up to four bytes longer than what its callback reads. The range check of `hif_receive`
never fails for these plans and is left out. `SendRequest`, `Poll`, `Fill` and `Submit`
are `hif_send`: the chip's `Grant` of a DMA buffer may come after the host has given up.

The SPI layer appears as its results: a read or a block is tried ten times and then
reported (`busErrors`), the write of a register ends the same way whether or not it
reached the chip (`lost`). The power mode is `M2M_NO_PS`, the one the firmware sets, so
the chip is never asleep; `u8ChipSleep` is kept all the same.

`Disturbed` is what the code does not recover from: a failed access, a lost write, or RX
done given twice (`doubled`: by a plan that gives its message back by its last byte and
once more when it gives up). After a lost RX done the chip never posts again; after a
lost write of the interrupt register or a failed block, `hif_handle_isr` repeats
`hif_isr`. The properties about messages exclude these cases and `BuffersAccounted`
counts them. The chip is assumed to post well-formed messages: the returns of `hif_isr` for
a size that does not match its header and for a group nobody has (`m2m_hif.c:504`, `:515`)
are left out. No plan both reads plain data and sends: that a callback sends before its
message is given back is covered by the plan `ecdh`.

### SerialPort, CharFifo

The transmit ring of `usart_basic.c`: `Write` and the steps `WriteStep` are
`USART_0_write` from the wait for a free cell to enabling the interrupt, with the
critical section in which the count is loaded and stored; `DreIsr` the
data-register-empty interrupt, `Shift` the shift register. `CharFifo` is what `printf`
relies on, a bounded queue: `ImplementsFifo` maps its contents to the cells that are
filled, counted or not, and the data register. The receive half is left out: its
interrupt is never enabled and nothing reads.

### I2cMaster, Peripherals

`m` is `I2C_0_status` together with the registers and what the wire carries. Each state
of the driver is an operator from status to status (`Tx`, `TxEmpty`, `Rx`, `AddressNack`,
...); `TwiIsr` is the interrupt handler, `Call` and the steps of `CallStep` one call of
`i2c_simple_master.c` from `I2C_0_open` to the `I2C_0_close` that ends it. The state is
stored before the address phase, 90 us long, has ended, which is why no interrupt falls
between the two. Lengths are cut to the fewest bytes that tell a first byte, a byte in
between and a last one apart.

`Peripherals` has the superloop call `publishADC` (a temperature, then a line) and
`atca_execute_command` (`wake`, `verify`, `send`, `delay`, `receive`, `check`, `idle`),
which after `send` waits the longest execution time of the command (`ATCA_NO_POLL` is
configured, `.atmelstart/AtmelStart.env_conf:13`), so that `Delay` ends only when the element
has executed,
with the secure element asleep, awake or busy, and with arbitration losses, bus errors, a
wire that dies, and devices that refuse. What a buffer holds is a number: zeros, the
answer to a command, the answer to the wake token, or something else; a read that fails
leaves it as it was. A response packet that stayed zero is checked with a CRC over 254
bytes that reach past the packet, so that either verdict is possible; so is it for any other
answer, which may be an error of the element (`isATCAError`). After a fault of the bus the
received-acknowledge bit is either value. A fault that the interrupt handler clears unseen
at the last byte of a read counts as the byte received; the answer that is then wrong in the
code, and refused by its checksum, is here one that was refused as an error.

`AcceptedIsOwn` is stated for up to two disturbances. With three, the answer to an older
command can be accepted: the idle word is refused, so that the element keeps its answer; in
the next command the read that verifies the wake is refused, and the buffer on the stack
still holds the answer to an earlier wake; and the send is lost to a bus error. `JobsEnd`
leaves out `Unanswered`: a dead wire, and a transfer that polls an element which is asleep
and has taken no byte of it (`i2c_simple_master.c:64` has no limit).

### MeshGateway

`OnePoste`, `AllPoste`, `OnMessageArrived`, `ConnectionLost` and `Connect` are the
functions of the page; a page whose connection attempt fails is dead. `OnMessage` and
`SerialWrite` are the thread `sub_loop`, `ReadData`, `ReadError` and `Forget` the thread
`pub_loop`, cut where the other thread may touch `lastUID`; an error read before any
report ends the thread, because `uid` is not bound, and so does a line that is not text or
whose four fields are not all numbers (`ReadGarbled`, `gateway.py:60`, `:73`). `out` and `in`
are the serial line.
The mesh executes a command, reports it as an error or loses it, and lamps report again
and again. History variables: `overlap` (a command was taken while the outcome of an
earlier one was open), `wrong` (an error was blamed on another lamp), `commanded` and
`blamed`.

Left out: a line with another number of fields and a message without both keys, which change
nothing; a message that is not JSON, which no dashboard sends and which raises in
`on_message` (`gateway.py:27`); a first connect that fails and ends its thread (`:42`, `:49`).
`Reconnect` brings both clients of the gateway back in one step. `MaxInFlight` is a bound of
the model: the gateway does not wait for the browsers. The run has one dashboard, so that no
other page's command turns its icons; the theorems are for any number of them.

### MqttStream

The byte stream of the broker on its way to `umqtt_received_cb`: `Recv` and `Reply` are a
receive request and its answer, `Receive` a chunk with `umqtt_circ_push`, and
`ProcessPacket` a turn of the loop in `umqtt_process`, over a ring that wraps
(`CircPush`, `CircPop`, `DecodeLength`, `EncodeLength`). `ReceiveFails` is a failed
`hif_receive` inside a reply, whose rest is dropped. `ReceiveError` and `Connect` end
and begin a session. `broken` records that a reply did not end with a packet, was longer
than the ring, or was lost, or that the rest of the stream was: the code does not reassemble
packets, and what happens then is modelled (unread bytes of the stack as any bytes, a
length of three digits as undefined) but nothing is promised.

`Connect` is both `socket()` and `umqtt_connect`; between them, while the new socket connects,
the chip has nothing to give for it. `Recv` may be called whenever the superloop is free,
while the code calls it after the report of a send: the safety properties hold for more
behaviours than the code has, and `EveryMessageHandled` supposes that the firmware goes on
sending. A failed read of the header of a reply (`socket.c:288`) is not modelled.

## 4. The runs

| Run | Instance | Shows |
|---|---|---|
| `timer_safety` | 2 timers, counter 0..3, time modulo 16, timeouts 0, 1, 5 (2.5 million states) | `TypeOK`, `LinkedOnce`, `HeadArmed`, `ImplementsService` |
| `timer_liveness` | counter 0..1, timeouts 1, 3, fairness (0.1 million) | `SortedByTime`, `QuietExpiry` |
| `timer_null_head` | 1 timer | violation of `ExpiredIsAtHead`: overflow with an empty list right after power-up |
| `timer_early` | 2 timers, edges inside the masked section | violation of `NeverEarly`: an overflow flagged in delete expires the successor |
| `timer_late` | 2 timers, timeouts 0, 2 | violation of `NewHeadOnTime`: a new head waits for the elapsed ticks as well |
| `cloud_safety` | 2 sockets, 2 failures of any kind in any state (0.2 million) | `TypeOK`, `SendTaskIffSending` |
| `cloud_recovery` | 4 sockets, 3 failures of the reported kinds, fairness (9 thousand) | `SendingInSession`, `OnlyOneSocket`, `KeepsPublishing`, `Recovers` |
| `cloud_lost_subscription` | the server ends the connection once | violation of `StaysSubscribed` |
| `host_interface` | 3 messages of any kind, 2 sends, 1 access failed or lost, 1 wait given up, fairness (1.3 million) | `TypeOK`, `InOrder`, `NoWakeupLost`, `ReadsHeld`, `BuffersAccounted`, `EveryMessageReleased` |
| `peripherals` | ring of 2, a line of 4 characters, 1 temperature, 2 commands, 2 faults, 1 refusal, fairness (1.1 million) | `TypeOK`, `CountAgrees`, `NoneStranded`, `ImplementsFifo`, `QuietOutsideCalls`, `WritesOwnBytes`, `TransferComplete`, `AcceptedIsOwn`, `JobsEnd` |
| `mesh_gateway` | 1 dashboard, 2 lamps, 2 commands, 1 connection lost or line garbled, fairness (1.1 million) | `TypeOK`, `AloneIsBlamed`, `BlamedOnce`, `IconsAgree` |
| `mqtt_stream` | sizes in the order of the code's (digit 4, ring 11, length 13, buffer 15, replies up to 16), 2 messages, 2 sessions, 1 failed request or read, fairness (0.1 million) | `TypeOK`, `HandledInOrder`, `FramingSound`, `ConnectedIsAccepted`, `EveryMessageHandled` |

**Bounds.** `RtcMax` and `Word` keep the proportion of the code, (RtcMax + 1)^2 = Word, and
the timeouts include one beyond the counter, so the dummy, the wrap of absolute time and
the rebase all happen. `Horizon` stops creation of timers when `last` has passed it; in
`timer_safety` it equals `Word` and never stops anything, in `timer_liveness` it keeps
absolute times from wrapping, because near the wrap the correction of a new timer's time
(`src/timeout.c:159`) uses the counter's width and not the word's and the order of the
list is not kept. Two timers give every relation of a new timer to the one that runs.
`Slots` is smaller than the number of failures in `cloud_safety`, so that the table
runs out, and larger in `cloud_recovery`, since with no socket left the firmware never
recovers. `ResetAfter` is 1 instead of 100: it counts seconds. `MaxSends` bounds the send
reports the chip can owe when the next publish comes ten seconds later.

`MaxMessages` = 3 lets a message be posted under the callback of the one before, with its
interrupt flagged while another is counted. Two sends are one that is given up and one that
meets the late grant. A ring of 2 with a line of 4 characters fills and wraps. Two commands
are the fewest with an older answer; the two faults and the refusal are the disturbances
under which `AcceptedIsOwn` is stated. Two commands and two lamps are the fewest that can be
confused, a loss is a lost connection of the page or of either client. In `mqtt_stream` the
order of the sizes is the code's (128 < 250 < 256 < 500), a message of one and one of two
length digits exist, the ring wraps, and a reply can be longer than each limit.

**Fairness.** Timers: the counter never stops (strong fairness because the steps of the
main loop disable it in between), the interrupt is served, a call that has begun ends and
the superloop goes on dispatching; nothing obliges a client to call. Cloud: the superloop
goes on; while the chip owes answers it goes on delivering some of them, and likewise its
send reports; every timer is served. No failure is ever obliged to happen, and no
particular answer to be next. `Recovers` therefore says that the firmware, not luck, leads
back; it leaves out the failures from which the code does not recover: those it is not
told of (`mute`, `refuse`), a lost access point in DNS_REQUEST, TLS_CONNECT or MQTT, and
as many refused connect requests as there are sockets. A renewed lease is left out of
`cloud_recovery` because its SUCCESS is taken for the answer the machine is waiting for;
section 5 says which failures the theorems about its two invariants exclude, which are fewer.

The superloop, the interrupts and the chip's answers are weakly fair in the runs added
later, since nothing disables them for good; messages of the chip, sends, calls, clicks,
losses and faults are never obliged to happen. Lamps report again and again, which
`IconsAgree` needs and the mesh's firmware does. The wire goes on with a transfer unless it
is dead.

**Deadlock** is checked in the runs of `TimeoutScheduler` and `CloudConnection`. The other
four count what the environment does (messages, commands, calls, faults), so that the
system rightly stops when the counters are used up, or when a wire, a thread or a session
is dead.

**Sensitivity.** For every property of a passing run `PROJECT.json` names a defect
(`mutants`) that a plausible slip in the code would introduce, and with which the same run
finds the property violated. The defective definitions stand before the ones they replace
in the modules and are named after the slip: `LoadForOffByOne`, `DeleteRunning`, ...

## 5. What is proved

`TimeoutSchedulerProofs` proves, for every set of timers and timeouts, every counter range
and word size that satisfy `RtcAssumption` and `ClientAssumption`, and with or without
edges inside delete's masked section:

- `Invariance`: Spec => []IInv, where IInv is TypeOK, LinkedOnce, HeadArmed, SearchOrder and
  DispatchOrder;
- `TypeCorrect`, `NeverLinkedTwice`, `HeadAlwaysArmed`: the three invariants of `timer_safety`.

`LinkedOnce` is not inductive: while a delete searches, the interrupt may move a timer
from the active list to the queue, and create would then insert a timer that is still
queued. `SearchOrder` adds what the search knows: when it has passed the active list, the
timer is not in it. The interrupt moves timers only from the active list to the queue, so
a timer that is not in the first when the second is searched cannot escape. `HeadArmed` is
not inductive either, since dispatch restores a mask it has read earlier: `DispatchOrder` says
that the interrupt was unmasked then if a timer runs now. `HeadArmed` also needs `TypeOK` for the arithmetic modulo the word, and `LinkedOnce` for the dummy, which is
only ever at the head. The proof has one lemma per action and lemmas about removing,
inserting and re-basing list entries; `StartArms` says what starting the countdown
establishes and is used by every action that ends with it.

`SequenceFacts` has the lemmas that several modules use: what cutting, joining, removing from
and inserting into a sequence yields, remainders, and that a non-empty set of numbers has a
smallest member.

`TimeoutSchedulerRefinement` proves `ImplementsTimerService`, Spec => ImplementsService, and
`AlwaysSorted`, Spec => []SortedByTime, from the same assumptions and `FarFromWrap`: no
timeout is longer than some `longest`, Horizon + 2 * (RtcMax + longest) < Word, and no edge
falls in the masked section. With the code's 2^32, 2^16 and 1024 edges
per second that covers, for example, timers of up to twelve days created until `last` has
reached 24 days since the list was last empty. What happens at the wrap is left to
`timer_safety`, where the service still holds although the order of the list is lost.
The invariant `TimeInv` adds to IInv:

- `Ascending`, `NoneBefore`: the list is sorted and nothing in it is before `last`;
- `Owed`: with `Elapsed` the time since `last` that the counter shows (an overflow not yet
  served included), every timer in the list has at least as many edges before it as are
  still owed to its request, so that starting the countdown afresh only adds to what is left;
- `HeadDue`: once the overflow is flagged the head is owed none, also when the flag is still
  to be served after create's masked section. The counter then stands behind its reload, which
  is why `Elapsed`, like make_absolute, takes the whole period in its place;
- `Unflagged`: in delete's masked section no overflow is flagged, since one that was flagged
  before it is served first;
- `Stopped`: with an empty list `last` is 0 and the counter is not read;
- `Bounded`: the absolute times stay below the wrap. A create that began while `last` was
  below `Horizon` may end after an interrupt has moved it past, but at most one does until
  the list is empty and time starts at zero again, which is its second disjunct.

There is one lemma per action; those that restart the countdown share `StartKeepsOrder`
and `StartKeepsTime`, and `InsertTime` shows that create computes a time that does not wrap
and is as far away as was asked for.

`ExpiresOnlyWhenDue`, Spec => NeverEarly, follows from the refinement under the same
assumptions: the violation that `timer_early` finds needs an edge in delete's masked section, and
far from the wrap nothing else makes a timer early.

`CloudConnectionProofs` (from `CloudAssumption`, for any number of sockets and failures):

- `SendTaskOnlyInSending`, Spec => []SendTaskIffSending, for every kind of failure. Its
  invariant `TaskInv` adds that no timer is linked twice: otherwise deleting one occurrence
  of `send_task` would leave another. Every action either leaves the timers and the state
  alone, moves a timer from waiting to ready, or changes both in one of the handlers.
- `CloudTypes`, Spec => []TypeOK, for every kind of failure. Only the bound on the send
  reports the chip owes is not a matter of types: `SendsFit` says that when the publishing
  timer is ready there is room for two more, and that a socket being connected has none.
- `PublishesInSession`, Spec => []SendingInSession, if no lease is renewed. A renewal is
  reported as a success to whatever state the machine is in, so that the machine goes on to
  publish before the answer it waited for: the property is false then.
- `SocketsDoNotLeak`, Spec => []OnlyOneSocket, if moreover the access point is not lost in
  TLS_CONNECT: the answer to the connect that was under way then closes the socket of the
  next attempt in place of its own.
- `PublishingEndsByFailure`, Spec => KeepsPublishing, if no lease is renewed: firmware that
  publishes over a live connection goes on until something fails again or the watchdog in
  LED_toggle resets the board. This is the half of `Recovers` that does not need fairness:
  what the recovery has reached it does not give up by itself. In SENDING nothing of an
  earlier attempt can still arrive (`PublishingAlone`), so the only answer left is a packet.
- `ClientIsConnected`, under the same condition: in SENDING the MQTT client is connected.
  The client changes its state in its own calls, which the machine makes in other states.

The last four rest on `SessionInv`, which says for each state of the machine, with the event
it holds, what the rest of the system can be in. `WifiAgrees` is about the access point.
`Orderly` has four parts: answers are owed only to the state that asked for them
(`AnswersOwed`), sockets other than the firmware's own are free or were refused
(`OthersAtRest`), its own is as far as the state says (`OwnSocket`) and so is the broker
(`BrokerKnows`). The four are needed together: that a success in MQTT means an accepted
CONNECT holds only because no answer of an earlier state or of an earlier socket can still
come. `Astray` is the exception, a drop in TLS_CONNECT, after which attempts
follow each other in that state, without the Wi-Fi and never with success.

`PeripheralsProofs`, first of the serial port alone (from `SizeAssumption`):
`RingInvariance`, `CountsAgree`, `NoCharacterStranded` and `RingIsFifo`, the refinement of
`CharFifo`. The invariant adds to the properties that the count loaded in the critical section
is still the count, that the cells between tail and head are the counted ones and the one
being stored, and when the interrupt may be enabled; the queue of `CharFifo` is then the
sequence of these cells, which the write extends at the head and the interrupt shortens at the
tail. `ProgramDrivesPort` shows that the steps of the whole program are steps of the port, so
that these results hold of it (`ProgramPrintsFifo`).

The rest is about the program, from `PeripheralBounds`, for any numbers of lines, commands,
faults and refusals:

- `Invariance`: the conjunction of the port's invariant, `DriverInv`, `JobInv` (what is left
  of a job is a suffix of a line or of a command, and the characters printed are those of
  whole lines), `CallOwned` (a call belongs to the step of the job) and `Commanded`.
- `DriverInv` contains `I2cInv`, one line for each phase of a call. Between the start and the
  end of a transfer the driver is `Active`: its state agrees with what the wire carries
  (`OnWire`) or with the interrupt that is due (`Flagged`), and with whose bytes it counts:
  `Writing`, `Reading`, or `Misled`, which is the code's own slip after a refused repeated
  start. Otherwise the transfer is `Over` or the wire `Dead`.
- `DriverQuiet`, `OwnBytesWritten`, `TransfersComplete` and `PeripheralTypes` follow from it.
- `AcceptedAnswerIsOwn`: `OldInv` counts what each stage on the way to a wrong answer costs.
  An answer that outlives its command takes one disturbance, of the idle word; passing the
  next wake in spite of it takes a second; and that the new command does not replace it a
  third. `Smooth` says that nothing has gone wrong in the call under way, so that a
  disturbance is counted once, when it happens, and `PacketInv` what the packet can then hold.
- `CloseNeverStuck` and `TransferEnds`: while I2C_0_close is polled and the driver is busy, a
  byte is on the wire or an enabled interrupt is flagged, or a fault was hidden from the
  handler (`Dead`); and `Moves`, the bytes and interrupts still to come, falls with each of
  them. The one exception is an address refused while polling, which is sent again without a
  limit. These are the two ways a call hangs that `JobsEnd` excepts as `Unanswered`, and there
  is no third.

`HostInterfaceProofs` (from `BoundsAssumption`, for any numbers of messages, sends, failures
and timeouts): `BuffersAreAccounted` from `DmaInv`, which says who holds each DMA buffer;
`HifInvariance`, `TypeCorrect`, `NoInterruptLost`, `DeliveredInOrder` and `ReadsOnlyHeld`
from `WorkInv` and `HandInv`. `WorkInv` lists what the callbacks can have left to do and says
that until the message is given back the blocks still to read cover the reads among it.
`HandInv` says, while nothing is disturbed, where the posted message is: `Holding` (the flag
of `hif_isr` is up only while the message is held, its interrupt cleared, and it is being
fetched, handled or given back), `Masking` (the pin is masked only on the way to a message
and in its hands), `GivingBack`, `Numbered` (as many callbacks as messages) and `Woken`. All
are needed together: an increment lost between the two halves of the decrement is harmless
only because the loop then reads the interrupt register, and enabling the pin before RX done
only because the bit it writes back is the cleared one.

`MessageHandlingEnds` and `HostNeverStuck` are what `EveryMessageReleased` needs besides
fairness. While a message is held and nothing disturbs its handling, `Rank` falls with every
step there is: it counts the steps of the callback (`Effort`), the bus accesses until the next
one (`Stage`), a message that is still to be fetched (`Coming`), what the chip and the
interrupt may do meanwhile (`Waits`) and the sends the model allows, each of which may cost a
round of accesses. And `HandlerReady` names, for each place of the host, a step that can be
taken.

`MeshGatewayProofs` (from `MeshBounds`, for any numbers of dashboards, lamps and commands):
`TypeCorrect`, `OneCommandIsBlamedRight` and `NeverBlamedTwice`. `AloneIsBlamed` rests on
`Undecided`: while commands have not overlapped at most one is open, in one place (taken,
on the line, in the mesh or coming back as an error), and `lastUID` names it. `BlamedOnce`
rests on `Covered`: a lamp that `lastUID` names, and that can be blamed once more, has been
blamed less often than it was commanded. `SettledDashboardsStay` is the half of `IconsAgree`
that needs no fairness: a dashboard is `Settled` when it shows the lamps' state, nothing is on
its way to a lamp, no error is under way, and all the lines and reports that are under way tell
of that state. Without the second part a line that is older than the lamp's last change would
still turn the icon back; with it no step but a click or a button ends agreement.

`MqttStreamProofs` (from `StreamBounds`, for every size of ring, chunk, digit and reply, and
any numbers of messages, sessions and failures): `StreamTypes`, which holds whatever the client
decodes, and `MessagesInOrder`, `FramingIsSound` and `SessionsAccepted`, the safety properties
of `mqtt_stream`, from `StreamInvariance`. The invariant looks at the bytes in the ring, in the
reply being handed over and in the chip as one sequence, `ByteAt`. As long as the session is
not broken that sequence is cut into whole packets of the broker (`Framing`), a cut falls where
the chip's bytes begin and behind each byte that the chip marks as the last of a packet, and
the messages in the packets are numbered on from those that were handled. Receiving moves bytes
along the sequence and leaves it as it is (`FramingStays`); only the broker makes it longer, by
a packet (`FramingGrows`), and only the client shorter, by its first one (`FramingShrinks`).
That the client takes exactly that one is `TakesPacket`: the digits it decodes are those that
were encoded (`DigitsOfLength`, `EncodeFacts`), a push puts the bytes behind the others and a pop
leaves the rest, wherever in the ring they wrap (`PushFacts`, `PopFacts`). The size of the ring
matters at two places: a reply that fits it is pushed whole, and its length is not cut, because
RxSize < LenRange < BufferSize, the order of the code's 250, 256 and 500.

`NothingIsLeftBehind` and `HandingOverEnds` are the corresponding halves of
`EveryMessageHandled`. Between replies the ring is empty, so that a message the client has not
handled is with the chip, and the socket asks for it, can ask for it, or has lost a request to
a failure; this follows from `Framing` and from the agreement of the socket's flag with the
chip's request (`Asks`). `ToDo` weighs the chunks to push and the bytes in the ring: each push
and each packet lowers it, also when the bytes are no packet of the broker's, because
umqtt_process takes at least the header of what it decodes.

Only model-checked: the liveness properties (`QuietExpiry`, `Recovers`,
`EveryMessageReleased`, `JobsEnd`, `IconsAgree`, `EveryMessageHandled`), since liveness under
fairness and ENABLED are beyond the prover, and the timer service at the wrap of absolute
times. For all of these but `QuietExpiry` a theorem above states a part that is a matter of
safety: a rank that falls, a step that can be taken, or a goal that is kept. No theorem needs induction over data: the search for a free socket is
put in terms of the smallest member of a set (`SmallestExists`), and the modules have no
recursive operator.

## 6. Disagreements found

1. The overflow interrupt is unmasked with an empty list (`src/timeout.c:81`, and `:255`
   after a delete from the execute queue), against "it is always the one at the head"
   (`:357`).
2. An overflow flagged in delete's masked section expires the next timer early
   (`src/timeout.c:242`), against `include/timeout.h:67`.
3. A timer created at the head is late by the time since the last timeout
   (`src/timeout.c:174`), against the same line.
4. The subscription is not renewed after a reconnection (`main.c:74`), so that the callback
   for the delta topic (`main.c:37`) receives nothing until the next reset.

The following were met while modelling. The modules contain the behaviour, and a history
variable or an exception in a property marks it; no run is spent on them.

5. RX done is given twice when a signature fails after the last certificate was read
   (`m2m_hif.c:610`, `ecc_functions_tls.c:134`): a message posted in between is given back
   unread. `doubled`.
6. After a failed read of the header the interrupt bit is cleared already, and every retry
   of `hif_handle_isr` is a false interrupt: the superloop stays there (`m2m_hif.c:441`),
   against the comment at `:554`. `busErrors`.
7. `nm_write_reg` never reports a failure (`nmspi.c:346`), against `nmbus.c:173`. `lost`.
8. A transfer that was refused ends with I2C_NOERR (`i2c_master.c:386`), against
   `include/i2c_types.h:35`. `m.refused`.
9. The loop that waits for the bus repeats while it gets it (`i2c_simple_master.c:113`),
   against its comment. It works because every call closes the bus. `Open`.
10. A failed wake is reported as a communication failure, so that it is never retried, and
    the idle word is then sent with polling without limit
    (`hal_atmega4809_i2c.c:128`, `atca_iface.c:156`). `Unanswered`.
11. An error before the first report ends the gateway's thread (`gateway.py:63`), and so does
    a line that cannot be decoded (`:60`, `:73`). `pubPc = "dead"`.
12. An error is blamed on the lamp commanded last (`gateway.py:64`). `overlap`.
13. A packet that has not arrived completely is processed (`umqtt.c:300`), against its
    comment. `broken`.

## 7. Not modelled

Most of the repository's lines are vendor headers and pin definitions, drivers generated by
Atmel START, the WINC driver's one-to-one translations of requests and the parts of
CryptoAuthLib that pack commands or handle certificates: they keep no state of their own
that another component waits for, and a model of them would repeat them. In particular:

- the WINC Wi-Fi and OTA front ends (their messages are the kinds `reply` and
  `unregistered` of `HostInterface`), UDP and server sockets, the chip's start-up;
- `winc/spi_flash`, which only the firmware-update tools call;
- ADC, SPI and start-up drivers: register configuration and polling;
- the command set, certificates and hashes of CryptoAuthLib;
- provisioning scripts (sequential tools) and the Alexa skills (the Lambda functions are
  archives);
- within `CloudConnection`: a `recv` that fails after a send (`network.c:59`, `socket.c:802`),
  which `MqttStream` has; and a refused `SSL_CREATE` request, whose result `socket()` ignores
  (`socket.c:515`);
- within modelled components: topics and payloads, LED colours, sensor values, integer
  time, and replies that reach a socket slot after it was used again (`socket.c`'s session
  numbers).
