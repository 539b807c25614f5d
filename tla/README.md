# OmniView: a TLA+ development

OmniView shares a screen. A *host* offers one, a *viewer* watches it, and a
*backend* brings the two together. A host is either a web page that captures its
own screen and sends it over WebRTC, or a Rust *agent* that captures the screen
of its machine and serves encoded pictures over a WebSocket of its own, to web
viewers or to the backend itself ("backend pull").

This directory models the parts of OmniView that keep state several actors
change: the modules are TLA+, checked with TLC on small instances, and the
`*_proofs` modules are proved with TLAPS for every value of the constants. All
paths below are relative to `src/`.

1. Inventory
2. Modules, and how they correspond to the code
3. Runs: bounds, fairness, disciplines
4. What the code does not cope with
5. Proofs
6. What is not modelled, and what is left

## 1. Inventory

### The signaling gateway (`apps/backend/src/signaling`)

* State: `SessionManager` holds seven maps: agent to host socket and to password
  hash, viewer socket to viewer, request id to pending request, viewer socket to
  request id, request id to approval timer, socket to subscription.
* Operations: `host:join`, `viewer:request`, `access:request`, `access:grant`,
  `access:deny`, subscribe and unsubscribe, the kick of the REST API, the approval
  timer, the close event; and relays of offers, answers and candidates, which
  look the maps up and change nothing.
* What is hard: Node.js runs a handler up to its next `await`; between the
  question to the database and the answer, sockets close, hosts are replaced,
  timers fire and other requests are decided. Evicted and kicked sockets close
  later than they are removed.
* Correct means: a request is decided once, and is decided; an entry in one map
  has its counterpart in the others; nobody is seated without a grant; whoever
  leaves is gone from every map, and the host hears of it.

### The rest of the backend (`apps/backend/src`)

* The agent client (`agents/agent-client.service.ts`): a session map and a timer
  map keyed by agent, and the sockets; connect and disconnect, the socket's
  events, the reconnection timer, the teardown, the pictures that are saved.
  Hard: two connections of one agent share one key, and their events come after
  the map has changed hands; a timer is armed while the user says stop; pictures
  are saved across three awaits. Correct means: one connection at a time, a
  status that tells the truth, a disconnect that lasts, a loss that is repaired,
  rows whose numbers differ.
* `AgentsService`: three tables (agents, whitelist, blacklist). Each insertion
  looks first and inserts after an `await`. Correct means: a device that was
  removed from a list is not on it.
* `WsRateLimitGuard`, REST controllers, credentials, middleware: no state that
  two requests decide on together.

### The agent (`apps/agent/src`)

* `server.rs`, `consts/states.rs`: a counter of clients, the session state, `fps`
  and `quality`, each an atomic; one task per client with its own pause flag.
  Hard: tasks run in parallel and change two atomics one after the other.
  Correct means: pictures are captured exactly while someone is connected, and
  settings that were confirmed are in force.
* `encoders`, `services/ffmpeg.rs`: the capture thread and its encoder, ffmpeg
  and its pipes, the pump thread, an mpsc channel of 4, a broadcast channel of
  16, a receiver per client. Hard: one bounded channel blocks, one drops the
  newest event and one the oldest; an encoder is replaced while its pump is still
  reading; the init segment of a stream is sent once. Correct means: what a
  client is sent can be decoded, streams of two encoders do not mix, a client
  that stays gets a picture.

### The web application (`apps/web/src`)

* `useWebRTCViewer`: an attempt number, a peer, a socket, a timeout and a
  connection state in shared refs; every callback compares its attempt with the
  current one, except after the first `await`. Correct means: what is open is
  reachable by `disconnect`, and no attempt waits for ever.
* `useWebRTCHost`: a captured stream, peers, input channels and the list of
  viewers, filled across several `await`s while messages go on arriving; the
  signaling socket reconnects by itself. Correct means: the list shows who
  watches, every viewer let in while sharing is connected, and a capture can
  always be stopped.
* `remoteInput`, `WebRTCViewer`: permissions kept by the host and sent over the
  data channel; the page's mode, switches and sound follow them. Correct means:
  the page knows what is permitted, stops steering when it is withdrawn, and
  does not play what is switched off.
* `DeviceContext`, `DevicePanel`: a password with copies in the browser, in the
  agent's row and at the gateway. Correct means: they agree.
* The notifications of `DeviceContext` and `useAccessControl`: the cards that ask
  the host, and a panel of both lists that is loaded and edited. Correct means:
  the host can answer whatever waits for it.
* `AgentSession` (`services/agent-ws.ts`): a socket, a state, a number of
  attempts, a timer. `useWhitelistCheck`: a status, fed by REST and by a socket.
  `useMseViewer`: a queue before a SourceBuffer. `useAgentHistory`: a list in
  storage. `ViewerPage` and the directory put the four together. Correct means:
  a session waits for exactly one thing, a page shows what its session does, no
  fragment is lost, the history is recent.

### Shells, tools, tests

`apps/desktop` and `apps/mobile` show the web application in a window; `tools` and
`e2e` exercise the program. They keep no state of their own.

## 2. Modules, and how they correspond to the code

| modules | what they are | code |
|---|---|---|
| `Signaling` | the gateway, in full | `signaling/*.ts` |
| `Admission`, `SignalingAdmission` | what the gateway promises, and the refinement mapping | abstract |
| `MCSignaling` | its instances for TLC | |
| `AgentClient` | the backend's connection to an agent | `agent-client.service.ts` |
| `AgentFrames` | `AgentClient` with the pictures it saves | same, `frames.service.ts` |
| `AgentServer`, `MCAgentServer` | the atomics of the agent's client tasks | `server.rs`, `states.rs` |
| `AgentStream` | capture, encoder, channels, decoders | `encoders/*`, `ffmpeg.rs`, `server.rs` |
| `Relay` | the gateway between one host and one viewer | `signaling.service.ts` |
| `ViewerSession` | the attempts of a viewer's page | `useWebRTCViewer.ts` |
| `HostSession` | the host's side of one viewer | `useWebRTCHost.ts` |
| `Sharing` | the three composed | |
| `InputChannel` | the data channel of a session | both hooks |
| `Permissions` | the host's end | `useWebRTCHost.ts`, `remoteInput.ts` |
| `WatchPage` | the page that watches | `WebRTCViewer.tsx` |
| `RemoteControl` | the three composed | |
| `DevicePage`, `MCDevice` | password, permissions, capture of a device | `DeviceContext.tsx`, `DevicePanel.tsx`, `useWebRTCHost.ts` |
| `AccessLists` | the two lists, and requests as they are settled | `agents.service.ts`, `signaling.service.ts` |
| `AccessControl`, `MCAccess` | `AccessLists` with the host's cards and panel | `DeviceContext.tsx`, `useAccessControl.ts` |
| `AccessCheck` | the check of the lists, and the request for approval | `useWhitelistCheck.ts` |
| `AgentSession` | the session with an agent | `agent-ws.ts` |
| `MsePlayer` | the queue of fragments | `useMseViewer.ts` |
| `Directory` | the history, the prompt, the routes | `useAgentHistory.ts`, `AgentHistoryPanel.tsx` |
| `DirectViewer` | the four composed | `ViewerPage.tsx` |
| `Signaling_proofs`, `AgentClient_proofs`, `AgentServer_proofs`, `AgentStream_proofs`, `Sharing_proofs`, `Pages_proofs`, `AccessControl_proofs`, `DirectViewer_proofs` | proofs | |

Variables have the names of the fields they stand for. Definitions that carry
`_<Something>` after the name of an action and a comment beginning with "Fault:"
are not part of a specification: each is the action with a plausible mistake,
kept to see that a property notices it.

Some variables are not in the code. They are *history*: actions set them and no
action reads them, so they take no behaviour away. They record that a certain thing
has happened which the code does not cope with, as narrowly as the property needs:
which attempt, call, client, picture or list it happened to, and until when. A
property then says that nothing else goes wrong, in every interleaving, and
section 4 says what each record means. They are `overtaken`, `unheard`, `dismissed`
(`AgentClient`), `alone` (`AgentFrames`), `late`, `batch` (`AgentServer`), `torn`,
`missed` (`AgentStream`), `strayed`, `crossed`, `misled`, `trouble` (`Sharing`),
`crossed` (`AccessLists`), `unheeded`, `gaps`, `lost`, `missed`, `dropped`, `torn`,
`forgotten` (the other pages).

**Signaling.** A handler is cut at its awaits. `stage[q]` says how far the
handling of request `q` has come: `unsent`, awaiting one of the four database
calls, `asked` (the host was asked), decided, or `dropped` with its socket. What
a suspended handler closed over is state: `hostWs`. A socket is `open`, `closing`
after the server called `close()`, or `closed` once the close event was handled;
messages in flight are still handled while it is closing. `joined[s]` is what a
host was told: VIEWER_JOINED adds, VIEWER_LEFT removes. The maps are functions
with `None` for a missing key. Lookups in the access lists answer either way,
since the lists also change through the REST API and the code takes an error for
a no. Request payloads are the constant `Dto`; everything else about a request
(when, with which password, whether at all) is open. `Date.now()` in a request id
becomes `RequestIds`: with `SameMillisecond`, a viewer's second request may get
the id of its first. `access:request` carries an id of its client; two clients
never send the same one (`useWhitelistCheck.ts:24` draws it at random).

**Admission** knows only verdicts and seats: a request is granted, refused or
dropped once, a seat belongs to the caller granted last, and is lost by leaving
or to a newer grant. `SignalingAdmission` maps `stage` to verdicts and
`viewerSockets` to seats.

**AgentClient** models one agent, because every map is keyed by the agent id and
agents share nothing else. `session` is the map entry, `ws` the `readyState` of
each connection object, `auth` what has become of its auth message,
`reconnectTimer` the timer in the map and `armed` all timers that will fire;
`notified` is what subscribers were told last. A close event reports the code of
the peer's close frame: the one given to `close()`, repeated, or a code of the
peer's own, in particular the 1000 of a peer that leaves cleanly; a connection that
is lost, and one aborted while connecting, report 1006 (`ReportedCodes`). REST calls
come at any time. Backoff delays are left out: an armed timer fires at any time. **AgentFrames** adds a call of `saveFrame` per picture, cut at
the three awaits, with what it read of `session.seq` before each: the name of the
file and the number of the row are read at different times. Pictures come while
others are still being saved.

**AgentServer** has an action per atomic operation of `handle_client` and
`handle_control_message`. The two relaxed stores of a config message may be seen
in either order. `Config` may ask for any member of `Configs`: the three presets
of `server.rs:247-263`, or what a custom message is clamped to. Tasks interleave
freely, as nothing in `server.rs` keeps them apart.

**AgentStream** follows an event from the capture thread to each client's
decoder. An event is an init segment, a Reinit, or a *chunk*: whatever one read of
ffmpeg's output returned, which may begin and end in the middle of a fragment. A
decoder stands before an init segment (`fresh`), at a fragment boundary, inside a
fragment, or has been given something that does not follow (`garbled`). Sending
an init segment or a Reinit blocks on a full channel, sending a chunk drops it;
a receiver that lags by the capacity of the broadcast channel loses its oldest
event. A chunk carries whether it follows a dropped one (`gap`), which only the
history reads. Clients come late, lag, pause and leave; ffmpeg may die. That the
capture runs exactly while a client is served is taken from
`AgentServer`.

**Sharing** is one host, one viewer id and its page, because the host's maps are
keyed by viewer and viewers share nothing else. An *attempt* is a call of
`connect` with its socket and peer, a *call* is what the host sets up for one
VIEWER_JOINED. `Relay` is `Signaling` seen from there: a request is let in or
refused at any time, a seat belongs to one attempt. It handles a message when it
is sent, and the delay is in the queue to the receiver, which is in order, as a
WebSocket is. `ViewerSession` cuts `connect` at `createReceiverPeer` and the
handler of an offer at its answer; a callback of an attempt that is not current
changes nothing (`Ignored`), and `Cleanup` is `cleanupCurrentConnection`.
`HostSession` cuts the handler of VIEWER_JOINED at `createSenderPeer` and at the
offer, and the kick at its REST call. Sessions are stopped and begun anew at any
point, these awaits included. An answer goes to whatever peer the map holds for the
viewer; one made to another peer's offer may be accepted or throw (`Foreign`). The media link of an attempt and a call can
come up when each has the other's description (`Matched`).

**RemoteControl** is one host and one page from one session to the next.
`perm` and `synced` are what callbacks have set, `shown` what was rendered last:
handlers use the second until `Render`. Effects run with the render that changed
their dependencies. A click and its render are one step, since React flushes them
together. The channel is ordered and reliable; it delivers nothing while the link
is down and is dropped when either end closes its peer.

**DevicePage** is a device without its viewers. `typed`, `stored`, `registered`
and `gateway` are the four copies of the password: the field, `localStorage`, the
agent's row, the last `host:join`. `audio` is the permission that gates a track,
`rest` the other permissions together. A dialog asks for sound only if the capture
settings and the permission of the moment it opens say so
(`useWebRTCHost.ts:320`), and may not get it; `live` are the streams whose tracks
run, whichever the page still holds, `sounding` those with an audio track, `heard`
those whose audio track is enabled. A permission given later finds no track to
enable in a stream that has none, which is what `CaptureSettingsPanel.tsx:152-157`
tells the user.

**AccessControl** is one device that asks one agent again and again, and the
agent's host. `rows` counts the device's entries of each list. A grant and a block
are settled at the gateway, then look, then insert, and others may do so between. `loads` are the loads of the
panel under way: each list is read at some time, and the answers come in any
order. `whitelistVersion` is raised at the click, before the lists have changed,
so `Accept` and `Block` begin a load that may read too early. `send` on a socket
that is connecting throws before the card is removed; on a closed one it is
silent. While the panel loads, its rows are hidden.

**DirectViewer** is a user who goes from the directory to agents and back. The
agents are the native ones: for a browser's agent `ViewerPage.tsx:35` returns
before its hooks and another page is shown (`WatchPage`). `AgentSession` is the
class with its timer; `agentPaused` is the flag of `AgentServer`'s task.
`handleDisconnect` closes the session, goes to `idle`, and the cleanup of the
effect closes it again: `closed` is the last state the page hears, and it shows an
overlay in place of the form (`ViewerPage.tsx:75-87`); `HandleDisconnect` leaves
it so. `MsePlayer` numbers fragments from the last Reinit. `Directory` allows a
fetch per agent to be under way, and its answer may open the prompt over any
page.

## 3. Runs

Every run passes. The states are distinct ones.

| run | spec | states | what it asks |
|---|---|---|---|
| `signaling_web` | `Spec` | 181 412 | the gateway as the web client uses it: maps, timers, seats, departures, cleanup |
| `signaling_any_client` | `FairSpec` | 41 764 | clients without discipline: every request is settled, `Admission` is implemented, a departure that is told is one |
| `agent_client` | `FairSpec` | 22 917 | REST calls and socket events in any order: connections, status, timers, disconnect, retries |
| `agent_frames` | `FramesSpec` | 21 167 | pictures in flight together: their rows are numbered |
| `agent_server` | `FairSpec` | 219 116 | tasks interleave freely: the count is exact, the capture runs and stops with the clients, settings are whole |
| `agent_stream` | `Spec` | 2 432 420 | late, lagging and paused clients, split reads, ffmpeg dying: streams do not mix, what is sent can be decoded |
| `agent_stream_picture` | `FairSpec` | 396 036 | the same, with a queue of one: a client gets a picture |
| `sharing` | `FairSpec` | 2 041 450 | host, gateway and a viewer that tries again: nothing is left behind, the list is true, the two ends meet, no attempt waits for ever |
| `remote_control` | `FairSpec` | 715 340 | permissions over a link that goes and comes: they agree, silence is kept, a withdrawal ends control |
| `device` | `DeviceSpec` | 2 675 244 | capture and password of a device whose socket comes and goes |
| `access` | `Spec` | 3 772 560 | three requests of a device, answered, listed and removed |
| `direct` | `FairSpec` | 412 344 | from the directory to agents and back |

Each property is stated with its comment in the module, and each has a fault in
one of the modules (`PROJECT.json`, "mutants") under which its run fails.

### Bounds

* `signaling_web`: two agents; `h1`, `h2` are two connections of the page hosting
  `a1` (a reload), `h3` hosts `a2`; `s1`, `s2` are two connections of viewer `v1`,
  `s3` one of `v2`. That is the smallest instance with a replaced host, a
  viewer replacing itself while its first request is open, and a bystander of
  both kinds. A third connection of a viewer would meet the second as the second
  meets the first.
* `signaling_any_client`: one socket sends requests for two viewers, subscribes,
  and the host watches itself and hosts two agents; two passwords, so that a
  wrong one is tried.
* `agent_client`: three connection objects: one in the map, one that is closing,
  one opened meanwhile; an object that is closed and forgotten is used again, so
  that reconnections never run out, and REST calls are not counted.
* `agent_frames`: one connection and `MaxFrames = 3`: a picture that fails before
  two that are in flight together, and one saved alone after them.
* `agent_server`: three clients (first, last and one in between) and three presets,
  so that two messages overlap and a third is in force before or after.
* `agent_stream`: one client and capacities 2, 2 and 1, so that every channel is
  full often; two encoders, so that one is replaced. Clients do not read each
  other's state, and `Leave` and `Accept` make a new one of the same.
  `agent_stream_picture` has a queue of one, since liveness costs more, and the
  queue is then full whenever it is not empty. The capacities of the code (4 and
  16) are larger; what matters is that the channels fill and that the blocked and
  the dropped case both happen. `MaxGen` is the bound on encoders.
* `sharing`: two attempts and two calls, so that each can be superseded; two
  messages to an end (`MaxQueue`), after which a sender waits. The run takes two
  to three minutes; a third attempt is out of its reach.
* `remote_control`: one input and one medium, since the features of a kind are
  used alike (`mouse` has the animation frame, `audio` the effect); two messages
  to an end. Sessions follow each other without bound.
* `device`: two passwords and the empty one, two streams, so that a second can
  take the place of a first, used alike (symmetry); nothing else is bounded.
* `access`: three requests, used alike (symmetry), so that up to three additions to
  a list cross; two loads of the panel under way (`MaxLoads`).
* `direct`: `MaxAttempts = 6` as in the code, two messages to the agent, three
  fragments of a generation, two agents and a history of two entries, three
  visits, so that an agent is visited again.

Deadlock is checked where the system never rests (`agent_server`, `device`,
`access`, `direct`). The others may stop: all
sockets closed, teardown done, attempts used up, the last encoder running with
nobody allowed to join.

### Fairness

* `Signaling`: a query settles (its rejection is caught as well) and an armed
  timer fires. Nothing is assumed of hosts, viewers or sockets: `RequestsSettle`
  holds because of the timer.
* `AgentClient`: a closing socket closes (the ws library gives up on a handshake
  after 30 s) and an armed timer fires; in `AgentFrames`, disk and database answer
  or fail. The peer owes nothing.
* `AgentServer`: the runtime schedules a task that is between two atomic
  operations.
* `AgentStream`: threads and tasks are scheduled, the screen gives pictures while
  someone is served, the display settles after a change, a client finishes its
  authentication and reads its socket. That the display ever changes, or a client
  stays, is not assumed, nor that the channels have room: `PictureComes` names what
  a client may have missed.
* `Sharing`: `createReceiverPeer` answers or fails and an armed timeout fires.
  Nothing is assumed of the network, the gateway or the host.
* `RemoteControl`: React renders what was set, a link that is down comes back or
  dies, and the channel delivers (strongly fair, since the link may go down again
  and again between two deliveries: the channel is reliable, which is how
  `createDataChannel` is called).
* `DirectViewer`: the session's timer fires, a socket that is connecting opens or
  fails, and the gateway answers a request for access, which is what
  `RequestsSettle` says of it.

### Disciplines

Two runs and the theorems that say so assume something of the environment. All other
properties hold of every interleaving of the modelled actions.

* *Web clients* (`WebDto`, `WebHosts` in `MCSignaling`, run `signaling_web`): a
  request per socket, one agent per hosting socket, hosts do not watch. This is how
  `apps/web` uses the gateway (`useWebRTCViewer.ts:240`, `useWebRTCHost.ts:167`,
  `useWhitelistCheck.ts:91` each open a socket for one purpose); the gateway does
  not enforce it, so `signaling_any_client` does without.
* *Ids that differ* (`SameMillisecond = FALSE`, both runs): a viewer's two requests
  are not made in one millisecond.

## 4. What the code does not cope with

### Outside the disciplines of the gateway

Each line is a change to the configuration of a passing run, after which TLC finds
the property violated. They are reproduced by editing the `.cfg` file.

| run, change | property | what happens |
|---|---|---|
| `signaling_web`, add `PROPERTY ClosedViewersLeave` | that one | a viewer closes while `isWhitelisted` or `addToWhitelist` is awaited; its close event is handled, then the handler goes on and registers the dead socket. `getViewers` ("List viewers currently watching", `agents.controller.ts:141`) lists it for ever |
| `signaling_web`, `SameMillisecond = TRUE` | `MapsAgree`, `CleanupIsExact` | the second request takes the entry of the first |
| `signaling_web`, `Dto <- AnyDto`, `Hosts <- AnyHosts` | `MapsAgree`, `HostHearsOfDeparture`, `CleanupIsExact` | of two requests of a socket the first is not forgotten (`session.manager.ts:191`); of two agents of a socket the second stays (`:66`); a kicked socket is let in by its other request |

### What is recorded

Everywhere else the interleaving is in the run, and a record in the model names what
it does. Each case is real: TLC reaches it, and without its record the property
fails on the run's instance (`NegotiationCompletes` without `strayed` fails only
with a third attempt).

In the backend's connection to an agent (`AgentClient`, `AgentFrames`):

* `overtaken`: `connect` finds no session in the map and opens a connection, while
  an earlier one is still closing or a reconnection is due (`:145`). There are then
  two; the close event of the first removes the session of the second and reports
  the agent offline (`:128`), and two timers share one map entry, so that one can no
  longer be cancelled (`:146`). The record ends with a `connect` that finds nothing
  left of them. `OneLiveConnection`, `StatusAgrees`, `SubscribersAgree` and
  `TimersAreCancelled` hold of every other history: no disconnect, refused password,
  lost close or teardown breaks them.
* `unheard`: a disconnect comes back. It finds no session while a reconnection is
  due and cancels nothing; a socket that is connecting it aborts, which reports 1006
  and counts as a loss; so does a close frame that is not answered, and a refused
  password whose socket is still closing with 1008. The record ends with the next
  `connect`. `DisconnectIsObeyed` says that nothing else opens a connection nobody
  wants.
* `dismissed`: the peer closes a wanted connection with code 1000, which `:132` takes
  for the answer to our own disconnect, and it is not retried. After any other loss
  there is a successor (`NeverGivesUp`, `RetriesAfterLoss`).
* `alone` (of a picture): false if another was on its way with it. Two pictures in
  flight read one `session.seq` (`:219`) and get one name or number. `RowsAreNumbered`
  gives the number of a picture saved alone, and bounds those of the others.

In the agent (`AgentServer`, `AgentStream`):

* `late`: the last client decrements the counter, a new one increments it and sets
  Streaming, then the first sets Idle: the new client is connected to a paused
  capture until the next Streaming (`server.rs:165-218`). `CaptureFollowsClients`
  says that there is no other way to a paused capture.
* `batch`: the settings asked for since nobody was storing any. Messages handled
  together may leave the fps of one and the quality of the other (`:264`);
  `ConfigIsWhole` says that each setting is of one of them, and that a message that
  met no other is in force whole.
* `missed` (of a client, until its next Reinit): an init segment or a part of a
  fragment passed it by. It came late, as the init segment is broadcast once per
  encoder; it was paused when that came (`:179`); it lagged and its receiver dropped
  it; or a full channel dropped half a fragment (`ffmpeg.rs:142`; `torn` until
  something is sent again). `StreamIsDecodable` says that what any other client is
  sent can be decoded, and `PictureComes` that it gets a whole fragment. The capture
  loop may also end with clients connected (`phase = "ended"`), where
  `encoders/mod.rs:52` says they have gone.

In a shared session (`Sharing`):

* `strayed` (attempts): an attempt that was cancelled or superseded while
  `createReceiverPeer` was awaited puts its peer and socket into the refs, takes the
  timeout of the current one, and pushes that one out of the refs
  (`useWebRTCViewer.ts:207`, `:244`). Both are strayed. `AttemptIsHeld` holds of all
  others, and so does `NegotiationCompletes`: when an offer throws, a strayed page
  closes what is in the refs instead of itself. `AttemptsEnd` fails only of one whose
  timeout was taken.
* `crossed` (calls): the viewer left, or the capture was stopped, while
  `createSenderPeer` was awaited; the peer and the entry come all the same and push
  out what the map held (`useWebRTCHost.ts:200`). Only the list suffers: what was
  made last is offered last, and `NegotiationCompletes` holds of such a peer too.
* `misled` (calls): messages carry the viewer and not the attempt or the call
  (`signaling.service.ts:316`, `useWebRTCHost.ts:245`). Another peer's offer went to
  the page while this one was in the map, or it took the answer to another's offer.
* `trouble`, of the whole run from then on. `unheard`: the host missed word of a
  departure, because it lost its socket (a host that re-joins is told nothing of the
  viewers seated and the departures meanwhile, `signaling.service.ts:112`) or because
  a page took over the seat of an earlier attempt (`session.manager.ts:83`; it is
  told of a viewer it already has). `ListIsTrue` is about runs without this.
  `unserved`: a seated viewer was left without a peer, because nothing was captured
  when it was let in (`useWebRTCHost.ts:193`), the capture was stopped under it, or a
  kick closed the peer of a viewer that was back when the REST call was answered
  (`:336`). `NegotiationCompletes` is about runs with neither.

On the pages:

* `unheeded` in `WatchPage`: `ontrack` sets the sound by the volume alone, so
  tracks that come while sound is switched off are heard until the next change.
* `gaps` in `DevicePage`: the password typed but not saved is sent by a re-join;
  a registration failed; the registration of the mount was overtaken; a password
  that is cleared leaves its hash in the row. `lost`: after a loss of the socket
  in the middle of a capture, Retry opens a second stream and forgets the first;
  the record ends when nothing of it runs.
* `crossed` in `AccessLists`, per list: how many additions found no entry while the
  entry of another was awaited. Two grants insert twice (`agents.service.ts:85`) and
  the removal deletes one row; `RemovalHolds` says that a removal leaves no more rows
  than such crossings, and none if there were none.
* `missed` in `AccessControl`: an answer given while the socket is down is lost
  with its card.
* `dropped` in `AccessCheck`: the socket of a request has no close handler, so a
  form whose socket is closed by the gateway waits for ever.
* `torn` in `MsePlayer`: a buffer that `appendBuffer` throws on is gone.
  `forgotten` in `Directory`: React may run the updater that stores a visit with
  a render that the page it belongs to does not live to see.

Two more things the `direct` run shows of `AgentSession`: a success resets the
count of attempts when the socket opens, not when the password is accepted, so an
agent that accepts and drops is tried for ever; and nothing limits the wait for
the answer to the password, which is why `ConnectingEnds` says nothing of
`authenticating`.

## 5. Proofs

Every invariant and every action property that a run checks is also proved, for
all values of the constants, and so is the refinement of `Admission`. All theorems
are about the `Spec` of each module (`FramesSpec` for the rows of saved pictures),
from the named assumptions on its constants: their types, that `None` is none of
the other values, and, for `AgentServer`, that the set of clients is finite. Only
theorems about the gateway assume a discipline, which is their ASSUME; all others
are about every behaviour of the module. In most modules the property is not
inductive; what it is strengthened with is the argument.

**`Signaling_proofs`**, for clients without any discipline, ids that collide
included. `TypeOK` is inductive alone. `TimersMatchPending` needs only that the
three maps of pending requests change together. `PasswordWithHost` needs
types. The rest goes through the steps themselves, by lemmas that say for each
action which verdicts and seats it can change: a request leaves `granted`,
`refused` or `dropped` in no action (`VerdictsAreFinal`), because every action
that decides a request first finds it undecided, in an await or in the pending
map, and what is pending is `asked`; an entry of `hostSockets` becomes `None` only
in `Disconnect` of that very socket (`HostsLeaveByOwnClose`);
`registerViewerSocket` removes every other holder of a seat before it seats the
new one (`OneSocketEach`); and a seat is only given with a grant, which is final
(`SeatsAreGranted`).

For the gateway's own clients, each theorem assumes only the disciplines it needs. `EntryInv`: an entry describes the request its id was
made for, it exists exactly while that request is `asked`, and it goes with the
link of its socket; so the maps of requests agree (`RequestMaps`, one request per
socket and no collision of ids). `HostInv`: a socket is registered for an agent it
may host, which is one, so the entry that `deleteHostBySocket` finds is all there
is (`HostMaps`; `Maps` is both). `SeatInv`: a socket the server closes had been granted its one
request, and a grant is final, so nothing registers it again.
`DeparturesAreHeard` and `CleanupExact` are action properties: a lemma says what
each action does to connections and seats, and the two steps that take a seat away
are followed to the message. `DeparturesTrue` is the converse, for any clients: only
a kick and a close tell of a departure (`JoinedStep`), and by `OneSocketPerViewer`
the seat they take was the only one of that viewer.

`GatewayImplementsAdmission` is the refinement, for any clients whose request ids
do not collide: the initial state maps to one of `Admission`, and each action to a
verdict, a grant with its seat, a departure, or nothing. When a socket is closed or
evicted, what it still had pending is dropped, and `Admission` lets a caller lose
only requests of its own that are open: an entry in the pending map is of the
request its id was made for, and a link is of its own socket (`EntryIsOwn`,
`LinkIsOwn`, `PendingIsOpen`). A grant takes the seat from exactly the socket that
had it, and `Seat` is a function of the map, by `OneSocketPerViewer`.

**`AgentClient_proofs`**. `UseInv` adds to `StatusIsTruthful` and
`TimerEntryIsArmed` that an answer is only pending on a live socket, without which
a late `auth_ok` could authenticate a closed one, and, for `Persistent`, that a
wanted connection is live or due. `ChainInv` says what the code relies on without
saying so: unless a `connect` has overtaken something, at most one connection or
one timer is under way (`OneBusy`), the map has it (`LiveIsInMap`, `TimersInMap`),
the subscribers know of it, and a disconnect that was heard leaves at most a socket
closing with 1000 (`HeardIsClean`). A call that finds nothing left of all this
begins the chain anew. `OneConnection`, `StatusAgreement`, `SubscribersInformed`,
`TimersCancelled` and `DisconnectWorks` follow. `FramesKeepClient` says that
`AgentFrames` adds no behaviour to the client. `RowsNumbered` needs what a call that
is under way has taken from `session.seq` and not yet written: `InStep` says that
the count is the number of calls that were saved, that nobody has taken more than
the count is, and that a call that is alone has taken the count of now, since all
before it are over. A count is a cardinality, so that no recursion is needed.

**`AgentServer_proofs`**. `TypeOK` and `CountIsExact` are proved together: the
counter stays in `Nat` because a client that decrements it is counted, and the
count is a cardinality, so a step that moves a client in or out of `Counted` is a
step of `FS_AddElement` or `FS_RemoveElement`. `CapturePauses` needs both: when
the count reaches zero the task that took it there is `idling`. `CaptureFollows`
needs that an Idle set over a positive count is recorded, and that the one who
counts first is on its way to set Streaming. For `ConfigWhole`, `BatchInv` says that
what is being stored belongs to the batch, and that each setting in force does or
will be stored over.

**`AgentStream_proofs`**, for any capacities and an environment that does its worst:
clients that come late, lag and pause, reads that end anywhere, an ffmpeg that dies.
`ReinitParts` says nothing of what may still be sent; `Inv` adds that no pump
runs while Reinit is announced and the encoder is built (`PumpGone`), so that
nothing sent is newer than the latest generation announced (`NoneNewer`) and the
next Reinit is newer than everything; and that what was broadcast precedes what
waits in the mpsc channel (`Precedes`), so that the fan-out keeps each receiver in
order, even where it drops the oldest event. `Decodable`: where a decoder will stand
after an event depends on that event alone (`Mark`), so a channel can be decoded if
each frame follows an event that leaves the decoder where the frame begins, or says
that something is missing before it (`Link`, `Chain`). `StreamInv` says this of the
decoder, its receiver and the mpsc channel one behind the other, and that their end
is where the pump goes on (`Tip`). Of a client that has missed something nothing is
known (`Anywhere`), and that place stands for every other, until a Reinit. Whole
fragments may be dropped because each begins where every other ends (`Skipped`).

**`Sharing_proofs`**, for any number of attempts, of calls, and of messages on the
way.

`AttemptHeld`: at the end of `createReceiverPeer` the code puts peer, socket and
timeout into the refs without looking, so `PageInv` says that, strayed attempts
aside, whatever is up is in the refs and current, that the timeout is that of the
refs, and that a socket the network has cut counts as open until its page hears of
it.

`ListTrue`: the host acts on VIEWER_JOINED and VIEWER_LEFT as they come, some time
after the seat changed. `HostWillKnow` says there is a story `p` of the queue:
`p[0]` is whether the viewer is there as far as the host can know, each message
changes it the right way, and at the end of the queue it says whether the seat is
taken. So a VIEWER_JOINED finds no peer in the map but a crossed one, and when the
queue is empty the host knows the truth. Sending extends the story (`KnowsMore`),
hearing drops its beginning (`KnowsRest`).

`Negotiated` rests on both. `NegotiationCore` follows one description from the
host to the page and back. A call nobody has been offered is known to nobody
(`FreshIsUnknown`), so a peer in the map is known to the one page that has the
seat (`PeerIsSeats`); an offer of it is the last in that page's queue, and once it
is accepted no other offer is there to replace it. From the moment of the offer it
is on its way, or is being answered, or the answer is on its way, or was accepted
(`UnderWay`); nothing takes it out of that chain but a loss of the socket, the end
of the attempt, another peer's offer or answer, or another attempt's refs, which
`misled` and `strayed` record. These hold only while the host has been told of
every change of seat (`Informed`) and no other peer is being made (`Alone`); a host
that has heard a last VIEWER_LEFT knows that the seat
is free (`LeftIsOut`), which is why closing its peer does no harm.

The three strengthened invariants hold on the instance of `sharing` too: run TLC on
`Sharing_proofs` with the constants of `sharing.cfg`, `SPECIFICATION Spec` and
`INVARIANTS TypeOK PageInv HostInv NegotiationInv`.

**`Pages_proofs`**, for the host's device page and for remote control over one
connection, with any features and channels of any length. `CaptureIsHeld`
needs that, until a socket is lost, one dialog is open at a time, and only while the
page says so (`OneDialog`): so nothing runs when a dialog is answered. `PasswordsAgree` needs that what is being saved is what
was stored (`SavingIsStored`), so that the answer to a save closes the gaps.
`PermissionsAgree` speaks of a quiet channel; `LastWord` says what a channel that
is not quiet will come to: while a session lasts, the last message on its way to
the page, or what the page knows if there is none, is what the host permits.
`SilentWhenOff` speaks of a state that is rendered; `SilentAsShown` is the same
between a callback and its render.

**`AccessControl_proofs`**. `AskedIsShown` is inductive with the types: a card is
removed in the step that settles its request or records it as missed.
`RemovalHolds` needs that there are no more rows, made or awaited, than one and one
for each addition that crossed another (`RowsAreFew`), a sum over a set that grows
and shrinks: an addition that crosses nothing finds no row and nobody adding.

**`DirectViewer_proofs`**, for any number of agents, attempts, fragments and visits.
`OnePendingAlways` is inductive once it is known what `scheduleReconnect`,
`connect` and `close` make of a session (`ScheduledFacts`, `ConnectingFacts`,
`ClosedFacts`). `PausesAgree` speaks of a quiet socket; `AgentIsTold` says that the
last pause or resume on the way, or the agent's flag if there is none, is the
state the page shows, and `QuietBefore` that nothing is on the way before the
agent has accepted the password. For `FragmentsKept` what was appended followed by
what is queued is always the numbers from one on; taking the head of the queue
moves the border between the two (`MoveHead`) and a fragment that arrives adds the
next number (`NextNumber`). For `HistoryRecent`, `RowGoes` and `VisitedIsFirst` say
that the agents not concerned stay in their order. What a visit stores is made from
what the directory showed, which may be older than what is stored; `LiveIsHere`
says that a prompt which still stores belongs to a user who is at the directory,
where the two are one.

Only model-checked: liveness (`RequestsSettle`, `RetriesAfterLoss`, `CaptureStops`,
`PictureComes`, `AttemptsEnd`, `ControlIsWithdrawn`, `ConnectingEnds`,
`RequestIsSettled`), because fairness is stated with ENABLED, which is beyond the
prover.

## 6. What is not modelled, and what is left

Not modelled for good, because no state there is changed by two actors: rendering
and styling, REST plumbing, logging, hashing and credentials, start-up and
registration of the agent, the image encoders, the shells, tools and tests. The
rate limiter is a counter per socket: a message it drops is one that was not sent,
which the modules allow.

Parts of modelled components that are left out, because no other part reads what
they set or nothing in the code calls them: the viewer page's own ICE candidates,
`VIEWER_CONFIG` and the quality message (bitrate), full screen and hidden
controls; labels, addresses and heartbeats of agents; `findByAgent` and
`deleteOlderThan` of the frames, which have no caller; the order in which
`createImageBitmap` finishes in the image viewer.

What React does when an agent's page changes the number of its hooks
(`ViewerPage.tsx:35` returns before them for a browser's agent) is left out: it is
React's behaviour and not this code's.

Left for another time:

1. `find_box` and the cutting of ffmpeg's output in `services/ffmpeg.rs`, as
   functions on bounded sequences against a reference definition. `AgentStream`
   takes from it that the first chunk begins at the first `moof`.
2. A refinement from `Signaling` to `Relay`, which today is argued in section 2.
3. `Sharing` with two viewers: the host's maps keep them apart, the list of
   viewers and the capture are shared.
4. The settings shared by `AgentServer` and `AgentStream`.
