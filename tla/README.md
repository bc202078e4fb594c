# A TLA+ model of withered

withered is a small multiplayer server in Go with a browser client. One process runs a
room at 60 ticks per second and one endpoint per websocket connection; they talk only
through an in-memory publish/subscribe service. This directory holds TLA+ modules of that
server, TLC configurations that check them on small instances, and TLAPS proofs.

## The system

| Part | Source | State | Operations |
|---|---|---|---|
| PubSub | `domain/pubsub.go`, `simple_pubsub.go` | map from topic to slice of channels, a RWMutex | Subscribe, Unsubscribe, Publish |
| SessionEndpoint | `domain/session_endpoint.go`, `endpoint_events.go` | ctx, closed flag, ctrlCh (16), writeCh (1024), roomID | Run and its owner, read, write and subscribe loops; Send, Close, ForceClose |
| Session | `domain/session.go`, `idle_reason.go` | three time stamps, closed flag | Touch*, IsIdle, Close |
| Connection | `domain/connection.go`, `adapter/websocket` | a transport | Read, Write, Close |
| Room | `domain/room.go`, `room_events.go` | members, sendCh (1024) | Run (tick: receive, send, Tick, Broadcast), EnqueueBroadcast, EnqueueSendTo |
| WitheredApplication | `application/withered_application.go` | pendingInputs | HandleMessage, Tick |
| Field, Map | `application/field.go`, `map.go` | actors and positions | SpawnAtCenter, ActorMove, Remove |
| SimpleRoomManager | `domain/simple_room_manager.go` | default room | GetRoom |
| Binary protocol | `domain/protocol.go` | none | parsers and encoders |
| Client | `client/src` | session ID, pressed keys | connect, assign, join, input, leave |
| Server set-up | `cmd/main.go`, `handler/accept.go` | none | starts the room, an endpoint per connection, shutdown |

How they interact:

- The accept handler creates a Session, a Connection and an endpoint, and calls `Run`. `Run`
  subscribes to `session:<id>`, starts four goroutines, queues the assign message and waits.
- The read loop publishes joins, leaves and data on `room:<id>`; the room's goroutine drains
  that topic on each tick, then its send queue, then applies all inputs and publishes one
  frame on `session:<id>` of each member; the endpoint's subscribe loop moves frames to
  writeCh and its write loop to the transport.
- The owner loop closes the endpoint on a close event or when the session is idle.
- The browser sends its join as soon as it gets the assign message, an input each frame in
  which a key is down, and draws the frames it gets; on a disconnect it forgets its session ID.
- `main` starts the room in a goroutine, then accepts connections; a signal cancels the room's
  ctx, and `main` returns without waiting for the room or the endpoints.

Hard behaviours, in the order of what they can cost: Publish works on a slice it no longer
holds the lock for, while Unsubscribe closes channels and shifts that slice; an endpoint is
closed by several parties while its loops block on full queues and hanging I/O; the idle
check depends on stamps set by other goroutines; a tick drains queues that keep filling; two
maps must agree on who is in the room; a client's message is parsed three times, by code that
each time decides anew what it is; a join, a leave or a frame is dropped wherever a queue is
full or nobody has subscribed yet. `PROJECT.json` lists each at its line.

What makes each part correct:

- **PubSub**: the slice of a topic is its open channels, each once; a Publish reaches what was
  subscribed when it began, never blocks and never kills the process.
- **Endpoint**: one orderly close; after it everything ends; frames reach the client once, in
  order and after the assign message; data goes to a room that was joined and to no other.
- **Room**: members and actors agree and follow the joins and leaves of the topic; a tick
  handles all that was there before it and sends every member a frame.
- **Protocol**: endpoint, room and application take the same bytes for joins and for leaves; what
  one side encodes the other reads as it was meant; a message cut short is not read as another.
- **The whole**: a client is in every frame it is shown, no input is dropped for want of a
  room, and endpoint and room agree on membership unless a join or leave was lost.

## Modules

| Module | Models | Notes |
|---|---|---|
| `PubSubContract` | what the PubSub interface promises | abstract specification |
| `SimplePubSub` | `simple_pubsub.go` | refines `PubSubContract` |
| `SimplePubSubProofs`, `SimplePubSubPublishProofs`, `SimplePubSubContractProofs` | | theorems about `SimplePubSub` |
| `SessionEndpoint` | `session_endpoint.go`, `session.go`, `connection.go` | |
| `Link` | what an endpoint promises to client and rooms | abstract specification |
| `SessionEndpointProofs`, `SessionEndpointPathProofs` | | theorems about `SessionEndpoint`, the second with the refinement of `Link` |
| `Room` | `room.go`, `withered_application.go`, `field.go` | |
| `RoomProofs` | | theorems about `Room` |
| `Client` | `client/src/game.ts`, `websocket.ts`, `input.ts` | actions without a Next; `Withered` takes them |
| `Withered` | `main.go`, `accept.go`, and the composition | extends `Room`; instantiates `Client` and, for each session, `Link` |
| `WitheredProofs` | | theorems about `Withered` |
| `Wire` | `protocol.go` and `client/src/protocol.ts`, as operators on bytes | |
| `Protocol` | the three readers of a client's message and the client's reader | uses `Wire` |
| `ProtocolProofs` | | theorems about `Protocol` |
| `MC*` | | values and symmetry for TLC |

**SimplePubSub.** A slice is an array number and a length: `subs[t]` is the header in the map,
`arrays[t]` the arrays `append` has allocated for the topic. `Subscribe` is atomic (it holds the
lock and touches no slot a publisher reads), in two forms: into spare capacity or into a new
array of twice the size. `Unsubscribe` holds the lock but its effects are visible to publishers
one at a time: `UnsubscribeClose`, one `ShiftLeft` per slot, `UnsubscribeCommit`. `Publish` is
`PublishSnapshot` (the header, under the read lock), then `PublishLoad` of each slot and one of
`PublishSend`, `PublishPanic`, `PublishSkip`, `PublishCtxReturn`. Append's growth is doubling,
which is what Go does up to 256 elements. An unsubscribe of an unknown channel changes nothing
and is left out. A load that races with a shift is a data race in Go; the model gives it the
old or the new value of a word, which is what the platform's atomic word access produces.

**SessionEndpoint.** One variable per goroutine says where it is; `closing[k]` does so for each
caller of `close()`, whose CompareAndSwap, cancel, session close and connection close are
separate steps. Time is counted in ticks of the owner's ticker: `age` is how long ago a stamp
was set, cut off just above the timeout. `Break` breaks the transport at any moment, with
it the frames on their way are lost, and a `Write` may hang. Messages are numbers, the assign
message 0. What the read loop publishes on a room's topic, joins, leaves and data
(`HandleJoin`, `HandleLeave`, `HandleForward`), is recorded in order in `topics`, in which the
empty room has a topic too, so that a publication there would show. The peer sends any of a set
of frames, its own session ID only after it has received it. `ForceClose` and `Close` are
exported and called by nothing in the program; the model calls them at any moment.

**Room.** The room's goroutine moves through a tick: `TickFires`, `ReceiveOne`/`ReceiveEmpty`,
`SendOne`/`SendEmpty`, `ApplyInput`, `BroadcastFrame`. `Arrive` and `EnqueueSend` are the other
goroutines, at any moment. `HandleMessage` is the room's handler and the application's in one
step, since nothing else sees the maps between the two. Positions are integers: the speed is 1.0
and the map 100 tiles of size 1.0, so every position the code computes is one, and the float32
arithmetic is exact. Messages that change no state (actor, voice, the other control types, what
fails to parse) are the kind "other".

**Link.** One queue in each direction, `closed`, `roomID` and three stages of `run`. The queue
to the client is in order and starts with the assign message; it may lose any message, as
writeCh and the subscription's channel may be full, and all at once, as a connection may go.
`SessionEndpoint.AsLink` maps the endpoint to it: `Down` is the frame being written, writeCh,
the frame being forwarded and the subscription's channel, one behind the other; `wire`, what the
client has received, is outside of it.

**Client.** An action is a JavaScript handler, whole: `onAssign` sets the session ID and sends
the join in one step. `ws` is the socket's readyState; `Sent` sends on an open socket only, as
`WebSocketClient.send` does. `Destroy` is modelled although no page calls it, as it is the only
sender of leaves. The drawing is the set of sessions that are shown.

**Withered.** It extends `Room`, so the room's actions are those of `Room` unchanged:
`RoomStep` is a step of Run that publishes nothing, `RoomBroadcasts` is `BroadcastFrame` with
the frame put into each member's queue, and `EndpointReads` hands a publication to `Arrive`, or
loses it (`MissesRoom`: nobody has subscribed yet, the room has unsubscribed, or the endpoint's
ctx is done; a full inbox is in `Arrive`). The specification is `System == SystemInit /\
[][SystemNext]_systemVars`; `Spec`, `Init` and `Next` remain the room's. An endpoint is what
`Link` says of it, with its two queues, its `roomID` and its place in Run; that it keeps `Link`
is a property (`LinksKept`), as it is of `SessionEndpoint`. `Crash` is the panic of
`SimplePubSub.PublishPanic`, where the program can meet it: a frame to an endpoint that is
unsubscribing, or a message to a room that is. `Exit` is the end of `main`, at any moment after
the signal. After a crash or an exit the browsers go on. The queues of publications that
`SimplePubSub` has per subscriber are the room's inbox and each endpoint's `down`.

**Wire and Protocol.** A byte is a number, a message a sequence of bytes. `Wire` has each
encoder and parser of both languages at its offsets and widths, little-endian, with the
parsers' length checks; Go's and the browser's encoders of a message are one operator where
they write the same bytes. A float32 is four bytes that are carried, never computed with.
`Protocol` sends one message, perhaps cut short, through the endpoint, the room and the
application, each with its own switch over data type and subtype, or to the client.

Variables marked "history" are not in the code: they remember what a property needs and guard
no action of the program. (In `SessionEndpoint` the environment looks at two of them: a client
knows its ID once `wire` has the assign message, and a room publishes to a session only once
`topics` has its join.) Variables marked "bound" limit the environment only.

## Runs

| Run | Checks | Instance |
|---|---|---|
| `pubsub_safety` | types; the registry is exact; a publish that no unsubscribe overlaps is exact; panics need an overlap; `SimplePubSub` implements `PubSubContract` | 2 topics, 3 channels, 2 publishers |
| `pubsub_liveness` | Publish returns though nobody receives | 2 channels, 2 publishers |
| `pubsub_panic` | violated: a failed delivery never stops the publisher | 3 channels, 1 publisher |
| `endpoint_safety` | types; assign first, then frames in order; data and leaves go only to the topic of a joined room; `SessionEndpoint` implements `Link` | 2 rooms, queues of 1, 2 room frames, 3 client frames (own join, leave or data, another's join), 3 frames in all |
| `endpoint_liveness` | the close protocol; Run does not leave the transport open; a closed endpoint ends; so does one whose transport broke | queues of 1, a racing ForceClose |
| `endpoint_read_idle` | violated: what is read keeps a session alive | timeout of 1 tick |
| `endpoint_membership` | violated: an endpoint without a roomID has left every room it joined | 2 rooms, 3 client frames |
| `room_ticks` | types and the border of the map; members are actors; membership follows the topic; a tick drains; every member gets a frame each tick; a cancelled room returns | 2 sessions that move to opposite corners (`CornersSpec`), map of 2x2, 2 arrivals per tick |
| `room_respawn` | violated: an actor that has just joined is at the centre | 1 session that joins and leaves in turn (`TurnSpec`), 3 arrivals per tick |
| `protocol` | the three readers agree; what is sent is understood; a message cut short is rejected or read as the whole; the length field is the length modulo 65536, right up to 2730 actors | every kind of message, with its fields at the edges of their widths and masks that do not fit their bones, cut anywhere; 216 byte strings of every type and subtype in and around those in use; frames of 0, 1, 3, 2730 and 2731 actors |
| `withered` | a client sees itself in every frame; no input without a room; endpoint and room agree unless a publication was lost | 2 clients, one of which presses a key once and may leave; inbox of 1, client queues of 1 |
| `withered_welcome` | every client whose connection stays gets a frame with itself in it, unless its join is lost; each endpoint keeps `Link` | 2 clients that only watch |

Why the bounds are enough. Three channels give an array of capacity four with a free slot and a
removal in the middle; a channel is made once, but arrays are reused after a removal. Buffers of
one make full queues and drops ordinary. In the endpoint a ctrlCh of one is full after one
error, and a writeCh of one after the assign message. Three client frames are a join, something
in between and something after it, or, where a room is left without a leave, two joins and a
leave; in `endpoint_safety` client and room together send three (`MaxTraffic`), which is also a
join and two frames. A timeout of one tick is enough to be idle or not. In the room three
messages (input, leave, join) are what the shortest interesting tick needs, and a map of width
two has a centre and all four borders one step away: in `room_ticks` session s1 presses W and A
only, the other S and D only, so TLC meets each border of each axis, in two corners; that no
mixture of moves leaves the map is `TypeCorrect` of `RoomProofs`, for every mask and width.
`room_respawn` lets a session publish only what an endpoint does that loses nothing and whose
client joins and leaves in turn, by `SpeaksOnlyWhereJoined`: the trace is one of the program. In
the whole program an inbox and client queues of one make lost joins, leaves and frames ordinary
with one arrival per tick; the second client is there to be seen, to fill the inbox and to be in
frames, and so neither presses keys nor leaves (`Player`). Positions play no part in its
properties (`Width = 0`, one key mask). `SendCap` is 0 since nothing in the program calls
EnqueueBroadcast or EnqueueSendTo. In `protocol` only messages of up to `MaxCut` = 139 bytes are
cut, which is every client's message and the short frames, up to three actors or an actor update
with four bones.

Deadlock is not checked: each of these systems really stops, by its bounds, by its
cancellation or because the endpoint has ended. What must not stop is stated as liveness.

Fairness. A goroutine that can run runs (weak fairness of its steps), also `CloseStep`. Go's
`select` chooses at random among its ready cases, so a case that is ready again and again is
taken: strong fairness of `Return`, of `OwnerDone`, `OwnerTick`, `WriterDone` and
`SubscriberDone`. The clock ticks (`SecondPasses`). No fairness for clients, for
subscribers that receive, for a `Write` that may hang, or for the lock's users. In `Withered`
the room's goroutine gets to Subscribe and runs, each endpoint reads what has arrived, and a
browser handles a message that has arrived; nobody has to connect, to send, to leave or to
signal, and connections may go, endpoints close and the process end at any moment.

## What the violated properties show

Each is a line of the repository's documents or comments that the code does not keep;
`PROJECT.json` quotes them.

- A frame published while the endpoint unsubscribes is a send on a closed channel: it panics
  and the whole server ends. The model also shows when it cannot happen:
  `PanicNeedsOverlap`, a channel closed before the publish began is never met.
- `TouchRead` is never called, so every session is closed 30 seconds after it was made,
  however active. (`TouchPong` is not reached either: nothing sends `evPong`.) Read and write
  errors, on the other hand, close nothing; `BrokenEnds` holds by the idle check alone.
- A second join leaves the session in the first room, and after a leave of the second the
  endpoint has no roomID, which `docs/progress.md` reads as not joined. The browser never names
  a room, so only another client would do it.
- An input from before a leave moves the actor of a later join in the same tick. The trace is a
  join, an input, a leave and a join. The browser disconnects after its leave; the
  endpoint takes a new join on the same connection.

## Proofs

Each theorem holds for any values of the constants (sets of topics, channels, publishers,
rooms and sessions, capacities, bounds); it rests on the module's `ASSUME` only.

| Theorem | States | Module |
|---|---|---|
| `TypeCorrect` | `Spec => []TypeOK` | `SimplePubSubProofs` |
| `RegistryIsExact` | `Spec => []RegistryExact` | `SimplePubSubProofs` |
| `PanicOnlyInOverlap` | `Spec => []PanicNeedsOverlap` | `SimplePubSubPublishProofs` |
| `UndisturbedIsExact` | `Spec => UndisturbedPublishExact` | `SimplePubSubPublishProofs` |
| `Implements` | `Spec => ImplementsContract` | `SimplePubSubContractProofs` |
| `ClosesOnce` | `Spec => []CloseProtocol` | `SessionEndpointProofs` |
| `NothingLeftOpen` | `Spec => []TransportNotLeft` | `SessionEndpointProofs` |
| `NeverSpeaksElsewhere` | `Spec => []SpeaksOnlyWhereJoined` | `SessionEndpointProofs` |
| `EndpointTypeCorrect` | `Spec => []TypeOK` | `SessionEndpointPathProofs` |
| `AssignFirstInOrder` | `Spec => []AssignThenFramesInOrder` | `SessionEndpointPathProofs` |
| `EndpointImplementsLink` | `Spec => ImplementsLink` | `SessionEndpointPathProofs` |
| `TypeCorrect` | `Spec => []TypeOK` | `RoomProofs` |
| `SameMembers` | `Spec => []MembersAreActors` | `RoomProofs` |
| `MembershipIsTopics` | `Spec => []MembershipFollowsTopic` | `RoomProofs` |
| `TicksDrain` | `Spec => []TickDrains` | `RoomProofs` |
| `ThreeReadersAgree` | `Spec => []ReadersAgree` | `ProtocolProofs` |
| `PartIsNeverMistaken` | `Spec => []CutIsRejectedOrSame` | `ProtocolProofs` |
| `EncodedIsUnderstood` | `Spec => []SentIsUnderstood` | `ProtocolProofs` |
| `LengthIsRightUpTo16Bits` | `Spec => []LengthTellsSize` | `ProtocolProofs` |
| `RoomIsKept` | `System => Spec` | `WitheredProofs` |
| `SeesItself` | `System => []ShownIncludesSelf` | `WitheredProofs` |
| `InputsArrive` | `System => []InputsFindTheRoom` | `WitheredProofs` |
| `ViewsAgree` | `System => []ViewsAgreeUnlessLost` | `WitheredProofs` |
| `EndpointsAreLinks` | `System => LinksKept` | `WitheredProofs` |

**The registry.** The inductive invariant is
`Inv == TypeOK /\ AllBounded /\ ClosedWereMade /\ RegistryExact`.
`RegistryExact` alone is not inductive: that a new channel is not closed needs
`ClosedWereMade`; that the slots are channels at all needs the types; and `TypeOK` needs
`AllBounded`, which keeps a publisher's index within an array that still exists. The argument
is that of the hole: `UnsubscribeClose` turns slot i into a hole and closes what was in it,
each `ShiftLeft` moves the hole to the right without changing the values in the other slots,
and `UnsubscribeCommit` cuts it off at the end. Lemmas `WriteSlot`, `AllocateArray` and
`SubscribeEffect` say what one write and both forms of append do to all arrays; there is one
lemma per action, and `InvNext` puts them together.

**Publish.** `AllFaithful` is added: for a publisher that no `Unsubscribe` of its topic has
overlapped, what its header held is still subscribed (`SnapOpen`), the array it ranges over
still holds it (`ArrayKept`), and the message was offered to the first `next - 1` of it
(`OfferedSoFar`). The heart is `ArrayKept`: either the topic has moved to another array, which
nobody writes to any more, or its slice is at least as long as the publisher's header, and an
append writes beyond it. So the element it sends to is open, and an exact publish follows when
the index passes the length.

**The contract.** `Live(t)` is mapped to `registered[t]`, which `RegistryExact` makes equal to
the channels of t that are made and not closed: so exactly `Subscribe` and `UnsubscribeClose`
change it and all other writer steps are stutters. That a delivery meets a channel of its own
topic also when the publisher is disturbed needs `SlicesOwned` and `AllOnTopic`: below the
length of any header only channels made for that topic are ever written.

**The endpoint.** `CloseInv` says that CompareAndSwap lets one caller in (`OneInside`) and that
where this caller is tells what has been done (`Progress`). For `TransportNotLeft`, `LeftInv`
adds that once the flag is set the rest of close() is done or in the hands of that caller
(`Carried`), and that the owner does not end while it is that caller (`OwnerLast`): so when Run
returns, it can only be a caller of ForceClose that has yet to close the transport. For
`SpeaksOnlyWhereJoined`, which looks at what was published before, `RoomInv` adds what the guards
on roomID go by (`AtHome`): the topic of roomID's room has a join that no leave has ended.
Lemma `OneMore` says what one more publication changes in that, `PublishKeeps` that the
property is kept by one that `AtHome` allows.

**The way of a frame.** `AssignThenFramesInOrder` speaks of what has arrived; the invariant
must speak of the whole way. `PathInv` says: what has arrived followed by `Down` ascends and
stays within what was published (`InOrder`), begins with the assign message once there is one
(`First`), and is empty before Run queues it (`Before`); no client frame with the session's own
ID is under way before the assign message has arrived (`Quiet`); a returned endpoint has ended
(`Ended`); and Run never fails, as writeCh is empty when it queues the assign message. The many
steps of the four goroutines have only five effects on `Down`: nothing, one element dropped
from the middle, its first delivered, one appended, the assign message put in
(`EveryStepHasAnEffect`), so order is shown for five cases instead of some thirty. The same five
effects are Link's `Lose`, `Receive`, `Publish` and `Open`, which gives the refinement;
`CloseProtocol` is needed for Link's End.

**The room.** `MembersAreActors` is inductive. `TickDrains` is not: `DrainInv` says that what is
due is a prefix of its queue until the loop that drains that queue has ended. For membership,
`LastControlTells` says of a session with joins or leaves in the inbox that the last of them
tells whether it is wanted, so that handling it leaves `sessions` and `wanted` agreeing.

**The protocol.** `Readings`: what arrives begins what was sent, and what each reader did or is
about to do is a function of the same bytes. From there the theorems are about operators only.

- *The readers agree*: a case split over the three switches (`Agreement`), with one difference
  between the readers to bridge, that each has its own bounds on the length
  (`PublishedIsWhole`).
- *A part is never mistaken*: `Begins(p, d)` says that p begins d. Parser by parser, on p it
  answers an error or what it answers on d (`HeaderBegins` to `FrameBegins`), and so do the
  readers made of them. The parser that takes a length from the data, of an actor update,
  counts the bits of a mask that p either has whole or is too short for (`BitsBegin`).
- *What is sent is understood*: each encoder is laid out byte by byte, the repeated parts by the
  quotient and remainder of an index (`PlaceOf`, `BlocksBytes`), and the parser is shown to read
  the field back from there: `PositionBack`, `BoneBack`, `InputBack`, `JoinBack`, `UpdateBack`,
  `FrameBack`. `IsPacket` says once what all messages share, a header and a payload; kind by kind
  an encoded message is one (`EncodedIsPacket`) and a reader on it gets the meaning
  (`Understood`, `NotPassedOn`, `UnderstoodByClient`).
- *The length*: `EncodedIsPacket` gives both the field and the size.

`Sayable` is in the statement because no encoder looks: `ActorUpdate.Encode` writes any number
of bones after any mask, and a frame counts its actors in 16 bits. An update whose mask has
other bits than it has bones is read as something else or not at all, and 65536 actors as none.

**The whole program.** `RoomIsKept` comes first: every step of the program is a step of `Room`
or leaves it alone, so that the room's theorems hold here. `Locals` says, for one session at a
time: a client that does not know its ID has not been heard of by anyone (`Fresh`); the frames
under way have the client in them (`Shows`); a leave is the last thing sent (`LeaveLast`), a
join the first unless the endpoint has a room (`JoinAhead`), and a client that may send has a
room or something under way (`Joining`); roomID and the topic agree or a publication was lost
(`Agrees`). No single one is inductive: `Shows` needs `Fresh` when a frame is put into a
queue, `JoinAhead` needs `Joining` when the client sends and `LeaveLast` when the endpoint reads a
leave. A step of one session changes nothing that `Locals` says of another (`SameKeeps`), but
for the room's, which are shown for all at once.

Assumptions. The theorems rest on the named `ASSUME`s of the modules: `PubSubAssumption`,
`EndpointAssumption`, `RoomAssumption`, `ProtocolAssumption` and `WitheredAssumption` (sets
and capacities of the right kind, no name that is both something and nothing), and
`MessageAssumption`, that what a message carries has the type its encoder takes: session and
room IDs of 16 bytes, a key mask of 32 bits, floats of four bytes, and any bytes at all for
voice data and for what no encoder made. TLC evaluates all of them.

Only model-checked: liveness (`PublishReturns`, `ClosedEnds`, `BrokenEnds`, `MemberHeard`,
`CancelReturns`, `Welcomed`), which needs fairness and ENABLED and is out of the prover's reach.
Every invariant, action property and refinement of the passing runs has a theorem.

## Not modelled

- The test application `EchoApplication`, the generated mocks, rendering and the page.
- HTTP, the router and the websocket library; logging and configuration.
- The tiles of the map, which nothing consults, and `Position2D`'s own encoding, which nothing
  sends.
- The making and the text form of session IDs: they are taken to be distinct. Bone names, a
  placeholder that nothing calls, and the time in a header.
- `Close(ctx)` of an endpoint that has ended: it blocks once ctrlCh is full until its caller's
  ctx is done, and the program has no caller.
- Several rooms: `main` makes one, and `SimpleRoomManager` returns it.

Where docs/architecture/protocol.md describes what the code does not do, the model follows the
code, and no property says so. The differences met while modelling:

- :31-42 has a header of 13 bytes with a sessionID of 4; in the code the session ID has 16 bytes
  and the header 25.
- :91-97 lists no control subtype assign (7); of those it lists, the code ignores kick, ping,
  pong and error.
- :237-245 answers a join with Actor/Spawn and the cached actors; the code sends a new member
  nothing but the frames of the ticks.
- :259 and :271 use the actor updates of super users and send voice to all; the code parses the
  first, logs the second, and keeps and forwards neither.
- :292 keeps only the latest state of a player between ticks; the code keeps every input and
  applies each.

## What could follow

The composition takes an endpoint as a `Link` and the publish/subscribe service as what it does
to a queue. Putting `SimplePubSub` itself under both would show the skipped and the repeated
delivery of an overlapped Publish to the room; with one subscriber to each topic, as in
this program, it has no effect that `Withered` does not have.
