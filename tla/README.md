# The telephone lines of the call centre, in TLA+

This directory is a verification development of the repository's own server
code: `src/CallCenter/Xcenter`, the program that answers, bills, links and dials
the lines of a voice board, `src/CallCenter/xmaster`, the server that bills
them, and the event service of `src/Platform`. TLA+ modules model it, TLC checks
them on small instances, and TLAPS proves some of the properties for every
instance.

| file | what it is |
| --- | --- |
| `Channel.tla` | the lines of Xcenter with the talk and dialer services, the network thread, the sockets to the billing server, the voice board and the callers |
| `Master.tla`, `Account.tla` | xmaster; what it promises of the money |
| `EventService.tla`, `Alarm.tla` | the platform's timed events; what they promise |
| `Traffic.tla` | Xcenter's second thread: call backs and meetings |
| `Circuitry.tla` | the audio of a line: the board's callbacks, the pipes, the resets |
| `ChannelProofs.tla`, `LegProofs.tla`, `CallProofs.tla` | theorems about `Channel`: types, plug-in DLLs and the billing of the dialled leg; the order to dial, and lines that idle off hook; both legs of a call, their links, what is charged, the login |
| `EventProofs.tla`, `TrafficProofs.tla` | theorems about `EventService` (types, blocks, the refinement of `Alarm`) and `Traffic` |
| `MasterProofs.tla`, `LedgerProofs.tla` | theorems about `Master`: types and records; the refinement of `Account`, and the users' money |
| `CircuitryProofs.tla` | theorems about `Circuitry`: types, the counts of blocks, the buffers |
| `MC*.tla` and the `.cfg` files | the runs of TLC |
| `PROJECT.json` | components, runs, mutants, the map of definitions to source lines, hazards, findings, theorems |

    tlc -workers 2 -config Redial.cfg MCChannel.tla
    tlapm EventProofs.tla

## 1. The system

The repository holds several programs. Most of its files are vendored (`Include`,
`Lib`, `X264`), windows, or tables. What has logic of its own:

**Xcenter, lines** (`CallCenter/Xcenter/Channel.cpp`). One object per line of the
voice board. State: the function pointer `fcnp` (the state), `Reserved` (flags
private to a state), `ExpTimer`, `ExitCode`, `CallType`, `m_nTaskId` (the other
leg), `m_hInstance` and `m_hDllClosing` (the plug-in DLL and the one to unload),
the socket. Operations: one handler per state, called with one board event;
`OnRun`, which posts an expired timer, unloads the past DLL and turns to the
socket; `OnBindPacket`, `OnErrPacket`, `OnByePacket`; `Clone` and `Setup`, which
replace the object while the line stays. Hard: events that were queued for the
object before; the order of the board's, the server's and the other leg's events;
links written from both ends; DLL handles that move between objects. Correct if no
leg lives on without the other, costs only while it is in a call, is always
released, and never runs in unloaded code.

**Xcenter, services** (`xTalkChannel`, `xDialerChannel`, and others). Classes in
DLLs that derive from `CChannel` and override states. The talk service is the
caller's leg (welcome, keypad, choice of a line, call); the dialer service the leg
dialled for him. They interact through `m_nTaskId` (`SetLinker`, `KillLinker`) and
through `SsmPutUserEvent`: the event goes to the back of the board's one queue.

**Xcenter, network thread** (`Network.cpp`). `OnRun` alternates `RunPolling` (one
event from the board, to its line's handler) and `RunChannel` (each line's `OnRun`).
It owns the list of objects; `LookOutPhs`, `LookOutCh` find a free line.

**Xcenter, traffic** (`Traffic.cpp`). A second thread: calls users back and starts
meetings. State: a map keyed by time, which the network thread fills and this one
reads without a lock; it takes Network's lock, with a time limit, to act on what it
read. `PagerLibrary` loads the plug-in that calls the members of a meeting. Correct if a
promised call back is made once, every member of a meeting is called, and not again
without need, and nothing read before the lock is stale under it.

**Xcenter, connection to the billing server** (`Transfer.cpp`, `Common/connection.cpp`).
One non-blocking socket per line: connect (15 s), BIND, bound or refused; TALK starts the
billing; BYE, ERR, loss of the connection. Correct if the
line learns of every end.

**Xcenter, audio** (`Circuitry.cpp`, `Interlink.cpp`, `Neighbour.cpp`). An operator
hears and speaks to a line through two named pipes. Audio is recorded and played in
blocks, two at a time in each direction, which callbacks on the board's threads
count. Neighbour's thread and Network's both start and reset a circuit. Hard: a reset
that waits for the callbacks under the lock they want; two locks taken in both
orders. Correct if no buffer is freed that the board has, and a reset ends.

**xmaster** (`CallCenter/xmaster`). The billing server: one channel per connection,
run by one thread; BIND and TALK, the tariff, the units charged from the user's row
while the call runs, the record of the call, three time limits. Hard: calls of
one user that overlap, a connection that goes on from one service to the next, a round
that ends at the first channel that fails, a crash. Correct if users pay what the
records say, no unit is charged that cannot be paid, and every connection ends.

**Platform, events** (`Platform/KernelManager/EventService.cpp`,
`Platform/ComService/ServiceThread.cpp`). Events set, cancelled and ended by any thread
and called by the service's. Hard: a lock given up by hand, a tick count that wraps,
blocks that go round between two arrays and the threads. Correct if an event is called
once, not early and never after it was cancelled, and no block is in two places. None of
the repository's programs sets an event yet.

**Platform, transfers** (`TransferManager.cpp`, `Transfer.cpp`), **monitors**
(`Handshake*.cpp`), **NetServer** (`GameWorld/NetServer`): see section 6.

The rest of `components` in `PROJECT.json`: other plug-in and built-in services
(menus over the same engine, their states are prompts and keys), profiles and
settings (tables, constants here), packets, XML and codecs, the gateway, monitor,
phone and update programs, windows, the database front end, an older copy of the
platform, vendored code.

The `hazards` of `PROJECT.json` name, line by line, what in this code is hard to
test, and the properties that watch it.

## 2. Channel: how the model corresponds to the code

| TLA+ | code |
| --- | --- |
| `ch[c]` | the object `Network.m_pList[c]`: class, `fcnp`, `Reserved`, `ExpTimer`, `ExitCode`, `CallType`, `m_nTaskId`, `m_hInstance`, `m_hDllClosing` |
| `refs[c][s]` | `LoadLibrary` minus `FreeLibrary` that line `c` has called on DLL `s`: its share of the process-wide count |
| `sock[c]` | the line's connection: none, connecting, login (BIND sent), bound, talk (TALK sent, billed) |
| `asked[c]` | the call type in the BIND the server has before it: the service is chosen from it |
| `board[c]`, `playing[c]`, `queue` | the voice board: `SsmGetChState`, a prompt, the event queue |
| `turn` | where `CNetwork::OnRun` is: at the poll, or at line `turn` of `RunChannel` |
| `backs` | number of entries of `Traffic.m_pUsrBacks` |
| `stalePick`, `overlap` | history, not in the code: a line was taken, or began a call, before its last was over; see *The provisos* |
| `budget` | what the outside may still do: a bound, not in the code |

`RunPolling` is one action with one disjunct per handler (`bkIdle`, `seiConfm`,
`FeeLogin`, ...), each the whole handler with the initiation function it ends in
(`bkIdle_init`, `FeeLogin_init`, `HangUp` for `bkOffHk_init`, `bkFree_init` and
`ResetPcm_init`, ...). The classes are told apart where they override one. `OnRun(c)`
is one visit to a line: `Quiet`, `Connected`, `Dropped`, `Refused` (`OnErrPacket`),
`Bound` (`OnBindPacket`) or `NoService`, each with the timer and the DLL that
`CChannel::OnRun` sees to first. `CallBack` is `CTraffic::OnRunUsrBack`, on the
other thread: it can run where `CNetwork::OnRun` has let go of the lock.
`Arrive`, `GiveUp`, `FarHangup`, `Answer`, `Key`, `PlayEnd`, `Fault`, `Restore` are the
board and the people on the phones; `Tick` is time.

What is abstracted, and why that changes nothing the properties speak of:

- Prompt files exist and `PlayFile` succeeds, so a state that plays ends by `PlayEnd`.
- `#` stands for a number and its `#`; `*` stands also for an empty `#`, which the code
  treats the same. `EnableTrick` is off. `S_CALL_LOCKED` is merged with `PICKUPED`, which
  every state treats alike.
- `SsmSetKB(4)` before a hang-up changes nothing that `SsmHangup` does not.
- `HangUp` clears `Reserved`, which some release paths leave set; no state reached from
  there reads it before `bkIdle_init` clears it.
- Database look-ups succeed. The fee table gives `dialer` for CAHK (a leg to dial) and
  `talk` for CATK (a caller) and CABK (a call back).
- `Profiles.IsDenied` is left open: `LookOutPhs` may have no line for a caller (`NoLine`) though
  lines are free.
- `VerifyIncoming` is a setting: every call is let in, or none (`InLimit`). It is asked
  on `RxPhoNum` only, as in the code.
- The voice board (`ShCti`, not part of the repository's source) is modelled from its use:
  one first-in-first-out queue, `SsmHangup` on a line that is on hook posts nothing,
  `SsmPickup` on a line that is on hook succeeds.
- The billing server may bind, refuse or drop at any moment, or stay silent.
- A release build: `ASSERT` does nothing. One run states an assertion as a property.

## 3. The other modules

**Master.** `chan[c]` is the `CChannel` of connection `c`: its age in whole seconds, its
tariff, its record and when it has paid for; `list` and `todo` the order of a round and
what is left of it; `purse` the two balances in a user's row; `recs` the call records, with
the amount in memory and the amount saved; `inbox[c]` the packets under way.
`Wake` accepts a connection and begins a round, `Visit(c)` is one channel's `OnRun` (what it
reads, the time limits, the charge), a channel that says FALSE ends the round. `Stop` is
`CNetwork::Disconnect`, `Crash` the end of the process. Left out: fractions of the money
unit, GetTickCount's wrap, `TerminateThread`, database errors other than a missing row and a
failed `WriteUserInfo`. A line of Xcenter is modelled as it behaves: BIND first, TALK
or a new BIND only when bound, nothing after ERR. The thread is away for at most `Lag` seconds.

`Account` is what this promises, without channels, packets, time or rows: a bill per call, a
user's credit; a unit of a running call is taken only if it is there; what a call has come to
is kept when it ends, and a bill falls back to that when the server fails. The mapping takes the
records as bills, the sum of both balances as credit, and calls a bill open while a
channel that bills has it (`Accounts` in `Master`).

A bill may be opened again. `CMailChannel::Next_RcvFnOper` (`xMailChannel/channelmail.cpp`) sends
BIND and TALK back to back. If the BIND is refused because the caller cannot pay, the old call's
record has been completed and stays with the channel, and the TALK that follows
(`OnTalkPacket`, `Channel.cpp:221`) starts the time anew on it: the old price is overwritten, the
difference given back, and a crash brings the old price back. The attempt to prove that a crash
never leaves a record above what was taken came upon this; the claim was wrong and has been replaced.

**EventService.** `active` and `release` are the two arrays, `memory` what a block holds,
`hand[t]` what thread `t` is doing and the block it has taken. A step is what a
thread does while it holds the section; a procedure runs between two steps. `_ResetEvent_`
unlocks the section by hand and its `CAutoLock` unlocks it again: the system leaves open
what the section is after that, so it stays sound or is `stuck`. Left out: a procedure
that itself ends events or stops the service, and two threads inside `CleanEvent`
at once. Events are only set with a due time up to `Horizon`, where the model's time ends.

`Alarm` is the promise: events wait, are taken when due, oldest first, are called once; a
cancelled one is never called. It says what a wrap of the clock allows, no more: an event
may be early, or a younger one first, only if a multiple of `Wrap` lies between.

**Traffic.** Both threads, Network's lock, and the map. `AddUsrBack` is three steps (the key,
the link into the map, the packet) since the reader takes no lock for the map; `Read`,
`Lock` or `GiveUp`, and `Dial` are `OnRunUsrBack`; `Requery`, `CallMember`, `NoLine`, `LastRow`,
`ReadThrows`, `UpdateThrows` are `OnRunMeeting`. Its call is a line seized (`TakeLine`), then
`PagerLibrary`, which may find no plug-in (`missed`, at most `Missing` times a member), then the
row; the database may throw at the query, at a field before or after the line is seized, or at
the update, `Faults` times in all. A line seized for nobody comes back when its object's login
ends. State "2", which the plug-in sets when the member answers, is not told from "1". The
lock's owner may keep it for 250 ms, `Slow` times.
`LagAssumption` (a thread is inside `AddUsrBack` for less time than a call back waits) stands for
`CallBackOut`, which is seconds, against a few instructions. Left out: start and stop of the
thread, the debug menu.

**Circuitry.** One circuit and one line. `io[d]` is the OVERLAPPED of a direction as the code
uses it: `n` is Offset, `pend` is Internal = STATUS_PENDING, `off` is OffsetHigh = -1, `ev` the
event. `board[d]` is what the board really has. A visit of Neighbour's thread goes through
`packet`, `chain`, `record`, `play`; `ReplayWith` is split where another thread can see it
(Internal set, block given, counted, Internal cleared); a callback takes the lock (`Locked`) or
finds Internal set and goes on without (`Unlocked`, `Counted`, `Noted`). Of the board it is
assumed that it calls back once for every block, each direction one at a time, on a thread of
its own, and takes no block for a line on hook. An operator binds before he dials. Where
memory is used that was freed, the model goes to one last state, `Undefined`, and says no
more: a busy operator rung or dialled for again while blocks are under way, and
`KillNetwork` on a circuit that has gone.

## 4. The runs

The runs of `Channel`, all but `login`, are on a board of two lines, the smallest on which a caller, the leg dialled for him and
a seized line that is not yet theirs can meet. Line 1 is where calls come in, line 2 can
be seized. Bounds: `Calls`, `Keys`, `Faults` and `Refusals` count what the outside does;
`QueueCap` stops only the outside from posting, never a handler, so the queue grows
beyond it whenever the code makes it grow.

| run | setting | states | what it asks |
| --- | --- | --- | --- |
| `redial` | 1 call, 4 keys, 0574 numbers too | 1.4 M | The caller dials, abandons the leg with `*` and dials again, while the first leg may still log in, dial, talk or be released: *LegsAgree*, *BilledLeg* |
| `glare` | 2 calls, 1 key, line 2 both takes calls and is seized | 3.4 M | A call comes in on the line being seized: *LinksMutual*, *OrderedLineWillDial*, *OffHookLineMoves*, *BilledOnlyInCall* |
| `faults` | 1 call, 1 key, 1 trunk fault, 1 refusal | 1.9 M | *TypeOK*, *CodeLoaded*, *HandlesHeld*, *LoginGuarded* when trunks fail and calls are refused, with call backs on the other thread |
| `serve` | `FairSpec`, 1 call, 2 keys, 0574 numbers too | 157 k | *DialEnds*, *OutLegReleased*, *AbandonedLegEnds* |
| `login` | `FairSpec`, one line, 2 calls, 1 key, 1 fault, 1 refusal, calls with a number refused | 202 k | *LoginEnds*, *CallDealtWith* when events of the call before are still queued |
| `assert` | 2 calls, one on each line | | a violation: see *Finding* |
| `ledger` | 2 connections, 2 users (one on the black list, one with the call-back fee code), 3 packets, a stop, a crash | 1.2 M | *Conserved*, *Billable*, *KeepsAccount* |
| `drops` | `FairSpec`, 2 connections, a user without a row, 2 packets, an exception | 68 k | *ConnectionEnds* |
| `promise` | 2 callers, 2 blocks, 3 events, clock modulo 3, a reset, a throw, a stop | 2.7 M | *OnePlace*, *KeepsPromise* |
| `ring` | `FairSpec`, 1 caller, 2 events, no reset | 430 k | *EventsRing*, *StopReturns* |
| `callbacks` | `FairSpec`, 3 requests (one denied), 2 members, 1 line, 1 slow lock, 1 fault, the plug-in missing once a member | 406 k | *ReadHolds*, *OwedOnce*, *CalledOnce*, *CallBackMade*, *MeetingCalled* |
| `circuit` | `FairSpec`, 2 blocks each way, 1 operator, 1 dial, 1 ring, 1 call | 1.2 M | *BlocksCounted*, *BuffersHeld*, *LockGivenBack* |

Four keys are needed for the second dialling (number, `*`, number, `*`), one key for the
call that meets a seizure or a fault. Every action and every handler fires in these
runs. One fault is enough to put an UNAVAIL or RESET and the STANDBY of the return
behind any other event.

The properties:

- **LegsAgree**: a line dialled for a caller belongs to a caller who waits or talks,
  until it is released; if the link is gone, the PENDING that will release it is queued.
- **LinksMutual**: the line a line is linked with is linked with it.
- **BilledLeg**: a dialled leg that talks is billed, or the end of the billing is queued
  for it. **BilledOnlyInCall**: the server charges for a line only in a call.
- **OrderedLineWillDial**, **OffHookLineMoves**, **LoginGuarded**: no order is lost, and no
  line stays seized, off hook or in the login with nothing on its way to move it. The first
  needs no proviso.
- **CodeLoaded**, **HandlesHeld**: no chain of `Clone`, `Setup` and `OnRun` unloads the code
  an object runs in, nor frees a load another object counts on.
- **LoginEnds**, **CallDealtWith**, **DialEnds**, **OutLegReleased**, **AbandonedLegEnds**.
- **Conserved**: what was taken from a user is what his records say; *KeepsAccount*: `Master`
  implements `Account`. Two provisos, both the code's: money given back goes to the advance
  payment only, so a user without one may lose it; after a crash a record says what was
  last saved of it, so *Conserved* speaks of the time before one and *KeepsAccount* says what
  a crash leaves. *Conserved* is checked with callers who pay for themselves and a database
  that does not fail in the middle of `AddExpense`.
- **Billable**: a channel that bills has a tariff and a record no other channel bills to.
- **ConnectionEnds**: every connection leaves the list, whatever happens to those before it.
- **OnePlace**: a block of an event is in one array, one thread's hand, or lost (the code
  loses those whose procedure is NULL or throws).
- **KeepsPromise**: `EventService` implements `Alarm`. **EventsRing**, **StopReturns**.
- **ReadHolds**: what CTraffic's thread read without the lock holds when it has it.
  **OwedOnce**: who was promised a call back has one entry, or has been called, once.
  **CallBackMade**: with a number `LookOutPhs` refuses for good in the map, those behind it may
  wait for ever, so it stops there.
- **CalledOnce**: `PagerLibrary` is asked to call a member once for each failed update of his
  row and once for the update that succeeds. **MeetingCalled**: every member is called in the
  end, but for one `PagerLibrary` has found no plug-in for: his row is marked all the same and he is
  never called (*Other behaviour*). Errors are bounded, so it does not speak of a fee number that stays NULL,
  which stops every round at the same row.
- **BlocksCounted**: Offset is the number of blocks yet to come back and the event says
  whether there are none; for recording always, for playing as long as no callback has taken
  the Internal of `ReplayWith` for that of a reset (`torn`): then it counts without the
  lock, in the middle of the other thread's `Offset++`, and TLC finds the count lost.
- **BuffersHeld**: no buffer is freed that the board has. **LockGivenBack**: a reset under
  Neighbour's lock ends, unless the two locks are taken in both orders (`Crossed`), which the
  code allows: dialling takes Neighbour's and then Network's, ringing and hanging up Network's
  and then Neighbour's.

*Bounds.* `ledger`: two connections are what two calls of one user need; three packets are
BIND, TALK and a BIND to the next service on one of them, or calls on both; five seconds reach
`MaxLength`, two units of one tariff and the fixed fee of the other. `promise`: the clock wraps once before `Horizon`; three
events and two blocks make a block be used again and the array grow past one. `callbacks`:
three requests in three seconds fill a key that is taken and leave one behind a denied number;
keys beyond `MaxTime` are not given, and every key up to it comes due. Two
members are what a round that ends in the middle needs, and one is called and one missed in either
order; one line is what call backs, members and others then compete for. `circuit`: two blocks each way are the code's own
`MAX_RECLST` and `MAX_PLAYLST`; one dial, one ring and one call in are enough for each pair
of threads to meet and for each of the misuses; every action fires.

*Deadlock* is not checked in `promise`, where a section unlocked twice may be stuck for good,
nor in `circuit`, where the crossed locks stop both threads and `Undefined` has no next step.

*The provisos.* The events of a line do not say which call they belong to, so a call that begins
before the last is over may take that one's events for its own. Two history variables tell such
behaviours apart. `LookOutCh` takes a line the board reports on hook whose object has no DLL. It does
not ask whether that object has seen the end of its last call: whether its state is bkIdle, its
connection closed and none of its events queued (`Leftover`). `stalePick` remembers that a line was
taken of which something was left, and *LegsAgree*, *LinksMutual*, *OffHookLineMoves*,
*LoginGuarded*, *LoginEnds* and *CallDealtWith* are stated for the other behaviours. Without the
proviso, in part with more calls than the runs have:

- A STANDBY of the past call makes the object idle again and undoes its half of the link
  (*LinksMutual*; TLC finds this one in the runs).
- A caller gives up while his line logs in, and the line is taken for another caller while a FeeConn
  and that STANDBY are still queued. An expired timer has it log in again, the new call's dialler is
  bound, the old FeeConn makes it dial, and it passes the STANDBY on to its caller. His line is then
  idle, off hook and talking with nothing queued for it (*OffHookLineMoves*; two lines, three calls).
- The past call's connection is still logging in (`bkIdle_init` hands it to the idle object). The
  server binds it after the line was taken, and a talk service waits on a line dialled for a caller
  (*LegsAgree*; three lines).
- The FeeConn of the past call stops the timer of the next one's login before that has a connection,
  and no event is left to make it try again (*LoginGuarded*; two lines, four calls).

*BilledOnlyInCall* needs more, since a call that comes *in* may also find the last one's events, and
no line was taken then: several callers come and go before the thread has dealt with the first, the
RINGING and TALKING posted for one of them are taken for another's, and `RcvTalk_init` bills a line
whose STANDBY waits in the queue (two lines, six calls). `overlap` remembers that a line began a call, called or taken,
when something was left of its last (`Overlaps`: a prompt that still plays counts too).

All but the first were met while proving: the properties had been stated without the proviso, or
with the weaker one, and a connection had not counted as left over. TLC confirms them step by step.
No comment or document promises otherwise, so they are hazards and not findings.

*Other behaviour the runs show, which no text of the repository denies*: with the
other leg gone, `RcvUlTalk_cmplt` takes the caller's own PENDING, FeeDisc or UNAVAIL for
the cue to prompt again (so *BilledOnlyInCall* is stated without trunk faults); an object
that idles after a STANDBY in FeeLogin keeps its open connection, and if the server then
binds it, a service object waits in FeeLogin on a line that is on hook; a stale FeeConn stops
the timer of a login that has begun anew; an object released while its line is on hook or
out of service waits for a STANDBY that does not come, and until the next call the line is
not dialled on (so *AbandonedLegEnds* is stated without trunk faults); the promise to call
back is lost when the caller hangs up during the prompt. What rescues the second and third is
the server's limit on connections that are not billed, see *Fairness*.

In `callbacks`, where `xmeetchannel.dll` does not load or has no `PagerFrom`, `PagerLibrary` returns
NULL, `OnRunMeeting` does not look, and the row is set to '1' (`Traffic.cpp:273-277`). The user is then
shown 呼叫, calling (`Xuser32/XinnerJoin/DlgUserMeeting.cpp:245`), nobody has called the member, and
no query finds him again: TLC shows it with `state[m] = "1" => rung[m] > 0`, so the properties count
these members as `missed`. The line seized for him stays off hook until its login ends.

**Fairness** (`FairSpec`). The one thread of `CNetwork::OnRun` never stops: it polls and it
visits each line in its turn (weak fairness of `NoEvent`, `RunPolling` and `OnRun(c)`; what a
visit finds on the socket stays open). Time passes and prompts end (`Tick`, `PlayEnd`).
`NavigatesOrEnds`: no connection stays for ever without a TalkPacket, since
`CTransfer::OnRun` gives it 15 s to be made and the `CChannel::OnRun` of xmaster drops what is
not billed within `MaxReadyOut` seconds, bound or not; it supposes that the end of a
connection is seen at both ends. It is needed: without it TLC finds *LoginEnds* violated by
the stale FeeConn above, and *DialEnds* by a number that starts with 0574, which
`WaitDial_init` does not time. Nothing is asked of the callers, the network or `CTraffic`.

The others. `drops`: the one thread of xmaster wakes and ends its round; time passes however
often it wakes (strong fairness of `Tick`, which a thread that is due may disable). `ring`:
every thread runs, a procedure ends, time passes (weak fairness; no resets, since the section
may be stuck after one). `callbacks`: both threads run, calls end, time passes; whoever waits for
Network's mutex gets it now and then though the other takes it again and again (strong
fairness of `Lock` and of the meeting's call: a kernel mutex serves its waiters). `circuit`:
Neighbour's thread finishes a visit it has begun, Network's thread what it has begun, and
the board calls back for every block; nothing obliges an operator, a caller or a new visit.

**Finding** (`assert`). `CChannel::Clone` asserts `pParent->m_hDllClosing == NULL`
(`Channel.cpp:295`). The run has two callers and no fault. Line 1 is bound; while its FeeConn
waits behind an event of line 2, both callers give up and the connection is lost. The FeeConn
makes the new object log in again, a second bind leaves the first DLL in `m_hDllClosing`, and
the STANDBY of line 1's own caller idles and clones the object at the next poll, before
`CChannel::OnRun` has freed the DLL. A debug build stops there; a release build forgets the
handle and the DLL stays loaded. *HandlesHeld* is the other direction, and holds: never too few loads.

**Mutants.** Each property has one in `PROJECT.json`: a change of one mapped definition that
a slip in the code could be, with which TLC finds that property violated.

## 5. Proofs

`ChannelProofs` proves, for every number of lines, every choice of inbound and trunk lines,
every bound and setting (`LinesAssumption`, `SettingsAssumption`):

- `TypeCorrect`: `Spec => []TypeOK`. `TypeOK` is inductive. It says, beyond shapes, that a
  task is always a line of the board, and that a call back is never made that is not owed.
- `HandlesStayHeld`: `Spec => []HandlesHeld`.
- `CodeStaysLoaded`: `Spec => []CodeLoaded`.

The argument for the last two: neither is inductive, since an object of a service
class must be known to hold the DLL of that class and of no other. `DllInv` adds to `TypeOK` and
`HandlesHeld` that an object's `lib` is that of its class (`MadeByItsDll`). Handlers are
then treated alike: `HandledWell` says that a handler keeps the types and, of each line,
either leaves its class and handles alone or leaves it a `NewObject` whose `closing` is the
old `lib` (`Kept`). There is one lemma for each initiation function and each
handler, and `HandleWell` puts them together; `PollDlls`, `OnRunDlls` and `NextDlls` do the
arithmetic of loads and names.

It also proves, from the same assumptions,

- `DialledLegBilled`: `Spec => []BilledLeg`. It needs no bound and no proviso: trunk faults,
  refusals and stale line picks are all in.

*BilledLeg* says nothing of a leg before it talks, so it is not inductive. `BillInv` follows
the leg from the moment `Bound` makes a dialer object (`Covered`): while it logs in, dials
or talks (`DialStates`) its connection is bound or billed, or the end of the billing
(`FeeEnds`) is in the queue; when it talks, bound is not enough. The proof has three
parts. The queue: what a handler finds behind the event it polls is still there when it has
posted its own (`Waiting`), so an end of billing is not lost (`EndWaits`). The other
lines: a handler changes neither class nor state nor connection of any line but its own
(`Aside`), although KillLinker and SetLinker write the other leg's object. The line itself:
an event that ends the billing releases the leg, and any other keeps the connection and,
when the leg starts to talk, has it billed (`DialStep`); `HandleModest` puts the handlers
together. Outside the poll, `OnRunBill` shows that each way to lose the connection queues
the event for it.

`LegProofs` proves, from the same assumptions,

- `OrderReachesLine`: `Spec => []OrderedLineWillDial`, whenever lines are taken;
- `OffHookMoves`: `Spec => []OffHookLineMoves`.

What a line waits for is in the queue, and where in the queue matters. `LegInv` says of each line:

- `Ordered`: an idle line with a link has its PICKUPED queued. A poll of that PICKUPED ends the
  idling; any other poll that leaves the line idle clears the link. This part stands by itself.
- `Wakes`: a line that is off hook has behind every STANDBY in the queue what took it there, a
  PENDING, RxPhoNum or PICKUPED, or a fault. So a STANDBY that makes the object idle leaves what will
  move it, and `Moves`, of which *OffHookLineMoves* is a consequence, survives `bkIdle_init`.
- `Leg`: a linked line that is no caller's is off hook and has no STANDBY queued, or has a fault
  before any STANDBY, and a fault releases it. Therefore no dialler passes a STANDBY on
  (`NoneForwarded`): all that `Wakes` of the *caller's* line asks of the dialled one.
- `Dialled`, `Classed`: the server binds an ordered line as a dialler, a caller's leg as a caller's,
  and an idle object has no class. A line is linked only when `Leftover` is false, which is where `Leg`
  begins to hold and where the proviso is used.

Each handler does one of four things with its line (`Own`, `CallsOut`): it releases it (`Leaves`),
makes it idle after a STANDBY or an event that means nothing to an idle line (`Idles`), goes on
(`GoesOn`, on a fault or a STANDBY only if it is a caller's), or takes a line for its caller. `HandleOutcome`
proves that handler by handler; `LeavesLeg`, `IdlesLeg`, `GoesOnLeg`, `CallsOutLeg` and `ApartLeg` (the
lines that are not polled) carry the invariant through each.

`CallProofs` proves, from the same assumptions, for behaviours without trunk faults and without
`overlap`,

- `LegsStayTogether`: `LegsAgree`;
- `LinksStayMutual`: `LinksMutual`;
- `ChargedOnlyInCall`: `BilledOnlyInCall`;
- `LoginStaysGuarded`: `LoginGuarded`.

The four are one theorem, `CallsHold`, about one invariant. That a caller who talks has no old STANDBY
behind him, that his link is the one he made, and that his login has something to end it depend on
each other, and all of them on the order of a line's events in the queue (`Ahead`). `CallInv` adds to
`LegInv`, for each line (`LineInv`):

- `Sound`: what class, state, kind of call and connection say of each other;
- `Linking`: who may have a link, and that a dialled leg is off hook until released;
- `Closing`: behind a STANDBY comes nothing of another call, so a STANDBY ends what it finds;
- `InCall`: a line that talks is not on hook, and one that is charged for talks;
- `Coming`: a call that comes in finds nothing of the last one;
- `Login`: what may still come for a line that logs in. A talk service whose connection logs in again
  loses it before its RINGING (`EndsFirst`);
- `Picked`: a line picked up to dial, or by `rcvMFsig` for a call that is gone already;
- `Guarded`: a login without connection and timer has an event to come, and no FeeConn that
  would be taken for that of a new connection;

and for two lines `Paired` and `Mutual`. The proof is cut the other way than in `LegProofs`.
First the queue: `Polls` and `Gets` say, for one line and nothing else, what a step takes from the
queue and puts there, and in which order; `PollsView` and `GetsView` get this from the sequence.
Then one lemma for each thing a handler can do to its own line (the `...Line` lemmas), which
sees only that. Then the steps: each handler is one of these for its line, posts at most a PENDING
to the other leg, and lets the links mutual.

`EventProofs` proves, for every set of threads and blocks, every `Wrap` and all bounds,

- `TypeCorrect`: `Spec => []TypeOK`, which says that a thread holds a block exactly
  while it is at `OnEventBlock`;
- `BlocksInOnePlace`: `Spec => []OnePlace`. It is inductive with `TypeOK`; the lemmas on
  `Without`, `Append` and `Elements` do the work, and each action moves one block;
- `PromiseKept`: `Spec => KeepsPromise`, the refinement of `Alarm`. The invariant is `Numbered`:
  blocks in the active array or in a hand hold events already set, each event in one
  block, numbered in the array in the order they were set, with a stamp that is the time due
  modulo `Wrap` (`StampIsDue`), at most `Wrap - 1` after the time they were set. `CountsWrap` and
  `Remainder` turn the code's comparison of two remainders into what `Alarm` allows: the time is
  due, or a multiple of `Wrap` lies between.

`TrafficProofs` proves, for any requests, rows, members and lines and `Interval > Lag`
(`LagAssumption`),

- `TrafficTypes`: `Spec => []TypeOK`;
- `ReadingIsSafe`: `Spec => []ReadHolds`. Its invariant `IInv` bounds how long an entry may be
  linked and empty by the time `AddUsrBack` has been away, so that it is not yet due; an entry that
  is due is therefore filled, and only CTraffic's thread removes it;
- `CallerOwedOnce`: `Spec => []OwedOnce`: a request that the network thread has in hand is in
  no entry, and one that was called back is in none either;
- `MemberCalledOnce`: `Spec => []CalledOnce`: `PagerLibrary` was asked to call a member as
  often as the update of his row has failed, and once more if the row is marked, whether it found
  the plug-in or not (`PagerCounts`), and whatever threw before it was asked. `TInv` adds to `TypeOK` that
  the record set holds members not called yet, each once (`Rows`: a round that ends in the middle
  leaves the rest of a query that is still true), and that nothing is left of an entry that
  AddUsrBack is done with (`Out`).

The last two need `RowsAssumption`: a name is a caller's or a member's, not both (`rung` counts the calls
of both), and a table has finitely many rows.

`CircuitryProofs` proves, for any number of blocks in each direction, operators, dials, rings and
calls,

- `CircuitryTypes`: `Spec => []TypeOK`;
- `CountIsTrue`: `Spec => []BlocksCounted`;
- `BuffersStay`: `Spec => []BuffersHeld`.

`CInv` has four parts for each direction beside the types. A callback goes on without the lock only
while someone resets (`Apart`). Once the board has ReplayWith's block, that block is still there to be
counted (`Begins`). The board has a block only if there is a buffer (`Held`). The count is that of the
blocks due (`Count`), where `Due` leaves out the block ReplayWith has given and not yet counted. All
but the first are conditional on `Sure`: if a callback has taken ReplayWith for a reset (`torn`, a data race), nothing is said of play any more. `Alive` is that whoever visits or rang a circuit finds it.

`MasterProofs` proves, under every fault, stop and crash,

- `MasterTypes`: `Spec => []TypeOK`;
- `BillsOwnRecord`: `Spec => []Billable`.

`MInv` adds to `TypeOK` that a channel has a tariff and a record as soon as it is connected, its client
knows that it is bound, or a TALK is on its way (`Bought`: a line talks only after an answer); that
a record is one channel's, whether it bills or not (`Own`); and that a round visits who is listed
(`Visits`, for `Remove`). A visit is a chain of functions on a *world*, the channel with its socket,
the users and the records; `Sound` is kept by each link of the chain, so there is one lemma for
`WriteExpense`, `CompleteTask`, `Announced`, `LookedUp`, `AddExpense`, `Accepted` and so on, and the
actions put them together (`BindStep`, `TalkStep`, `OnTimeStep`, `VisitStep`).

`LedgerProofs` proves

- `LedgerKeepsAccount`: `ASSUME Plain PROVE Spec => KeepsAccount`, the refinement of `Account`;
- `MoneyIsConserved`: `ASSUME Plain PROVE Spec => []Conserved`.

`Plain` says that the database does not fail in the middle of a write, that the calls of one line are
at one user's expense, and that a caller's are at his own. Each is needed, and the hazards name the
lines: a failed `WriteUserInfo` leaves a record without its money; a BIND of type CATK with a payer
other than the caller replaces the user's row before the old task is completed. The instance of
`ledger` satisfies it. `LInv` adds to `MInv`: the row a channel holds and the user of its record
are who bears the expense of the line (`Mine`); a connection that is not yet accepted has a new
channel (`Unused`); a record whose price is not saved is a running call's (`Saved`, what makes a crash a
step of `Account`). A visit begins untouched (`Begun`), and ends either with what c was billed closed and
saved (`Settled`, `Over`: Account's *Finish*, or *Open*, or nothing) or open and paid for (`Going`: *Run*).
`Balanced` is the arithmetic of the two balances, `Written` and `Completed` that of the record and the
row together, `OpenAfter` that no other bill opens or closes. *Conserved* adds up
what these steps do (`Even`). A bill is the sum over the records of one user (`Costs`), so the proof needs
what happens to a sum when one term changes (`SumChanges`) or one is added (`SumAdds`). The
library's induction theorems are out of the provers' reach, but its statement that every set of
numbers has a least one is not: `AllNumbers` is induction said of a set, `SumsExist` that there is a
function of sums as the fold of the community modules chooses one, `SumTakesOut` that any index may be taken
out first. `Even` is an inequality for a user whose advance payment is used up.

Only model-checked: *LegsAgree*, *LinksMutual* and *LoginGuarded* for calls that come in early when no
line is taken early (`redial`, `glare`, `faults`), and *LoginGuarded* with trunk faults (`faults`);
that the code breaks the assertion of `Clone`; and all liveness, which the prover does not reach.

## 6. Not modelled, and the plan

Left, in this order:

1. Proofs: the theorems of `CallProofs` under `stalePick` in place of `overlap`, and with trunk
   faults. A call that comes in early needs an invariant on the events of two calls in one queue.
2. The platform's transfers (`TransferManager`, `Transfer`): references held by pending operations
   of completion ports, and the end of a transfer while one completes. None of the repository's
   programs uses them yet.
3. `Channel` and `Master` composed, with the lines in place of `Master`'s client and the server in place of
   the free one of `Channel`. The two share only the order of packets on a connection, which each
   module already keeps; the product of their states is out of TLC's reach.
4. The other services of Xcenter: menus of the same shape as the talk service, whose states are
   prompts and keys.

Not modelled: *NetServer*, a prototype of an echo server. The code that would use its sessions is
commented out, the maps of its handlers are changed by several threads without a lock (so that
nearly every step is a data race), and the task that should empty its queue returns at once. The
*monitor links* only send what the lines do. *DataCenter* is a front end of a database. *Windows*, XML,
codecs, packet formats, tables of settings: sequential, or input and output. The gateway, monitor,
phone and update programs repeat the transfer classes of Xcenter or are mostly windows. Vendored code is
most of the repository's lines.
