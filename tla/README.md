# nginx-cache-turbo-module: a verification development

This directory holds TLA+ models of `src/src/`, an nginx module that caches
responses in shared memory ("L1"), optionally backed by Redis or memcached
("L2"), with single-flight regeneration, stale serving and a circuit breaker.
The models are translated from the C code; TLC checks them on small instances
and TLAPS proves the most important invariants for every value of the constants.
`shm.c`, `access.c`, `filters.c`, `redis.c`, `purge.c` and so on below stand for
`src/src/ngx_http_cache_turbo_{shm,access,filters,redis,purge}.c`.

To check: `tlc -workers 2 -config Breaker_safety.cfg MCBreaker` and so on for
each configuration (`PROJECT.json` names the module of each), and
`tlapm BreakerProofs.tla` and so on for each module named `...Proofs`
(between half a minute and ten minutes each).

## 1. The system

nginx runs several worker processes, each a single-threaded event loop. They
share one memory zone per `cache_turbo_zone`. A request runs through handlers of
its worker: the access handler (which may be re-entered after an L2 answer or a
poll timer), the header and body filters as the response passes, and a pool
cleanup when it ends for any reason. Workers interact only through the zone -
under its mutex, except for the breaker's words and the reference counts, which
are atomics - and through the L2 backends.

| Component | State | Operations | Hard behaviour | What makes it correct |
|---|---|---|---|---|
| **Circuit breaker** (shm.c 2870-3578; gate in access.c; reports in filters.c) | two packed atomic words (state and generation; probe generation and stamp), three plain words (deadline, failures, window start), `ctx->brk_probe` | `breaker_state()`: consult, promote OPEN to HALF_OPEN, reclaim an expired probe lease; `breaker_record()`: report success, failure or abandonment | lock-free, two words that cannot be changed together, worker kills, late reports, wall clock | one probe per lease, only that probe's success closes, a live lease is not taken, HALF_OPEN and OPEN are left again |
| **Single flight** (shm.c 1860-2870; access.c; filters.c) | the key's node: kind, body and its windows, miss counter, lease (`refreshing`, `lock_until`, `refresh_owner`), negative-L2 memo; `owner_seq`; in the request: owner tokens, winner flag, wait deadline | lookup, `serve_stale`, `count_miss`, `claim`, `unstub`, `freshen`, `store`/`store_if`, `set_l2_neg`; cold wait and poll; L2 GET and lock | handler re-entry, internal redirects, leases that expire under a slow holder, L2 answers that arrive late, worker death | one unexpired lease, held until its deadline; waiters are let go; pages not replaced by older ones nor by errors |
| **Reference-counted bodies** (shm.c 440-660, store) | reference count in front of each body, `used_bytes` | acquire, release, store with or without a pin, roll back, free with a node | release without the mutex, free with it; reuse of addresses; deaths | exact counts, no use after free, one free, no leak |
| **Segmented LRU** (shm.c 900-1660) | two queues, node segment and flags, four counters | insert, refresh, touch and promote, demote to the cap, evict (sparing stale-if-error entries in an outage), purge in batches | loops under the mutex, budgets, purge that gives the mutex up | queues and counters agree; protection earned; probation first; purge complete and finite |
| **Admission sketch** (shm.c 663-900) | count-min rows, epoch and cursor | bump, estimate, halve incrementally | halving spread over calls | estimates bounded by counts and by halving |
| **Request path** (access.c; header filter; `warm_one()` in module.c) | request context: phase, armed copies, slots | eligibility, lookup with the request's own bounds, L2, `only-if-cached`, breaker gate, `min_uses`, cold path, stale-if-error and breaker-only serving, background refresh | the handler runs again from the top after every park; breaker, L1 and L2 move in between | a copy is served only to a request that may have it; breaker-only copies only when the origin is down; a probe reaches the origin; slots come back; every request ends |
| **Capture and store windows** (filters.c, swr.c) | copied headers, gathered pieces, flags | judge the headers, gather the body, compute the windows, store; freshen on a 304 | the body comes in pieces, between which time passes and the entry changes; a piece too many or in a file | what is stored is whole, acceptable to peers, and not what an Authorization or a cookie forbids |
| **Auto-Vary** (vary.c, access.c, filters.c, purge.c) | markers with a generation in L1 and L2, pages under variant keys | look the marker up, ask L2 for it, revalidate it, two-step store (variant, then marker), PURGE | two nodes that cannot change together; a request parked twice; purges while answers are on the way | a client gets its own class; a marker that is due is asked for; purged pages stay away; late answers are dropped |
| **L2 clients** (redis.c, memcached.c) | per-worker operations, keepalive buckets, backoff memo, parked requests | GET, lock, pipelined commands, preamble, drain, park and resume, frame replies | partial replies, connections closed by either side, timeouts, requests that go away | an operation hears its own reply, a connection has one owner, a parked request is resumed once and in time |
| **Tag purge** (purge.c, redis.c, admin.c) | tag sets in Redis, pending bits and counters in L1 | index, heal, SSCAN page by page, UNLINK, SREM, suspend and resume; SCAN for a purge of all | stores during the walk, lost commands, an admin request that goes away | a purge that says complete deleted what it scanned, one that does not leaves the rest for a retry, and it ends |
| **Admin, statistics** (admin.c) | none of its own | dispatch purges (with tag purge); format counters | the admin request is suspended over a walk | see tag purge |
| **SWR dice, autotune** (swr.c, autotune.c) | hit and miss totals, the tuned values | integer arithmetic | overflow and zero | values stay in their limits |
| **Blob format** (blob.c) | none | encode, validate, decode | lengths that L2 handed back | what validates decodes within its bounds |
| **Matching, presets** (match.c, presets.c) | static tables | string predicates | - | - |
| **Configuration, glue, background warming** (conf.c, module.c) | configuration | merge, hash keys, subrequests | - | - |
| **Test probes** (probe.c, testalloc.h) | - | test builds only | - | - |

Interaction: the access handler consults the breaker, looks the key up, waits
for or claims the lease, asks L2 and lets the request through; the filters
capture the response, report to the breaker, store (one new body, its old one
released, victims evicted), and the cleanup ends lease, references and probe.

`PROJECT.json` lists the hazards of this code at their lines, and the properties
aimed at each.

## 2. Modules

| Module | Models |
|---|---|
| `AbstractBreaker` | what the breaker promises: a state diagram with numbered leases |
| `Breaker` | `breaker_state()` and `breaker_record()`, one action per atomic access |
| `SingleFlight` | one key through store, access handler and filters |
| `BlobRefs` | bodies, their counts and addresses |
| `LruZone` | queues, eviction, purge of a zone |
| `L2Clients` | one worker's Redis and memcached operations, pool, parked requests |
| `Framing` | how the clients find the end of a reply that comes in pieces |
| `Loops` | a step taken a number of times, for the bounded loops of `LruZone` and `Framing`, with the lemmas on it |
| `TagPurge` | the tag index and purges by tag, by variant tree and of everything |
| `VaryMarkers` | auto-Vary markers, generations and variants on two nodes over one L2 |
| `RequestPath` | the phases of one request, over a copy, a breaker and a clock that move |
| `StorePolicy` | what becomes of an answer of the origin: gates, pieces, windows, 304 |
| `MCBreaker`, `MCSingleFlight`, `MCL2Clients`, `MCTagPurge`, `MCVaryMarkers`, `MCRequestPath`, `MCStorePolicy`, `MCFraming` | instances for TLC: symmetry sets, request kinds, locations, headers, reply streams |
| `MCParts` | one instance of `BlobRefs`, `StorePolicy`, `LruZone` and `Framing` |
| `BreakerProofs`, `SingleFlightProofs`, `RequestPathProofs`, `TagPurgeProofs`, `VaryMarkersProofs` | theorems about the module named, with their proofs |
| `L2ClientsProofs` | theorems about `L2Clients`, and in a part of its own about `Framing` |
| `ZoneProofs` | theorems about `BlobRefs`, `StorePolicy` and `LruZone`, which share nothing, in three parts |

How they meet. `Breaker` implements `AbstractBreaker`. The other modules each
take one part in full and replace its neighbours by everything they can do:
`RequestPath` takes claims, answers of L2 and verdicts of the breaker from
`SingleFlight`, `L2Clients` and `Breaker` in any order these allow; `SingleFlight`
takes L2's answers from `L2Clients` at any time; `L2Clients` takes whole replies
because `Framing` shows that a reply is heard as meant wherever it was cut; the
commands of `TagPurge` are operations of `L2Clients`, executed in any order. A
product of the modules themselves is beyond TLC, and the code's own interfaces
are narrow enough for this (a return code, a callback with one result).

`MCParts` is one run for four small parts that share no variable: the variable
`part` says which of them moves in a behaviour, and the others stay where they
start. Interleaving independent parts would only multiply their states.
All four are extended, so their assumptions are evaluated and their properties are
checked as they stand.

Left: the autotuner's adjustment as arithmetic with its limits, and the entry blob's
`validate()` against a reference definition: pure functions that would share one run.

## 3. What each module is, and how it corresponds to the code

`PROJECT.json` maps every definition to its lines. Here is how to read them.

**Breaker.** The code's shared words are the variables `brk`
(`breaker_state`: generation and state), `probe` (`breaker_probe`: generation
and stamp), `opened_at`, `fails`, `window_start` and `opens`. A call keeps
its locals in `word`, `pword`, `now`, `anchor`, and `pc` says which atomic
access is next: `LoadWord`, `LoadProbe`, `Reclaim`, `StampReclaimed`,
`CheckWindow`, `Publish`, `Promote` are `breaker_state()`; `Record`, `ClearRun`,
`Close`, `StampFailed`, `Reopen`, `LoadAnchor`, `Anchor`, `ClearWindow`, `Count`,
`StampTrip`, `Trip` are `breaker_record()`. Between two of them any other
worker may run; a worker may be killed at any of them (`Kill`) and a request
given up at the origin (`Abandon`). `SplitLoads` chooses whether the two loads at
shm.c:3050 and 3057 can be separated: they can in the code, and the safety runs
and all proofs allow it; comment H-2 assumes they cannot, and the liveness run,
which depends on it, says what then holds.

**SingleFlight.** `node` is the key's node or its absence. One action is one hold
of the mutex with what the request concludes from it: `ServeL1`, `LeaseStale`,
`RegenerateStale`, `MissL1` are the lookup; `BelowMinUses`, `ClaimFresh`,
`ClaimWinner`, `ClaimNoRoom`, `ClaimLoser`, `AdoptOwnStub`, `ColdUnlocked` the
miss; `LockAnswer` and `GetAnswer` the L2; `Poll`, `ResumeWon`, `ResumeLost` the
re-entries; `StorePage`, `StoreError`, `NotModified`, `End`, `Die` the ways a
response ends, each with the cleanup (`Cleanup`) it runs; `Redirect` an internal
redirect, after which the request keeps its previous token in `prev`; `Evict`
whatever takes the node away. A request is `strict` if its own Cache-Control rejects every
copy, which makes cold leases on top of entries possible.

**BlobRefs.** `refs`, `alive` and `used_bytes` are the slab's view, `data` the
nodes', `held` the requests'. The release is two steps, as in the code: the atomic
decrement without the mutex, and the free with it. Addresses are reused, and
`body`/`seen` number the bodies so that a reference to a successor at the same
address is noticed.

**LruZone.** `sh` is the zone as one record; helpers (`Unlink`, `DropNode`,
`EvictOne`, `AllocEvicted`, `Demote`, `EnforceCap`, `Touched`, `Inserted`,
`Refreshed`) are functions from zone to zone, named for the C functions, and
each action is one hold of the mutex. Memory is in units. `PurgeStep` is one batch
(`PurgeCount` is what it does to the purge's own count, which is what
fairness is asked of). A store returns its `Outcome`: the zone and whether there was room.

**L2Clients.** One action is one event handler of a worker, run to its end.
`Ask` and `Fire` start operations (`Reuse` a pooled connection or `Connect`;
`CmdMany`, `TagAdd` send several commands in one write), `Write` and `TlsDone` are the
write side, `ReadPreamble`, `ReadGet`, `ReadLock`, `ReadDrain` the read handlers,
`FirstBytes` a read that gets part of a reply, `Timeout`, `Broken` and `Detach`
the other ends; `Mc...` the same of memcached, which has code of its own.
`OpDone` closes or pools the connection and resumes the request, in the code's
order. A connection holds the queue of commands the server has yet to
execute and the replies on their way, each with the operation that asked:
that owner is a ghost, the code has only the bytes. `Execute`, `Close` and
`Deliver` are the server and the network. `owed` is history: the commands of an operation that its callback answers for
and that the server has not executed. `DropIdle` is the read handler of a
pooled connection.

**Framing.** A stream is a sequence of symbols, cut anywhere (`Recv`). Each reader
decides anew after every piece: `ParseGet`, `ParseMc`, `ParseDrain` from the start
of the buffer (`Frame` is `redis_frame()`), `ParsePage` from the saved offset and
the stack of counts (`FrameScan` is `redis_frame_scan()`). `NextPage` resets
that state for the next page of a walk. `redis_frame()` calls itself for the elements of
an array and gives up `MaxDepth` levels down, so it is modelled level by level: `Around` says what
a call returns at every position of the buffer, given what the calls one level down return,
and `Frame` is `MaxDepth + 1` such levels around the call that is too deep. The elements
of an array, the keys of a page and the turns of the resumed walk (`ScanStep`) are loops,
`Iterated`. What a server means by its bytes is a grammar of positions (`LineAt`, `BulkAt`,
`PageAt`, `ReplyAt`, gathered in `MeantAs`), which looks for nothing and calls none of the
parsers; `FramingAssumption` asks that a stream said to be whole, or whole with bytes behind
it, is one the grammar knows. Damaged and odd streams may be any bytes.

**TagPurge.** `Store` writes an object and sends its SET and its SADD as
operations of their own; what nobody waits for is in `wires` until it is
executed or lost. A purge goes through `ReadCounter`, `Launch` (or `LaunchAll`),
`Page` / `EmptyPage` / `WalkFails`, `Suspend` or `Promote` of the page, `Unlinked`,
`Settle` or `Resume`; `Gone` is its request's pool cleanup, which may come
anywhere. `todo` of a walk is what was there when it began and the scan has yet to return:
SSCAN and SCAN promise all of it by the time the cursor is back at 0, which is when
`Advance` may end the walk as complete. `gap` remembers which keys' index entries were not
written when the purge read the counters. Its kinds are a purge by tag or of a variant tree
(chosen by `AutoVary`) and of everything.

**VaryMarkers.** Two nodes, each with an L1 of its own, over one L2. Pages are kept
under the base key or under (generation, class). A request's `pc` is where it
parks or what it does next: `Lookup` (with `Resolved`) is the lock hold of `access_l1()`,
`Consume` is `access_l2_marker_consume()`, `AskMarker` is `access_l2_marker_get()` and
`AskPage` `access_l2_get()`, `Promote` and `Miss` are what follows in `access_l2()` and the
cold path, `StorePage`, `StoreMarker`, `Rollback` the last buffer of the body filter. Either
GET may be impossible to send (a connect backoff, no memory): the same pass then goes on with
the latches `ForMarker` has set (access.c:2003), so that the answer to the page's GET is later
looked at as the marker's, or, when neither GET goes out (`unsent`), a page of L1 is met at
the claim with the confirmation still marked as on its way.
A PURGE is walked in its steps: the base (`PurgeBase`), then, in a *tagged* deployment
(Redis), `PurgeMarker` and `PurgeWalk`, or, in a *plain* one (memcached), the marker's next
generation. `PurgeMarker` may lose the DEL of L2's marker, and may fail to launch the walk,
which is a 200 all the same (purge.c:202); `PurgeWalk` may leave the variants its index was
short of, a 200 too, or break off, a 500. `begun`, `ended`, `holds`, `parted` and `top` are
history: what a purge promises is stated with them. A node is in `holds` once it answered a
purge that did all it set out to do (`Kept`), in `parted` once it lost its
marker under a request that had a variant key and had yet to hear from L2; `top` is the
highest generation any purge has written. `spans` of a request, and `clean` of a purge, say
that a request of before the purge's end has written since it began.

**RequestPath.** `Step` runs one phase of the access handler: `Prologue`, `L1`,
`AskL2` / `PassL2` / `L2Answers`, `OnlyIfCached`, `Gate`, `MinUses`, `Cold`. `Resume`
puts a parked request back to the top, as nginx does. A body is an age (0 just made, 1 fresh, 2 stale but still served, 3 kept for an
origin that fails, 4 past everything) and the marks of its blob flags. `OriginAnswers` and `OriginFails` are the header filter's verdict with the
stale-if-error and breaker fallbacks; `WarmEnds` and `PoolGone` end a background
refresh and give its slot back. `Others` is what the rest of the
system may do between two phases. A request's own no-store keeps its answer from being stored
only if the prologue got as far as reading it (`StoresNothing`): a fallback location behind a
closed breaker leaves at access.c:463, before that.

**StorePolicy.** `Ask` sends a request to the origin, with a conditional header or
without; `Answered` is the header filter (gates, copy of the headers), `Piece` and
`LastPiece` the body filter, `Confirmed` the 304. `UpstreamTtl`, `StatusTtl` and
`Windows` are `response_policy()` and the computation at the end of the body, with the
clamped sums of swr.c.

## 4. The runs

Passing:

| Run | Shows | Instance |
|---|---|---|
| `Breaker_safety` | one probe per lease, only it closes, an outage is counted once, and the words implement `AbstractBreaker` (`OneProbePerLease`, `ClosedByItsProbe`, `OneTripPerLease`, `Refines`) | 2 requests, the first lease generation, threshold 2, a failed compare-and-set tried once more, lease and window of 1 second, clock to 3 and stepped back, split loads |
| `Breaker_live` | a live lease is not taken (`LeaseHonoured`); HALF_OPEN and OPEN are left (`HalfOpenResolves`, `OpenIsProbed`) | 2 requests, 2 lease generations, lease of 1 second, clock to 3, one kill, the two loads together |
| `SingleFlight_l2` | `SingleRegenerator`, `ColdLeaseKept`, `NoOldPageOverNew` | L2, its lock and negative memo, `min_uses` 2, 2 tokens, 2 seconds, one page lifetime, requests that accept copies |
| `SingleFlight_unlocked` | `ServableNotBuried` without `cache_turbo_lock`, and with strict requests | L2, `min_uses` 2 and its window |
| `SingleFlight_live` | a waiting request is let go (`WaitEnds`) | fair, L2, 2 seconds |
| `L2Clients` | an operation hears its own replies (`OwnReplies`), a connection has one owner (`ConnOwned`), parked requests and operations are paired (`ParkedPaired`), a drain reports what happened (`DrainHonest`), every park ends (`AnswersCome`) | 2 operations, 2 connections, 1 request; a Redis context with TLS and AUTH, a memcached context, one idle connection per bucket |
| `TagPurge` | a suspended purge is awaited by somebody (`SuspendedIsAwaited`), what a failed purge left is found by the next (`RetryFindsIt`), success means deleted (`SuccessDeletes`), it ends (`PurgeEnds`) | 2 keys and an empty member, 1 purge, 2 stores, 2 pages |
| `VaryMarkers` | a client is served its own class's pages, but for nodes in `parted` (`RightRepresentation`), a request that went to confirm the marker hears the answer, unless it could send no GET (`HeardBeforeServed`), purged pages stay away (`PurgedStaysAway`), a late answer sets nothing back (`LateAnswerDropped`) | 2 nodes, of which one is sent PURGEs, 2 requests, 2 classes, 3 generations, one loss, one purge, one second |
| `RequestPath` | `AnswerAllowed`, `OnlyWhenOriginDown`, `ProbeReachesOrigin`, `CopyBeats503`, `SlotsReturned`, `RequestsEnd` | 1 request of 8 kinds in 4 locations, one move of others, one poll |
| `Parts` | references: `Accounted`, `NoUseAfterFree`; answers: `StoredIsSound`; zone: `ZoneSound`, `PurgeTellsTruth`, `ProbationFirst`, `PurgeEnds`; framing: `ScanIsFrame`, `HeardAsMeant` | 2 requests, 2 keys, 3 addresses and one kill; 8 TTL values, 2 pieces, 2 versions; bodies of 1 and 2 units in 4, 2 keys and a marker of 1 unit; streams of at most two pages |

Why these bounds are enough to be interesting. Two requests are what a race
needs, and a request slot is used again, so histories are longer than two
requests. In `Breaker_safety` the threshold of two lets two workers
reach it together, and the probe's lease expires while its report is out; in
`Breaker_live` it is granted anew after that. Later leases are the matter of
the proofs, which hold for every bound. In the `SingleFlight` runs a lease expires
under its holder, is granted to the other, and the first comes back. In `L2Clients`
one connection is kept and another made, so that a reply can be left behind on
one that is reused. In `TagPurge` a page has fewer members than the set, stores
come between its pages, and two pages are both the normal end and the limit. Three
generations are the smallest number where the wrap skips 0 and comes back. One
request is enough for `RequestPath`, as its neighbours are any behaviour at all: one
move of others falls between any two phases of it. In `Parts`, a third address
makes reuse possible, a body of two units evicts two nodes in one store, and budgets of one node
per cap and per purge batch are exceeded.
`MaxTime`, `MaxGen`, `MaxSeq`, `MaxKills`, `MaxRetries`, `Versions`, `MaxStores`,
`MaxLosses`, `MaxPurges`, `MaxPolls`, `MaxMoves`, `MaxPieces`, `MaxVersion` and
`Chunks` are the only bounds that the code does not have; each is a guard of the action that would
pass it. `Gens`, `MaxPages`, `MaxDepth`, `MaxReply` and their like are limits of the
code, made small.

Symmetry (of requests and of classes) is used in runs without liveness only; none
of their properties names a member. Deadlock is not checked where the system may
stop: all requests are used up, or a clock is at its bound.

### Divergences

Places where the code does something else than a sentence of the repository
says. The first two are runs of `PROJECT.json`, which quotes the sentences; the
others are configurations kept beside them, to be run in the same way. Each
checks one property, named here, and ends in its counterexample; `VaryMarkers_claims` has the
lines of four, of which one at a time is to be left uncommented.

| Configuration | The code does | A comment, doc or test says |
|---|---|---|
| `VaryMarkers_variant` (`NeverWrongVariant`) | a request is parked on the GET of its variant; a PURGE takes the marker out of both levels and another request leaves the negative memo; the first comes back under the base key, the memo answers for the marker, and the variant it still has is promoted under the base key (access.c:1955, 2632): clients of every class are served it | module.h:2353: the base slot stays empty, a missing marker "never serves the wrong variant"; access.c:1881: "never to a wrong variant" |
| `StorePolicy_revalidate` (`RevalidateHolds`) | a must-revalidate page whose Expires is past gets a TTL of 0, for which there is no stale deadline (filters.c:1756, shm.c:1725) | filters.c:1748: once stale it must not be served without revalidation |
| `VaryMarkers_claims` (`MarkerIsNoPage`) | a marker stored by another worker while the request is parked on the marker's GET leaves the answer uncleared (access.c:2165): the marker's blob is promoted and served as the page | access.c:1857, 2339: the result is cleared before the object phase |
| `Breaker_pairing_split` (`HalfOpenPaired`) | a worker descheduled between its two loads (shm.c:3050, 3057) publishes an old generation over the live lease's probe word; the lease then cannot be reclaimed | shm.c:3126: the words are loaded "ONCE, together", and the mismatch is unreachable |
| `SingleFlight_giveup` (`GivesUpOnlyWhenFilled`) | a loser gives up at its first poll because of the L2 copy it had seen before waiting (access.c:2538, 3662) | access.c:3655: only for a copy seen after it parked |
| `Breaker_deadline` (`OpenDeadlineFresh`) | losers of the trip race overwrite the deadline with an older time (shm.c:3510) | shm.c:3507: OPEN is never seen with a stale `opened_at` |
| `Breaker_clock` (`ReclaimsOnlyExpired`) | a step back of the clock that stays above the epoch makes the modular age large, and a live lease is reclaimed (shm.c:3024) | ci/tests/unit/test_shm_state.c:3119: a backwards step must not reclaim a live lease |
| `SingleFlight_swr` (`OneLeaseAtOnce`) | a cold lease on an entry expires, the refresh lease is put over it without an owner of its own, and the late holder's cleanup releases that one (access.c:1324, shm.c:2566) | access.c:1316: the refresh lease is never resolved by `unstub()` |
| `SingleFlight_window` (`RecentMissCounts`) | no counted miss updates `last_access`, so the `min_uses` window runs from the counter's creation (shm.c:2632) | shm.c:2629: `last_access` is updated after the claim; README.md:2246: misses count "within a recent time window" |
| `SingleFlight_newer` (`NoOldPageOverNew`) | the test of STORE_IF_NEWER compares `fresh_until`: an older L2 copy with a longer lifetime displaces a newer response (shm.c:1976) | shm.c:1972: a slow L2 reply must never displace a newer response |
| `TagPurge_orphan` (`SurvivorIsIndexed`) | an object is stored again while its page of the walk is being unlinked: the walk's SREM overtakes the SADD, and the object stays without an index entry | purge.c:1002: what is left is found by issuing the purge again |
| `TagPurge_gap` (`GapNeverHidden`) | the counters of the gap are read one by one: a repair launched after `inflight` was read cancels, in the sum, the drop it repairs, while its SADD is still on its way | purge.c:169: a gap is never hidden |
| `TagPurge_refill` (`PurgedStaysAway`) | a purge of everything empties L1 first; a page that is still in L2 is promoted again before its UNLINK, which nobody awaits | admin.c:206: L1 and L2 are emptied |
| `VaryMarkers_claims` (`NeverZeroAgain`) | a marker that L2 answered just before a purge is stored by its worker just after the purge's bump: generation 0 over generation 1, in L1 and in L2 (access.c:2063) | purge.c:252: a purged base never has generation 0 again |
| `VaryMarkers_claims` (`TriedMeansMarker`) | a marker GET that cannot be sent leaves `vary_marker_l2_tried` set (access.c:1980, 2003); the same pass parks on the page's GET, and on the re-entry its answer is taken for the marker's, refused and thrown away | access.c:1857: the flag tells the answer about the marker from the answer about the page |
| `VaryMarkers_claims` (`PurgeReachesAll`) | a walk of the variants that cannot be launched, or an index short of variants, is answered 200 with variants left in L1 and L2 (purge.c:136, 180, 195, 202) | README.md:2258: a PURGE whose deletes could not be sent answers 503 instead of 200 |
| `RequestPath_fallback` (`FallbackReachesGate`) | the L2 phase does not test for a breaker-only request: `serve()` refuses the copy, and the request goes to the origin with nothing armed and the gate unasked (access.c:2560-2672) | access.c:1695, README.md:2253: the copy is what the open breaker serves |
| `RequestPath_fallback`, with the invariant `OnlyFromBreaker` in place of its own | stale-if-error replaces an error of the origin by a breaker-only copy without passing through `serve()` (module.c:4079) | README.md:2253: only for the breaker; module.c:3012: one choke point for every path |
| `RequestPath_cached` (`CachedOnlyStays`) | a stale hit whose request wins the refresh lease or the cross-node lock goes to the origin ahead of the `only-if-cached` phase (access.c:1217, 1370) | access.c:2822, README.md:615: such a request never reaches the origin |
| `RequestPath_open` (`OpenIsNoOrigin`) | the copy the gate falls back on is refused by `serve()` for its private or HEAD mark, and the request is declined to the origin though the breaker is open | README.md:1613: while open, the origin is not asked |
| `RequestPath_bounds` (`BoundsKept`) | a fresh copy that raced in is served at the claim after testing the request's `no-cache` only, not its `max-age` or `min-fresh` (access.c:3308, 3355) | the comment there: RFC-1, the request's own directives apply |
| `StorePolicy_confirmed` (`FreshenedIsCurrent`) | a 304 freshens whatever is stored by then, not what it confirmed | shm.c:2027: "the origin's own confirmation that the stored body is still correct" |
| `Framing_deep` (`SameAsFrame`) | a reply nested to the limit is refused by the scan (`>=`, redis.c:3532) and accepted by `redis_frame()` (`>`) | redis.c:3364: the same limit, and accepts exactly what the other does |

`VaryMarkers_variant` is why `RightRepresentation` excepts a node once it lost a marker under a
request on its way; what it states of all the others, and of pages already in either
cache, is proved. It takes three requests: one whose page is in L2, one that is parked on
it, and one of the other class that leaves the memo and is then served. `SingleFlight_swr`,
`SingleFlight_newer` and the rest of the table are why `SingleFlight_l2` has requests that accept copies and one page
lifetime, why `Breaker_live` takes the two loads together, and why `TagPurge` and
`RequestPath` state what the purge and the fallback do promise: within these
limits it holds. `Breaker_live` needs it for the two liveness properties alone: that a lease
is honoured is proved for loads any time apart.

Smaller things met on the way, which no sentence contradicts: the operation of a
resumed walk has no timer for its write until it is written; a request that can send neither
the GET that confirms its marker nor the page's is served a fresh page at the claim with
`vary_marker_revalidate_inflight` set (access.c:2003, 3308), although the lookup had held that
page back for it; the no-store of a request is not read in a fallback location behind a closed
breaker (access.c:463, 489), and its response is stored; a pending
entry that is evicted keeps the purge's gap above 0 for ever, on the safe side;
after a wrap a peer at generation 255 refuses the new one; a plain PURGE
on a node that has lost the marker does not orphan the variants in L2; memcached
evicting a marker falls back to generation 0, and if the bumped marker's write was
lost too, the next purge gives out a generation for the second time (which is why
`Kept` asks for the highest one there has been); a page asked of L2 under the old
generation's key is promoted under the new one when the marker is bumped meanwhile; a background refresh refused
because of `background_update_max` has taken the refresh lease and the L2 lock
and keeps them; Expires is compared with the clock when the body ends; a 304 to
a request with Authorization freshens too.

## 5. Fairness

* *Breaker.* A worker in the middle of a call is a running process: weak
  fairness of its next step. Requests keep arriving (`LoadWord`): the liveness
  properties are about a zone that is used; without requests a half-open breaker
  stays so, harmlessly. A request at the origin is answered or abandoned: nginx's
  upstream timeouts. Time passes.
* *SingleFlight.* Weak fairness of what a request does by itself (its poll
  timer fires, its handler returns) and of the L2 client's answer (it has a
  timeout of its own). Nothing is assumed of the origin: a waiter must be let
  go even if the holder's answer never comes. A pass of the handler does not
  block and reads the clock its worker cached when the event loop woke, so the
  clock advances between passes (`Quiet`); passes of different requests do not overlap for
  ever (`[]<>Quiet`), and then time must pass: strong fairness of `Tick`.
* *Parts.* Of its four parts only the zone has a liveness property. `purge_all()` is a loop of one worker: weak fairness of its batch.
  Nothing is assumed of the workers that refill the zone.
* *L2Clients.* A worker runs the handlers whose events are ready, and the timers
  that are armed fire (`redis_timeout` is above 0): weak fairness of these. Nothing is
  assumed of the servers, which may stop answering or close at any time.
* *TagPurge.* The walk and the awaited UNLINK end because the operations of the
  L2 client do, in success or failure: weak fairness of `WalkFails`, `Unlinked` and of
  the steps the worker takes by itself.
* *RequestPath.* Parked requests are resumed (`AnswersCome` and `WaitEnds` of the
  modules below), phases run, and the origin answers or fails in nginx's upstream
  timeouts. The others' moves are not fair.

## 6. What is proved

Each proof module cites only the named assumptions on the constants of the modules
it is about; sets of requests, nodes, connections, keys and addresses are arbitrary
(finite only where something counts them, which the invariant says). All are safety
proofs of one shape: `Init => Inv`, `Inv /\ [Next]_vars => Inv'` with a step per action,
`Inv => P`. The properties were checked by TLC first, and so was each conjunct of an
invariant, as an invariant of the instance above or of a part of it.

**BreakerProofs.** For any number of requests, any constants, with split
loads, kills and clock steps: `TypeCorrect` (`Spec => []TypeOK`), `OneProbe`
(`[]OneProbePerLease`), `ClosedOnlyByProbe` (`[]ClosedByItsProbe`) and
`ImplementsLeases` (`Spec => Refines`). None of these is inductive alone: that the
probe of generation g is alone depends on every worker that is still between
the load of the state word and its compare-and-set. The inductive invariant
`LeaseInv` says that tokens that are out are distinct, that a closed breaker was
closed by its probe, and for each request (`RequestInv`) what its copies of the
words, at its place in the code, still mean: its copy is never newer than the
word, and if the generations are equal and its token is that generation, it is
the one that may close or reopen it. The proof has a step per action; the lemma
`LeaseFrame` deals once with all actions that touch one request and leave the
others' view alone.

`OneTrip` (`[]OneTripPerLease`): `TripsCounted` adds to the trips counted those that a
worker has made and not yet counted (the finite set `Tripping`), and bounds the sum by the
leases the state word has been through, `TripsLimit`.

`OnlyAgedTaken` says, for all values of the constants, what can end the lease of a probe that
is at the origin: its own report, or the reclaim of a request for which the lease was aged, by
the probe word and the clock as that request read them. When that means that the lease has run
out is a matter of the clock. `TimelyInv` says that the stamp of the probe word only moves on:
who publishes one has read the clock no earlier than the word it replaces. So the word is
stamped no earlier than any lease that is out (`ProbeTimely`), and whoever is about to take one away has
seen a stamp that is no older than its grant and a whole lease back (`CallerTimely`).
`LeaseRespected` (`[](LeaseHonoured /\ ReclaimsOnlyExpired)`) follows for every behaviour in
which the clock is not set back (`ClockForward`, a premise about the behaviour and not about
the constants); with a clock that is set back it is false, as `Breaker_clock` shows. Loads may be any time apart.
The packed stamp is compared modulo its field, so the invariant also carries that all
times stay within one turn of it (`InTime`, from the bound `MaxTime`). `HalfOpenPaired` is not
proved: `Breaker_pairing_split` refutes it.

**SingleFlightProofs.** `TypeCorrect`, `LeaseIsKept` (`[]ColdLeaseKept`),
`OneRegenerator` (`[]SingleRegenerator`), and the action properties
`NothingServableBuried` (`ServableNotBuried`) and `OldNeverOverNew` (`NoOldPageOverNew`, said for several lifetimes). The first two invariants do not survive a step by themselves,
because a cleanup decides by comparing tokens: `OwnerInv` adds that an
unexpired lease, cold or refresh, is the one on the node (`HeldOnNode`; a refresh lease
has token 0, which no cleanup releases), that tokens come from `owner_seq` (so a new one is
nobody's), that a missing node has no lease, and that a token a request remembers - current
or from before a redirect - is never the token of a lease another request holds
(`Foreign`). `OwnerFrame` is the common part of the actions. The attempt to prove
single flight without an exception failed for a reason in the code: a refresh lease
put over an expired cold lease leaves the cold token on the node, and the late
holder's cleanup takes the refresh for its own. The history field `over` of a lease
marks exactly these; `OneLeaseAtOnce` is the property without the
exception, which `SingleFlight_swr` violates. The action properties rest on `BodySteps`,
which sorts all steps by what they do to the body: keep or drop it, store a page, store
an error, freshen, promote. `OldNeverOverNew` is for any lifetimes between two numbers
`Lo` and `Hi`: a page is never replaced by one that is older by more than `Hi - Lo`.
`AgeTold` says that `fresh_until` is no earlier than the page's birth plus `Lo`, whatever 304s
it had, and that a copy on its way has a lifetime of at most `Hi`, so that STORE_IF_NEWER,
which compares `fresh_until`, compares ages up to that spread.
The corollary `OneLifetime` is the case `Lo = Hi`, where nothing is left of it:
`NoOldPageOverNew`, which `SingleFlight_newer` violates for two lifetimes.

**ZoneProofs**, of BlobRefs: `SlabAccounted` (`[]Accounted`), `NobodyUsesFreed` (`[]NoUseAfterFree`),
`BlobTypes`. The difficulty is that a release is two steps and an address may be handed
out again. `AccountInv` says that the count of every address, in use or not, is the
number of its holders (`Cardinality` of requests, plus the node, plus what killed
workers took), that a node's address is no other node's, and that a request which is to free
one is alone with it; `Holders` are finite. The lemmas on counting (one holder more,
one less, none) are what each action cites; `DropKeeps` is the eviction of any
set of nodes in one hold of the mutex.

**ZoneProofs**, of StorePolicy: `StoredStaysSound` (`[]StoredIsSound`). `PolicyInv` adds that a
capture that goes on has left nothing out and is of an answer that may be stored. The rest
is the arithmetic of the windows: `add_ttl_clamped()` and `stale_ttl()` never shorten a
lifetime and stay in the field, whatever was read off the wire.

**ZoneProofs**, of LruZone: `ZoneStaysSound` (`[]ZoneSound`), `PurgeIsTruthful`
(`[]PurgeTellsTruth`), `ScansSpareProtected` (the action property `ProbationFirst`), for any
keys, sizes, memory and cap. The functions of shm.c pass through states in which the zone
is not whole: a node is off its queue before it is linked again, and its bytes
are taken before the node is there. So every helper is shown to keep not `ZoneSound` but
`Linked(s, out, extra)`: the queues hold, each once, the nodes of their segment but
those in `out`, and the bytes in use are those of the nodes and `extra` more. A node's bytes
are a set of its own (`Units`), so that a sum over the zone is the cardinality of a union.
`shm_alloc_evict()`, `lru_enforce_cap()` and a batch of `purge_all()` repeat a step a number
of times; they are `Iterated`, and `IteratedThrough` shows what such a loop keeps or moves
along by induction on the number of rounds. The library states induction for an
operator, which these provers cannot instantiate; `SetInduction` of `Loops` states it for a set of
naturals (from the well-foundedness of `<`), which they can. `AllocEvictedLinks` and
its neighbours say what each loop leaves (`Thinned`: what is still there is as it was, and
nothing protected is gone unless probation is empty). `ZoneInv` then adds that markers and bodies have
keys of their own, that what is protected was hit (`HitsEarned`), and that a purge in progress
has a budget for all that it found and, undisturbed, for all there is (`BudgetCovers`).

**RequestPathProofs.** `OnlyAllowedAnswers`, `BreakerBodiesKept`, `ProbeGoesOn`,
`NoNeedless503`, `AllSlotsReturn`, `PathTypes`, for any number of requests of any
kinds, any polls and any moves of the zone, L2 and the breaker. `PathInv` says of a request
between two phases that nobody answered it, that it is not the probe unless it is past
the gate, and that what it saw it has armed; and that slots taken are slots
owned (a sum over requests, which is why two requests cannot share one).

**L2ClientsProofs.** `EveryAnswerIsOwn` (`[]OwnReplies`), `EveryConnHasOnePlace`
(`[]ConnOwned`), `EveryParkedIsPaired` (`[]ParkedPaired`), `EveryOkIsEarned`
(`[]DrainHonest`), `ClientTypes`. That an operation hears its own replies depends on what
is left on a connection when it goes back to the bucket. `ClientsInv` says of a connection
that an operation holds that the replies read, those lying there and the commands
queued add up to what the operation needs, and of a pooled one that nothing is left on it; that a
connection that is used has exactly one operation, one that is pooled exactly
one place in one bucket; and that what the server owes an operation is what
its state still waits for. Four lemmas carry the actions: an operation stays on its
connection, starts on one, ends, or something happens to an idle one.

**L2ClientsProofs**, of Framing: `FramingInvariant`, `WalksFrame` (`[]ScanIsFrame`) and
`RepliesHeard` (`[]HeardAsMeant`), for any streams, lengths and limits, and any cuts. Neither
property follows from the last verdict alone: a walk that waits keeps two numbers where the
buffer has all the bytes. `FramingInv` says that what a reader decided is what it makes of
everything received (`MadeOf`), and of a walk that waits (`WalkIs`, `Follows`) that
however many more bytes of the stream come, what one framing from the start would say of
them is got by going on from the saved offset and, level by level, taking the elements the saved
counts still ask for (`Unwinds`). So the step that resumes needs no memory of the
bytes before the offset (`WalkGoesOn`). Three groups of lemmas carry this. `FrameSaid`:
what framing says of a prefix other than "again" it says of every longer buffer, the
reason that a reply is never heard too early or twice. `UnwindDrop`, `UnwindCount`,
`UnwindOpen`: each turn of the walk (a count used up, an element confirmed, an
array entered) leaves what unwinding yields as it was (`TurnSays`). `ResumeSays`: the loop
returns within the number of turns it is modelled with, so that bound loses nothing. The resumed walk refuses an array one
level before `redis_frame()` does (`Framing_deep`), hence `FrameToDeep`, which is `redis_frame()`
with a verdict of its own for such an array; `FrameUnlessDeep` says that it is
`redis_frame()` where it meets none, and `ScanIsFrame` excepts nothing else. For
`RepliesHeard`, what the grammar knows is framed and parsed as what it is, at every prefix
(`PageFrames`, `GetHears`, `McHears`, `DrainHears`): "again" while a byte is
missing, the value with the last one, and with bytes behind it nothing else than that value.

**TagPurgeProofs.** `TokenOutlivesWalk` (`[]SuspendedIsAwaited`), `NextPurgeFindsIt`
(`[]RetryFindsIt`), `SuccessIsHonest` (the action property `SuccessDeletes`), `PurgeTypes`. `PurgeInv`
relates a purge's walk to the token of its UNLINK, Redis to the index through the
commands that are still on the wire, and every object a walk found to what has become of it: gone,
replaced, stored again meanwhile, still on the walk's list, or in an UNLINK that was
sent. Commands may be executed in any order or lost.

**VaryMarkersProofs.** `EveryPageSuits` (`[]RightRepresentation`), `NobodyServedUnheard`
(`[]HeardBeforeServed`, which excepts who could send no GET), `NoLateAnswer` (the action property `LateAnswerDropped`),
`PurgesKeepAway` (`[]PurgedStaysAway`), `MarkerTypes`.
`PagesSuit` says that a page which varies is, in L2, only under a key of its class; in
L1 the same but for the base key of a node in `parted`; that a key other than the base
is of the request's own class and has a marker behind it, of L1 or heard of in an
earlier pass; and that the page a parked request has at hand is of its class.
`Awaited` says where a confirmation that is on its way can be: with a GET out whose answer
will be looked at as the marker's (the marker's own, or the page's when that one could not be
sent), at that answer, or with a request that is `unsent`. `SeenNow` says that
what the last lookup saw is what the request goes by until it has dealt with the answer.
`PurgesTold` carries the purges, in four layers: no generation in use is above the highest
(`Numbered`); purges and requests have their times, and a request of before a purge is known as
one that spans it (`Timely`); a request begun since carries no older page and goes by the
purge's generation, and what L1 keeps under a current key is no older (`KeptAway`); and where the
purge was not of a marker, nothing older is left under the base key (`FreshBase`). Between its steps a
purge by the index is known by what it has removed so far; only a walk that ends with
nothing left, unwritten behind, puts its node in `holds`, and whether L2 lost the marker
does not matter to that, since what a marker leads to is gone or new.

Every invariant and every action property of the passing runs is proved, `NoOldPageOverNew` for
the one lifetime its run has and `LeaseHonoured` for a clock that is not set back, as in its run. Out of the
prover's reach and left to TLC: liveness under fairness (`HalfOpenResolves`,
`OpenIsProbed`, `WaitEnds`, `AnswersCome`, `RequestsEnd`, both `PurgeEnds`) and anything
about ENABLED.

## 7. What is left out of the modelled components

* Breaker: weak-memory reordering (the model is sequentially consistent, the
  code uses full-barrier atomics for the two words); the wrap of the 30-bit
  generation; the skew between the clocks cached by different workers (a
  report reads clock and state word in one step); widening by autotune; the
  classification of statuses.
* SingleFlight: the other keys (only their pressure, `Evict`); auto-Vary rekeying;
  the breaker gate; a redirect by a request that has no lease, and a second
  redirect; failures of request-pool allocations; the rate at which
  background refresh is chosen (both choices are allowed).
* BlobRefs: sizes of bodies (counted, not weighed); the choice of victims;
  L2-promoted bodies on the request pool, which never enter the slab by
  themselves.
* LruZone: slab fragmentation (an allocation fits if its units do); refusal by the
  admission sketch, which leaves the zone as it was; the rate of touches beyond
  the one-second rule; that `shm_alloc_evict()` (shm.c:1426) ends: its loop is `Iterated`
  a number of times that the queues bound, where the code counts nothing.
* L2Clients: name resolution, DNS and unix sockets; the growth of buffers; the RESP3
  push type; several workers (they share nothing of this but the servers).
* Framing: values of lengths beyond a digit, and so overflow in their parsing.
* TagPurge: the splitting of the Surrogate-Key header and the caps on its length.
* VaryMarkers: the pages of the walk and their replies, which are `TagPurge`'s; the parsing of Vary and the computation of a class; page windows and
  leases, which are `SingleFlight`'s; delays of writes to L2 (they are applied or lost).
* RequestPath: which URI, cookie, argument or header makes a request eligible;
  Range requests; precontent; statistics.
* StorePolicy: which headers the snapshot keeps, trailers, `require_header`, the
  surrogate key sent downstream; the arithmetic beyond the clamp.
* Not modelled at all: the admission sketch (a heuristic whose one effect, a refused
  store, is a step elsewhere); autotune's widening; the entry blob's bytes; matching
  and presets (string functions over tables); directive parsing and merging in
  conf.c; formatting in admin.c; the probes of test builds. They keep no state that
  another part's correctness rests on, or are strings and numbers of one call.
