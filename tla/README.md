# Verification of mafw-shared

TLA+ models of mafw-shared, the out-of-process layer of the Media Application
Framework: TLC checks them on small instances, TLAPS proves their
safety properties for every instance. Paths below are relative to the repository.

## The system

Applications, renderers, sources and the playlist daemon are processes on the
D-Bus session bus.

| component | code | state | operations |
|---|---|---|---|
| playlist structure | `mafw-playlist-daemon/aplaylist.c` | object ids in visual order, the arrays `pidx`/`iidx` of the play order, the pool of items not played yet, dirty flag and timer | insert, remove, move, clear, shuffle, unshuffle, set repeat; get starting/last/next/prev item |
| playlist files | `aplaylist.c`, `playlist-manager-wrapper.c`, `mafw-playlist-daemon.c` | `<id>` and `<id>.tmp` in the playlist directory | save at the timer and at exit, recover and load at start |
| playlist registry, use counts | `playlist-manager-wrapper.c`, `playlist-wrapper.c` | the trees by id and by name, use counts, the list of holders per client | create, destroy, dup, set name, list, increment/decrement use count, exit of a client |
| playlist import | `playlist-manager-wrapper.c` | import requests | import, results of browse and metadata, cancel |
| playlist manager (client) | `libmafw-shared/mafw-playlist-manager.c` | the application's playlist objects by id | create, destroy, list; the daemon's signals and restarts |
| proxy playlist | `libmafw-shared/mafw-proxy-playlist.c` | one id | one D-Bus call per operation |
| browse sessions | `mafw-dbus-wrapper/source-wrapper.c`, `libmafw-shared/mafw-proxy-source.c` | open browse requests on both sides, results waiting in a batch | browse, results, batch timers, cancel |
| renderer wrapper and proxy | `mafw-dbus-wrapper/renderer-wrapper.c`, `libmafw-shared/mafw-proxy-renderer.c` | pending calls and the references they hold, buffering throttle | playback calls, status, positions, metadata, playlists; the renderer's signals |
| extension wrapper | `mafw-dbus-wrapper/extension-wrapper.c`, `wrapper.c` | exported extensions, activation counts per client | export, unexport, set/get property, exit of a client |
| discovery | `libmafw-shared/mafw-shared.c`, `mafw-proxy-extension.c`, the constructors of the proxies | the registry's proxies, their object paths, match rules, references to the connection | hello, listed names, NameOwnerChanged, the handshake of a proxy, names |
| marshalling | `common/mafw-dbus.c` | none | C values and errors to and from messages |

The daemon's registry owns the playlist structures; requests come in over the
bus one at a time and are handled to the end; a change of a playlist starts its
timer, and the timer calls `save_me()`. Clients see the registry through proxy
playlists, which call the daemon synchronously, and through the playlist
manager, which also listens to the daemon's signals. What is hard here: play
orders that survive any sequence of edits and walks; saving by timers, with
failures, kills and leftovers of earlier saves; use counts against clients that
come and go; caches of one process about another; batches and cancels that
cross on the bus; registries that follow services which come and go; answers to
proxies that nobody holds any more. `PROJECT.json` lists these hazards line by line with the
properties that address them.

What makes the components correct:

* playlist structure: `pidx` and `iidx` are inverse permutations; walking never
  reorders what was played; a player is told the end only at the end.
* files: no completed save is lost, no edit stays unsaved, what is destroyed
  stays so.
* registry: the two trees agree, ids are not given twice, used playlists cannot
  be destroyed, and the uses of a client that is gone are given back.
* manager: every creation and destruction is announced once; no destroyed
  playlist is kept.
* browse: each result is delivered once, in order, and none after the cancel or
  the last one.
* discovery: the registry holds a proxy for just the extensions on the bus, both
  sides call them by one name, and the connection's references balance.
* renderer: both sides agree on what each message holds; a caller is told once,
  and what the renderer said; buffering reports end with the last one.

## Modules

| module | models |
|---|---|
| `PlayOrder` | abstract: what a playlist promises its players (items, the played positions, a pool) |
| `APlaylist` | every operation of `aplaylist.c` on the structure `Pls`, its dirty flag and timer |
| `PlaylistFile` | `APlaylist` with its file, the life of the daemon process, saves that fail and kills |
| `Playlist_proofs` | theorems about `APlaylist`, its refinement of `PlayOrder` among them, and about `PlaylistFile` |
| `PlaylistDaemon` | the daemon's trees, use counts and holders, clients and their requests, restarts |
| `PlaylistDaemon_proofs` | theorems about `PlaylistDaemon` |
| `BrowseDelivery` | abstract: what browsing a remote source promises an application |
| `BrowseSession` | the batches of the source wrapper, the requests of the proxy source, the bus between them, a source and an application |
| `BrowseSession_proofs` | theorems about `BrowseSession`, its refinement of `BrowseDelivery` among them |
| `PlaylistManager` | the objects the playlist manager of an application keeps, the daemon's create, dup, destroy and list requests with their signals, a restart of the daemon |
| `PlaylistManager_proofs` | theorems about `PlaylistManager` |
| `PlaylistImport` | imports, from the application's call over the daemon's metadata request and browse to the callback; cancels |
| `PlaylistImport_proofs` | theorems about `PlaylistImport` |
| `ExtensionWrapper` | the extensions a wrapper process exports, who activated them, their clients |
| `ExtensionWrapper_proofs` | theorems about `ExtensionWrapper` |
| `Marshal` | values, arguments and errors as D-Bus messages, and back |
| `Discovery` | the services on the bus and what an application makes of them: registry, proxies, handshake, names |
| `Discovery_proofs` | theorems about `Discovery` |
| `Renderer` | a proxy renderer, the wrapper of its renderer, and the messages between them, as `Marshal` builds them |
| `Renderer_proofs` | theorems about `Renderer`, and about `Marshal` for its messages |
| `MC...` | the instances for TLC |

### APlaylist

The arrays are functions over `0 .. len-1`; the allocated tail of `alloc` is left
out, a call the code refuses is a stuttering step. Random draws are a choice
over all elements of the pool. An operation's answer is kept in `reply` until
the next step that replaces it, so that invariants can relate the answer of
`pls_get_next(i)` to the order in which it was given.

`Spec` lets a caller do everything. It does **not** keep the arrays well formed:
`pls_remove()` of an item that was already played, while others still wait in
the pool, closes the gap only within the played part, and the truncation then
drops the last element of the pool (`LeavesHole`). After that the code reads
stale entries. Run `playlist_hole` shows the shortest case: two items, shuffle,
get the starting item, remove it. Everything else is stated of `SafeSpec`, which
is `Spec` without that call; theorem `OnlyHolesBreak` proves that nothing else
needs to be excluded.

`ImplementsPlayOrder` is the refinement to `PlayOrder`: the items are
`vidx`, the played positions are `pidx[0 .. poolst-1]`, the pool is the rest.

### PlaylistFile

`pls_save()` writes `<id>.tmp` and renames it. Its outcomes are `ok`, `write`
(the .tmp file could not be opened, or not be written to the end and was
unlinked) and `rename`. A kill may come between two events or leave a .tmp file
that is empty, cut off before its last line (`Junk`), cut in the middle of the
last object id (`CutOff`), or complete. At start, the first pass of
`load_playlists()` handles .tmp files by their name relative to the current
directory (`Cwds`), the second loads every file it finds. The history variable
`kept` holds the contents a restart may bring back: the last save that was
written completely, renamed or not. A later save that fails unlinks the .tmp
file of an earlier one whose rename failed, and with it that earlier save; `kept`
follows the code there. `CONSTANT Cut` is what `sscanf("%ms")` leaves of an
object id: the code cuts ids at white space although the format says they last to
the end of the line; the runs use ids without it.

`NoEditForgotten` and `EventuallySaved` compare everything but the play order of
a shuffled list: walking changes `pidx`, `iidx` and `poolst` without marking the
playlist dirty, so the play order on disk may be older.

The errors of `fflush()` and `fsync()` that the code ignores, and the file format
of version 1, are not modelled.

### PlaylistDaemon

One action per request, on the head of the queue `inbox` in which the bus has
ordered requests and `NameOwnerChanged` signals; `Requests` are the messages a client
may send. `holders` is
`_usecount_holders` with each list as a count per playlist; a client has a match
rule just while its list is not empty, so `Vanish` queues a signal only then.
`mine` is what the client knows: acknowledged uses it did not give back.

Names and ids are on disk as `saved` and, in .tmp files, as `tmp`; `unsaved` are the
playlists with a running timer. Each save has an outcome (`pls_save`): the .tmp
file cannot be opened (an older one stays), cannot be written (it is unlinked), or is
complete and cannot be renamed. A save by the timer that fails leaves the timer
running; at exit each playlist gets one try. At start the .tmp files are renamed
(`Recovered`) and every file is read (`load_playlists`). The daemon may be started
elsewhere than in the playlist directory, where it does not find the .tmp
files by their bare names and reads them beside the others. When two files are of one
playlist or have one name, the directory's order decides which is read last; the model
lets either win, for each playlist and each name by itself, which is more than an
order allows. .tmp files cut short by a kill are in `PlaylistFile`.

`Faults` chooses what may happen: `exit` (SIGTERM) and `kill` of the daemon, `save`s
that fail, a start `elsewhere`,
`busy` clients that die while a call is under way (the daemon sets up its match
rule only when it handles the call, so their use is never given back; the runs
exclude it), and `stranger`s that give
back uses they do not have.

`RestartKeepsPlaylists` compares what a daemon had when it ended (`had`) with what
the next one has. `lost` records the three ways in which the code does not keep its
playlists: a daemon ends with a change that is not even in a .tmp file, by a
kill before the timer or by a failing save at exit; a .tmp file is left of a playlist
that was destroyed; a start elsewhere reads .tmp files beside the files they were for.
Failed renames, of any number of playlists in any number of daemons, are not among
them. `TreesAgreeUnlessLost` has the same exceptions: after a lost rename two files may
have one name.

What `dup` copies into the new playlist is left out.

### BrowseSession

One action per handler on each side. The application's calls block it, so that
result messages wait in `results` until the main loop runs (`Dispatch`); a
callback may itself browse and cancel, in the middle of a message
(`Callback` ... `Returned`). On the other side the source may give results
before its `browse()` returns (`Browsing`), while the wrapper's timers and idle
functions cannot run. `bdata` tells whether a request's `struct browse_data` is
live or freed, which the code keeps track of by three different routes (the
table, the idle removal, the invalid id).

A request stands for its browse id, so ids are unique, though the code has
one table for all sources of a wrapper and relies on the framework for that.
`ErrorEnds` is the wrapper's own assumption that a source ends with
`remaining_count` 0: without it the proxy's entry of a request that ended in an
error stays for good, because the wrapper ends a request on an error and the proxy
only on the count. `metadata_keys`, filters and the metadata of a result are left
out, as is the time of the batch timer (any time is a behaviour). So are two early returns
that the framework's contracts rule out: a result of a source without an object path
(`source-wrapper.c:130`; the path is there before the first request), and an invalid
browse id returned without a callback (`source-wrapper.c:477`), for which nobody would free
the data and answer the call.

`ImplementsDelivery` refines `BrowseDelivery` under the identity on the history
variables `status` and `delivered`; TLC checks it on the instance and `DeliversResults` proves
it.

### PlaylistManager

Each application has its manager; the daemon's requests are the ones of
`PlaylistDaemon`, seen from outside: names are left out, so `create_playlist` may
return any playlist there is or a new one, and a destroy may fail. A call blocks
its application (`call`); signals wait meanwhile (`signals`), so that a reply
overtakes the signals sent before it. `refs` counts the references of the
application to the objects in `.playlists`, `old` are objects it still has though
`.playlists` lost them. `Others` are the requests of applications that are not
followed. A signal handler of the application that calls the manager is covered,
because the handlers change nothing after they have emitted a signal; the loop
after a restart (`Refetched`), which emits several, is taken as one step.

`Swept` is that loop as the code has it. It compares the ids by the wrong index
and skips an object after each removal, so after a restart `.playlists` can lose
playlists that exist and keep others: run `manager_restart`. What the passing run
claims of the objects therefore ends with the first restart; calls and
requests are followed through it.

### PlaylistImport

`import_playlist()` of a file parses it at once and tells the application before
it replies; that of an object waits for metadata and, for a container, for a
browse. The source is seen through what `BrowseDelivery` promises: items in order,
an end or an error, and nothing after a cancel. `size` is the number of items,
`urilist` those that have come. A cancel marks an import that waits for metadata
and ends a browse at the source.

A browse that the source refuses ends in `import_done()`, and then the code
assigns `browse_id` in the data it has just freed
(`playlist-manager-wrapper.c:451`); an import that is cancelled during its browse
is never freed (the exception in `DataLivesWithWork`).

### ExtensionWrapper

`Exports`, the table `source_activators` (a set of extensions per client) and the
count on each extension, with the messages of applications on their way.
`wants` is what an application last said of an extension. Setting "activate" has
no reply, so an application may leave with the message under way; the wrapper
then sets up its watch too late and the extension stays active: `unheard` are
these clients, and `ActiveIsWanted` excepts what they asked for
(`mafw-dbus-wrapper/extension-wrapper.c:164`).

`Faults` holds two cases the code does not handle, excluded in the run. With
`taken`, the service name of an extension belongs to another process and it is not
exported; when it leaves the registry, the search in `wrapper_unexport()` runs off
the list and the code takes the last entry, which is another extension's: its
export is released and freed though it is still in the list
(`mafw-dbus-wrapper/wrapper.c:214`), and `NoDanglingHolder` fails. With `readd`, an
object that was removed is added again with the count it had.
What a freed entry leads to is not followed.

### Marshal

A message is a sequence of items, each with its D-Bus type, as an iterator of
libdbus walks over it. `clever_append_valist()` builds it from the arguments of
the sender, `clever_parse_valist()` reads it by the types the receiver wants;
both end in `_die()`, here `Dies`, when that fails. Values change only where C
changes them, so that a number sent as `u` comes back modulo `UintMod`. An error
crosses as `domain:code:message`, here a sequence of words and colons.
Conversions are functions without recursion: a `GValueArray` is always the last
argument of a message, and the k-th argument therefore the k-th item.

An empty `GValueArray` is sent but cannot be read (`mafw-dbus.c:574` moves to the
first element before it knows that there is none), so `metadata-changed` without
values would abort each application that listens. `Faults = {"empty array"}` of
`Renderer` shows it (`MessagesParse` fails); the run leaves it out.

### Discovery

`toExt` are the calls on their way to an extension and `inbox` what the
application's connection has received, in the order of the bus. A proxy goes
from `naming` to `listing` to `registered` with the answers of its handshake
(`got_name`, `got_prop_lists`), and is `kept` when the registry has given it up but
the application has not. A call to a service that left is answered with an error
by the bus (`NoAnswer`), which the handshake takes for an answer without a name or
properties. `mafw_shared_init()` waits on the spot for the list of names, so
three steps stand for it, between which the application handles nothing.

The properties hold but for three cases that the code gets wrong, each
recorded in a history variable:

* `outlived`: an extension ends while its proxy is in its handshake or before its
  match rule is there. `NameOwnerChanged` finds nothing to remove, the answers with
  errors put the proxy into the registry, and it stays there
  (`mafw-shared.c:194`, `mafw-proxy-extension.c:327`).
* `blocked`: an extension comes back while the application keeps the old proxy:
  its object path is in use, the new proxy cannot be made, and nobody tries again.
* `refused`: that proxy gives the reference to the connection back twice, on the
  error path of its constructor and when it is disposed of
  (`mafw-proxy-renderer.c:1087` and `1021`).

The match rule of a new proxy is added on the spot, after the question for its name
was sent (`mafw-shared.c:123-137`); one step stands for both. An extension that ends
between the two is not noticed, one that ends just behind them finds nothing to remove:
both are `outlived`.

Two extensions share nothing but the connection and the order of the messages, so
the run has one, with three lives, two calls of `mafw_shared_init()` and two
renames. Extensions have different uuids. Errors of the bus when a match rule is
added are left out.

### Renderer

One action per operation of the proxy (`play` ... `get_extension_property`), per
handler of the wrapper and per signal of the renderer. `pending` are calls that
wait for an answer; the D-Bus library answers them itself when the wrapper is gone
or late (`Timeout`, `Crash`, `UnknownMethod`), and drops what comes later.
`assign_playlist()` blocks the application and takes its answer past what waits to be
dispatched (`AssignReturns`). `refs` counts the references to the proxy; each call
but two holds one until its parameters are freed. The two sides of the table of
messages are written down as the code has them, the sender's arguments
(`Call`, `ReplyArgs`, `Emit`) and the receiver's types (`RequestWants`, `ReplyWants`,
`SignalWants`), and `MessagesParse` compares them.

`get_extension_property()` holds no reference (`mafw-proxy-extension.c:196`,
"XXX should we ref @self?"): its answer may come with a proxy that is gone, which
`RefsAreHolders` excepts.

`get_playlist` is what the playlist manager may find for an id: its object, which it may
still keep of a playlist that was destroyed; none, when the daemon knows none; and none
with an error, when the daemon cannot be asked. `mafw_proxy_renderer_get_status_cb()`
drops that error (`mafw-proxy-renderer.c:544`), so a caller may be told no playlist, and
no error, of a playlist that exists. `unasked` records these calls, and
`OutcomeIsTrue` excepts them and no others: of every other status the playlist is told,
unless it is gone. The wrapper does look at the error when it assigns a playlist
(`Assignments`); but one that is gone is no error, and the assignment is acknowledged
with none assigned (`renderer-wrapper.c:281`).

The throttle is `timer` and `last_state`; `reported` is what the renderer said last,
`View` what the application will have been told when all signals are dispatched.
What the signals other than state and buffering hold does not depend on what is
under way, so they are sent when nothing is (a bound).

## Runs

| run | instance | shows |
|---|---|---|
| `playlist` | 2 ids, up to 3 items, 2 per insert; 8 000 states | all properties of `APlaylist` for callers of `SafeSpec` |
| `playlist_hole` | the same, `Spec` | **violation** of `pls_check()`, see above |
| `file` | 1 id, up to 2 items; 360 000 states; all faults, started in the playlist directory | a restart brings back the last completed save, no edit is forgotten, edits reach the disk |
| `daemon` | 2 clients, 2 ids, 2 uses each; 12 000 states | use counts, holders, destroys and exits of clients |
| `daemon_restart` | 1 client with one request under way, 2 interchangeable names, 3 ids; 780 000 states | names, ids and files over failing saves, exits, kills and starts in any directory |
| `browse` | two browses of up to 4 and 2 results, batches of 1, then 2; 61 000 states | order, completeness, no result after a cancel, no freed data in use, both sides forget |
| `manager` | one application among others, 2 playlists, 2 references, 2 messages under way, 1 restart; 220 000 states | the manager's objects are the daemon's playlists but for signals on their way |
| `manager_restart` | the same | **violation** of the comment at `mafw-playlist-manager.c:349`, see above |
| `import` | 2 imports of up to 2 items; 20 000 states | one answer, complete playlists, cancels that hold |
| `extension` | 2 applications, 2 extensions, 3 messages under way; 300 000 states | extensions are active just while they are wanted |
| `discovery` | 1 service with 3 lives, 2 names, 2 inits, 2 renames; 540 000 states | the registry, the names and the connection follow the bus, but for the three cases above |
| `renderer` | 2 calls, the first of each operation, the second one that blocks or one that holds the proxy, 3 reports or signals, 2 events with a call among them; 280 000 states | messages parse, callers are told once and truly, the throttle keeps the last word |

Three items are enough for a played part, a drawn element and a pool that are
all nonempty, and two per insert for every shift of the arrays; every operation
of `APlaylist` moves at most these three regions. Two items are enough for a play
order on disk that differs from the identity. In the daemon two clients and two
playlists give every interleaving of uses of one playlist and a destroy of it,
and two names with three ids a rename that frees a name for a later playlist; one
request under way is enough in `daemon_restart`, where the requests of one client are
handled in their order whether or not they wait together, and the end of the daemon, which
loses them, is the same as if they had not been sent;
the `guint` modulus 6 is beyond the 4 uses two clients can have. The deadlock
check is off in `daemon` and `extension`: when all clients are gone the
process has nothing to do.

Fairness: `FairFSpec` assumes that the main loop serves an expired timer and that
a save tried again and again succeeds in the end (weak fairness of the successful
save: the code restarts the timer after each failure), and that a stopped daemon
is started again by the bus. `FairSpec` of `PlaylistDaemon` assumes that the main
loop handles the messages of its connection.

Batches of 1 and then 2 with four results give a message sent because it is full
at both sizes, one sent by the timer and one sent because it is the last; the
second browse is there for calls within the callbacks of the first.
`BrowseSession` has no deadlock check: when everything is delivered it stops.

Two playlists and two messages under way are the least for which a created and a
destroyed signal of one playlist wait together while a reply names the other.
The queue bound is a guard of the calls (`Room`), so a request that was sent is
always handled. `FairSpec` of `PlaylistImport` assumes that the daemon and applications
get back to their main loops and that a source answers and ends its browses; D-Bus
answers a metadata request in its place, but nothing ends a browse of a source
that has gone away, and such an import stays open.

`FairSpec` of `BrowseSession` assumes that both main loops run, that the source's
`browse()` returns, and that a callback returns even if it makes calls that
other callbacks could make again (strong fairness of `Returned`). It assumes
nothing about when, or whether, a source gives its next result.

Three lives of a service let a proxy of the first be held while the second is
refused and the third comes; two inits let tracking end and start again among
them. `Spec` of `Discovery` assumes that the main loops of the application and of
the wrapper run, that a wrapper that owns its name says hello, and that the bus
answers. In `Renderer`, three reports are one that starts the interval, one that is
remembered and one that ends it; two calls give an answer that is taken past
another and a proxy held by one call and not by the other; numbers are 4 bits wide,
so that the largest index is negative when it is misread. Its `Spec` assumes
only that the application's main loop runs and that calls time out: nothing of the
wrapper and the renderer. Both stop when nothing is left to do, so the deadlock
check is off.

Further disagreements seen while modelling, for which no run is kept: a kill
in the middle of a save leaves a .tmp file that replaces the good file at the next
start (`playlist-manager-wrapper.c:187`; `mafw-playlist-daemon.c:32` says that saving
is atomic; `SavedComesBack` without `TmpWhole` fails); after a kill two files may
have one name, and destroying both playlists fails the assertion at
`playlist-manager-wrapper.c:634` (`TreesAgree` fails then), and so after an exit whose
saves fail;
`load_playlists()` takes the names of .tmp files relative to the current
directory (`playlist-manager-wrapper.c:183`), so with `Cwds = {FALSE}` the save of
a failed rename is not recovered; an object
id with white space is cut when loaded (`aplaylist.c:903` against `716`); walking
does not mark a playlist dirty though its saved order changes; a destroyed
playlist comes back if a failed rename left its .tmp file (the condition
`tmp = NoFile` of `SavedComesBack`); use counts are lost when the daemon
restarts, so a playlist still in use can be destroyed then; a client may give
back uses of another (`stranger`), which leaves a pointer to freed memory in the
other's list (`UseCountIsHolders` fails); a refused browse lets the daemon write to
an import it has freed (`playlist-manager-wrapper.c:451`), and a source that goes
away during a browse leaves the import unanswered; two sources of one wrapper that
give the same browse id replace each other's request (`source-wrapper.c:70`); after a
kill an id that was never saved is given again, to another playlist
(`playlist-manager-wrapper.c:219`); a status whose playlist cannot be looked up is told
without playlist and without error (`mafw-proxy-renderer.c:544`);
`mafw_playlist_manager_get_playlist()` sets no error when the daemon knows no such
playlist, though its documentation says so (`mafw-playlist-manager.c:613`); a duplicate
of a shuffled playlist does not get its `poolst`, which is assigned to itself
(`playlist-manager-wrapper.c:686`).

## Proofs

`Playlist_proofs` proves of `APlaylist`, for every `OIDs`, `MaxLen` and `MaxInsert`:

* `TypeCorrect`: `SafeSpec => []TypeOK`.
* `PermutationsHold`: `SafeSpec => [](PlsCheck /\ PoolInRange)`. The inductive
  invariant `Inv` is `TypeOK /\ PlsCheck /\ PoolInRange /\ TimerOnlyWhenDirty`:
  `PlsCheck` says that the arrays are inverse to each other, not only that each
  is a permutation, because `pls_remove()` and the walks find a slot of `pidx`
  through `iidx`; and every draw needs the pool in range. The lemmas follow the
  helpers: rebuilding `iidx` from `pidx` gives its inverse when `pidx` is a
  permutation (`ReindexedIsInverse`), a swap keeps inverses
  (`SwapKeepsInverses`), inserting and removing keep permutations.
* `SettledAssertHolds`: `g_assert(pls->dirty)` in `ops_settled()` never fails.
* `OnlyHolesBreak`: of `Spec`, with every caller, the only step from a state of
  `Inv` to one without it is the `pls_remove()` described above.
* `NeighboursHold`: `SafeSpec => []ReplyIsNeighbour`. The property looks at the
  arrays after the answer, and the walks change them while they answer: they give
  the element asked about its place, draw another one, or draw all. `Continues` says
  what they keep: every place given before. What each answer claims of the order it
  leaves (`FoundTrue`, `NoneTrue`) then follows from the two arrays being inverse.
* `PlaysInOrder`: `SafeSpec => ImplementsPlayOrder`, one lemma per operation. The
  sequences of `PlayOrder` are the arrays up to `len` and `poolst` (`Listed`); inserting,
  removing and moving elements of an array is compared with the concatenations
  `PlayOrder` states them by (`InsertedItems`, `RemovedItems`, `MovedItems`). Removing an
  item that has its place closes the gap in `pidx`; this is a removal of `PlayOrder`
  even where the code loses an element of the pool (`LeavesHole`): what that call
  breaks is `Inv`, and with it every later step. For the
  walks, the positions without a place are the pool (`PoolIs`), what is drawn comes from it
  (`FromPool`), and drawing all of it appends the pool in some order (`RestIsOrder`).

and of `PlaylistFile`, for every `Faults` and `Prefix`:

* `LoadedIsSound`: `FSpec => [](TypeOK /\ PlsCheck /\ PoolInRange)`, whatever `Cut`, `Cwds`
  and `Faults` are. `pls_load()` takes `pidx` and the pool from the file and rebuilds `iidx`;
  `Stored` says that both files are missing, not readable, or a permutation with its
  pool in range, the file whose last id was cut off included.
* `EditsAreKept` and `SavesComeBack`: `NoEditForgotten` and `SavedComesBack`. Both suppose
  `ReadAsWritten`, that ids have no white space and that the daemon is started in the
  playlist directory, as in the run; without it the code loses an id's end, or reads a
  left over .tmp file beside the older one. `Promised` ties `kept` to the files: the
  promised contents are in the file unless a .tmp file waits that replaces it at the
  next start, and a destroyed playlist without a .tmp file has none. `NoEditForgotten`
  needs `Stored`: the playlist that was just loaded has no timer though it is dirty, and
  must be what a save of it would write.

`PlaylistImport_proofs`, for any number of imports of any length, without further
assumptions: `CancelsHold`, `DataLives` and `OneAnswer` (`CancelHolds`,
`DataLivesWithWork`, `AnsweredOnce`). The three properties look at the daemon's data
and the application's outcome, which meet only through the messages between them;
the invariant therefore says for each import which of a few situations it is in
(`Fresh`, `Working`, `Finished`, `Orphaned`), and what may be on its way for it in
each (`OnItsWay`, `CalledOff`): a result that was sent before a cancel was
handled is one the application will not be told of.

`PlaylistDaemon_proofs`, with `Typed` (bounds and types), `Named` (trees and files)
and `Counted` (uses):

* `TreesHold`, `FilesHold`, `RestartKeeps` need no assumption beyond the module's own:
  they hold with every fault of `Faults`. `FilesMatch` is not inductive alone. A
  rename leaves the file with the old name until the playlist is saved, and a
  start reads what the last end left. `Settled` therefore says, while the daemon runs, what
  the two kinds of files hold of each playlist that does not wait for its timer, and
  `Named`, while it does not run and nothing was lost, that what it had is what is on
  disk (`OnDisk`, where a .tmp file comes before the file it was for). `EndWritesAll` leads from the one to the other over the saves at
  exit, whatever their outcomes, and `StartReadsAll`, `StartLoads` and
  `StartKeepsNames` from there to what the next daemon reads.
* `UseCountsHold` and `UsedStay` assume `Countable`: no fault, finitely many
  clients, and `Cardinality(Clients) * MaxUse < UintMod`. The code keeps a use
  count in a `guint`, and an overflow would take more than four billion uses at
  once; the clients' `holders` are lists of entries in memory. `Counted` counts the
  entries of all clients (`Entries`), shows that a request changes them by one and
  the exit of a client by all of its own, and ties what a client was
  acknowledged (`mine`) to its list over the requests and replies under way.

`BrowseSession_proofs`, for any number of requests and results and any batch
sizes, without further assumptions. `Sound` says of each request which
data is live, what the wrapper and the proxy keep of it and which messages may be
under way; it gives `TypeCorrect` and `DataIsLive`. `Chains` says that the results in
the dispatched message, those on the bus and those of the batch, in this
order, are numbered without a gap from what was delivered to what the source
has given: that is what batching must not break, and with it every step of
`BrowseSession` is a step of `BrowseDelivery` or leaves its variables alone
(`DeliversResults`).

`ExtensionWrapper_proofs`:

* `HoldersExist` assumes `NameFree`, that the bus gives the wrapper the
  names it asks for: with `"taken"` in `Faults` the property fails, see above. It
  covers `"readd"`.
* `TypeCorrect` and `ActiveWhenWanted` assume `Orderly`: no fault, and finitely many
  clients (a client is a connection to the bus). `Counted` says that the count of an
  extension is the number of its holders and that it is active just when it has
  some. `Heard` relates `wants` to the holders: the last message under way from a
  client about an extension decides what it will hold (`Settles`), the message of its
  departure overrides it, and without one the holders are right already. The
  property itself only speaks of the moment when nothing is under way.

`PlaylistManager_proofs`, for any applications and any number of playlists,
references and messages under way, without further assumptions: `StaleOnItsWay`,
`OneObject`, `EachToldOnce` (`StaleIsOnItsWay`, `SameObject`, `ToldOnce`), each until
the daemon is restarted, as the properties say. The three are about what the
manager keeps; that it is right depends on the order of what waits for it. `Followed`
says of each application and id that the signal of the creation waits at most once and
before that of the destruction (`CreatedOnce`, `InOrderOf`), that what a manager has, or is
about to have from a reply that overtook the signals, is there or its destruction waits
(`Met`), and that what left `.playlists` can be named by no signal of a creation and by
no reply any more (`GoneForGood`). `OneCall` gives the reason a reply is never
older than what the application did since: it waits on the spot for each.

`Discovery_proofs`, for any finite number of services (those a session bus has), lives,
renames and calls of `mafw_shared_init()`: `TypeCorrect`, `RegistryFollows`,
`ConnectionBalanced`, `NamesSettle`. The messages of all services share one queue, so
the invariant speaks of counts and of order for each service. `Handshake` counts the
calls and answers under way: one for the stage the proxy is in and none otherwise. Of
the order it needs three facts: a service that said hello did so behind the end of its
earlier lives (`HelloLast`), the error that answers a question for the name comes behind the
end of the service (`EndFirst`), and the last name under way is the true one
(`TrueLast`). With them `Heard` says what a service that said hello can rely on in each
state of the tracking, `Ended` that the end of a service is under way to its proxy or
was missed (`outlived`), and `Called` that two names can differ only while something is
under way. The four properties say nothing of a service with messages under way;
these say what its messages will do.

`Renderer_proofs`, for any number of calls, playlists, values and reports:
`TypeCorrect`, `RefsHold`, `MessagesUnderstood`,
`OutcomesTrue`, `ThrottleLosesNothing`. `OutcomesTrue` has the exception of
`OutcomeIsTrue`, the lookups that failed. They suppose `NullIsNoRecord`, that NULL is not
one of the records beside which the model keeps it, as it is in the run, where it is
a model value; `MessagesUnderstood` supposes besides that no renderer signals
metadata without values (`Faults = {}`), with which it fails, see above.

* Each kind of message is shown to be read back as it was sent, through
  `clever_append_valist()` and `clever_parse_valist()` of `Marshal`: the calls with their
  arguments, the answers, the signals, and the error text, whose code is negative
  and whose message may hold colons itself; a GValue of each type that can be sent
  comes back with its value.
* `Books` says who waits for what, and through whose reference: a call in
  `pending` counts in `refs` unless it is one of the two that take none. With it,
  `RefsAreHolders` is a count over a finite set.
* `Work` places each call once: on its way, worked on, or done. `Mail` says that what a
  message to the application says is so, whoever sent it, and that it stays so.
* `Truth` relates what a caller was told to `done`. The difficult case is a late answer:
  of a call that the bus gave up, the bus's answer is the first of its answers under way
  (`LostAnswer`), so that the renderer's comes when nobody waits any more.
* `Throttle` follows the queue: what the application will have seen when all signals
  under way are dispatched (`ViewOf`) is what the renderer reported last, unless
  `timer` says that the end of the interval will still report it.

In these modules sequences (queues, batches, `Exports`) are reasoned about by small
lemmas on the operators of the model, stated once for any sequence. Where one is
computed by recursion (`FlattenSeq` in `Marshal`), the induction over its length is
done with a set of numbers that is closed under the successor (`Induction` of
`Renderer_proofs`). Every safety and action property of a passing run is
proved, and both refinements. Liveness is out of the prover's reach and left to TLC:
`EventuallySaved`, `GoneEventuallyReleased`, `ResultsArrive`, `NothingLeaks`,
`EventuallyAnswered`, `EventuallyRegistered` and `CallsAnswered`. What the models need of the order in which a set
is walked (the signals of a list, the errors for the calls of a service that left) is
written as some bijection with an interval, which the prover can reason about.

## Not modelled

Not modelled: the proxy source's requests other than browsing (metadata, creating
and destroying objects), which forward one call each in the way of the
renderer's; the calls of `mafw-proxy-playlist.c` other than the use counts, which
wait for their answer on the spot and keep no state; arrays of structures and
savepoints in messages. Left out for good: logging, packaging, `doc/examples`, tests
and mocks. The wake-up a SIGTERM may miss between the test of `done` and the poll
in the main loop of the playlist daemon (`mafw-playlist-daemon.c:137`) and the `-k`
switch need a model of the process's signal handling; the signal is modelled as
served at once.
