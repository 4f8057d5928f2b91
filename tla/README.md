# monero-java, specified

TLA+ models of the parts of monero-java that have state of their own and
behaviours that tests hardly reach, the TLC instances that check them, and
TLAPS proofs of what matters most for every value of the constants.
`src/` below stands for the repository's root, `J/` for `src/main/java/monero/`
in it, and `C/` for `src/main/cpp/`.

- `tlc -config X.cfg MCModule.tla` runs an instance; `PROJECT.json` lists them
  under "runs" with what each shows.
- `tlapm ModuleProofs.tla` checks the proofs of a module.

## 1. The system

monero-java is a client library.  It reaches the Monero network through two
kinds of servers and one native library:

```
 application ── MoneroDaemon ──── MoneroDaemonRpc ──HTTP── monerod
      │                             └ MoneroDaemonPoller (threads)
      └──────── MoneroWallet ─┬── MoneroWalletRpc ──HTTP── monero-wallet-rpc
                              └── MoneroWalletJni ──JNI── bridge ── monero-cpp (threads)
```

### Components

| Component | State it keeps | Operations | What is hard | What makes it correct |
|---|---|---|---|---|
| Block notifications (`J/daemon/MoneroDaemonRpc.java` 860-892, 1520-1608, `MoneroDaemonListener`) | the list of listeners, the current runnable, one thread per runnable with its last header | add and remove a listener, `getNextBlockHeader`, poll | two kinds of monitors, listeners that change the list under its iteration, a terminated thread beside its successor, failures of the server | a thread runs exactly while somebody listens; no notification is lost; nobody is notified by two threads at once; calls return |
| Native wallet: listeners and life (`J/wallet/MoneroWalletJni.java`, `C/monero_wallet_jni_bridge.cpp`) | closed flag, set of listeners, handle of the native listener; in the bridge, native listeners and a global mutex | add and remove listeners, sync, start and stop syncing, close, everything else | callbacks from native threads that hold the mutex and call back into the wallet, close beside a background sync | the C++ wallet has a listener exactly while there are listeners; none is deleted while it delivers; nothing runs on a deleted wallet; methods return |
| RPC wallet: session, addresses, accounts (`J/wallet/MoneroWalletRpc.java`) | path of the open wallet, cache of addresses | open, create, close, stop, addresses, subaddresses, accounts, multisig keys | methods of several requests that fail in the middle, lost replies, a server that crashes or that others use, a cache that must follow the server | the cache is transparent; a session is about one wallet; effects happen at most once, and a normal return means they did |
| RPC wallet: transactions, transfers, outputs (`MoneroWalletRpc.java` 797-916, 1760-2000, 2400-2600) | none | `getTxs`, `getTransfers`, `getOutputs` | one answer built from several requests between which the wallet changes; filters applied before and after the merge | every transaction once, consistent, complete with respect to the query |
| RPC wallet: sending, sweeping, relaying (`MoneroWalletRpc.java` 976-1230) | none | `createTxs`, `sweepUnlocked`, `relayTxs`, ... | several requests with effects, of which one fails | only what was asked for is spent and relayed; a method that returns tells of every transaction it made; a sweep leaves nothing behind |
| RPC wallet: the rest (balances, keys, proofs, messages, address book, mining) | none | one request each | - | conversions |
| Convenience methods (`MoneroWalletBase`, `MoneroDaemonDefault`) | none | overloads with defaults | - | arguments arrive where they belong |
| Transactions and blocks: merge (`J/daemon/model`, `J/wallet/model`, `common/utils/GenUtils.java`) | object graphs with back references | `merge`, `reconcile` | values from two moments, order of merging, cyclic references, boxed integers compared with `==` | merging ends, loses nothing and rejects contradictions |
| Queries (`MoneroTxQuery`, `MoneroTransferQuery`, `MoneroOutputQuery`) | nested queries | `meetsCriteria` | mutual recursion between the three | a query selects what its fields say |
| Daemon RPC: blocks and headers (`MoneroDaemonRpc.java` 150-340, 920-970) | cache of headers | block ranges in chunks bounded by bytes | a cache that a reorganization makes false, the boundary of the chain | every block of the range once, in order |
| Daemon RPC: the rest | none | one request each | - | conversions |
| Native wallet: creation, conversion, marshalling | none beyond the above | one native call each | a wallet that was opened while its constructor fails | - |
| RPC connection (`J/common/MoneroRpcConnection.java`) | an HTTP client | send a request | lost requests and replies; there are no retries | every failure is an exception |
| Utilities, data classes, tests and samples | - | pure functions, getters and setters | - | - |
| monero-cpp, monerod, monero-wallet-rpc | external | | | |

### Interactions

The daemon's and the wallets' components do not interact with each other.
`MoneroDaemonRpc` calls its poller under no lock; the poller calls listeners
while it holds the monitor of the listener list.  `MoneroWalletJni` calls the
bridge, and the bridge calls `WalletJniListener` back, on the thread inside
`sync` or on monero-cpp's background thread, while it holds `_listenerMutex`.
`MoneroWalletRpc` sends requests and is called by nobody else; its server may
have other clients.

The hazards of the code, each at its line, are listed in `PROJECT.json` under
"hazards", with the properties that would catch them going wrong.

## 2. The plan

Most important first; all of it is written, model-checked and proved, as far as
the proof system reaches: every invariant and every action property that a run
checks, and every refinement, is also a theorem, except MergesAsObjects, which
is about a recursive definition.  What else stays with the model checker is
liveness, since TLAPS has no proofs about fairness and ENABLED, and
the runs that expect a violation.  Of three of the liveness properties, that the
calls of 3, 5 and 6 return, the half that is about steps is proved: every step
brings the end nearer.

1. **DaemonPoller** - the only component with threads and monitors in Java.
2. **WalletJni** - the only component with native threads.
3. **WalletServer**, **WalletService**, **WalletRpcSession** - the server, what
   the wallet interface promises, and the session that implements it.
4. **WalletFunds**, **SendService**, **WalletRpcSends** - the outputs that the
   server's wallet holds, the promise of the methods that create or relay
   transactions, and these methods request by request.
5. **BlockChain**, **BlockService**, **ChunkedBlocks** - the chain, the promise
   of the methods that read a range of blocks, and these methods with their
   chunks and their cache.
6. **WalletLedger**, **WalletRpcTxs** - the transactions of the server's
   wallet, and `getTxs`, `getTransfers` and `getOutputs` with their queries and
   their merging of responses; **TxObjects** - this merging object by object.
7. **DataInduction**, **ChunkedBlocksProofs** - proofs for 5: all its safety
   properties for chains, chunks and caches of any size, and the refinement of
   BlockService.
8. **TxMergingProofs**, **WalletRpcTxsProofs** - proofs for 6: what merging
   yields, and all safety properties for any ledger and any queries.

Each module of proofs extends the module it is about.  The library's induction
theorems take a predicate as a parameter and cannot be applied by the provers
at hand.  `DataInduction` derives induction for *sets* of natural numbers from
the fact that a well-founded relation has minimal elements, which takes no
predicate, and from it what SumFunctionOnSet of the community modules yields;
`TxMergingProofs` does the same for FoldLeft.  So sums of chunk sizes and merges
of a list of transactions are reasoned about for every input.

## 3. DaemonPoller

### What is modelled

One variable per field (`listeners`, `runnable`, `isTerminated`, run()'s local
`lastHeader` as `last`, `MoneroDaemonListener.lastHeader` as `seen`) and one
program counter per thread.

- *Application threads* call `addListener` and `removeListener`.  Both hold the
  monitor of the list from beginning to end and call nothing that blocks, so
  each is one step that needs `lock = Null`.
- *Calls of getNextBlockHeader* (Waiters; each call is made once) go through
  `Call`, `CallRegisters`, `CallWaits`, a notification, `CallResumes` and
  `CallReturns`; `sync` is the set of calls that hold their `syncObject`.
- *Polling threads* go through `Baseline` (the first header), `Continue` or
  `Exit` (the while condition), `Fetch` (after the interval), `Enter` (the
  monitor), one step per listener, and `Leave`.  A listener may be ordinary,
  may unregister itself (`OneShot`) or throw (`Throwing`), or belong to a call.

Details that matter and are kept: the ArrayList's iterator (`hasNext()`
compares the cursor with the size, `next()` throws if the list changed); an
exception that leaves run() while `runnable` still refers to the dead thread;
`isTerminated`, which is neither volatile nor read under a lock, may be read
late (`Continue` is possible when it is set, but not for ever: `Exit` is fair);
InterruptedException in `sleep` and in `wait`; spurious wakeups.

A header is the number of the change of the tip that made it the last header:
the poller only compares hashes.

### Runs

| Run | Instance | Shows |
|---|---|---|
| poller_safety | three kinds of listeners, one call, two polling threads, two tips, failures, interrupts and spurious wakeups; 384 thousand states | TypeOK; OneNotifier; PollingIffListening; NoOrphanRunnable; NoLostNotification; ReturnedUnregistered; RoundReachesAll |
| poller_liveness | a listener that comes and goes, one call, two threads, three tips, no failures (67 thousand states) | TerminatedExits, ListenersHear, CallReturnsOnNewBlock, each "or `Deadlocked`": nothing but the deadlock that poller_deadlock finds keeps a thread, a listener or a call waiting |
| poller_deadlock | the smallest instance | the finding below |

Bounds: `MaxTip` changes of the tip (a poller compares one header with the
previous one, so two changes show every order of a change and a step);
`MaxRegistrations` entries in the list (an entry before, at and after the
cursor); two polling threads (a terminated one and its successor; a third adds
a second terminated one that does the same).

Fairness: weak fairness of every step of a polling thread and of a call, that
is, threads run; strong fairness where a step needs a monitor that others take
and give back (Java's monitors are not fair, but a polling thread gives the
monitor back for whole intervals); none for the application, for the daemon's
chain, for failures and interrupts.

The liveness properties are about an application whose listeners do not
register or unregister from their callbacks, and a server that answers: one
failing request ends the polling thread for good (see "Findings").

### Proofs (`DaemonPollerProofs`)

For any number of listeners, calls, threads, and any bounds: TypeOK,
OneNotifier, PollingIffListening, NoOrphanRunnable, NoLostNotification,
ReturnedUnregistered and RoundReachesAll.  The inductive invariant is
`InductiveInv`: *RunnableInv* ties runnable, lock, pc and isTerminated
together (who holds the lock is iterating; a thread that is not told to
terminate is the runnable), *CallsInv* ties a call's program counter to its
registration and its syncObject (a call that waits is registered and not yet
notified, which is what NoLostNotification needs), and *RoundReachesAll* counts
the visited entries.  Facts about `RemoveAt` on sequences are lemmas of their
own.  The liveness properties are model-checked only.

## 4. WalletJni

### What is modelled

A *caller* is an application thread, or `Callback`: the code of a listener,
which calls the wallet on the thread that notifies it.  A caller runs one
method at a time, step by step: `Begin` (with assertNotClosed), the body, and
the steps of `setIsListening` and `setListenerJni` - read the old handle,
remove the old native listener, delete it (its destructor takes
`_listenerMutex`), make and register the new one, store its handle - between
which other threads run.  A *notifier* is the thread inside `sync` or the
background thread: it finds a registered native listener, takes the mutex,
copies the set of listeners, tells them one after the other, and gives the
mutex back.

The five notifications are one: they differ in what they carry.  `sync` is
called with the default start height.  Copying the LinkedHashSet while another
thread changes it may throw ConcurrentModificationException.  A native call on
a deleted C++ wallet is undefined behaviour: the caller goes to "undefined" and
is followed no further.  A notification that calls a native listener which was
deleted meanwhile reads freed memory: it finds the null reference that the
destructor left, or the listener that was made at the same address; the third
outcome, a crash, leaves no state to follow.  Likewise two threads that delete
the same native listener: either nothing more happens, or the process ends.
External, and assumed of monero-cpp: it notifies the
registered listeners only, from those two threads; closing a wallet waits for
the background thread; a native synchronization ends.  What happens when
saving fails inside `closeJni` is not modelled (the exception leaves a JNI
function and ends the process).

### Runs

| Run | Instance | Shows |
|---|---|---|
| jni_listening | one application thread that calls everything; a listener that throws and one that may call the wallet's other methods (63 thousand states) | TypeOK; DeliveryExclusive; OneNativeListener; ListensForListeners; SilentWithoutListeners; DeletedAfterClose; MethodsReturn; NotificationsEnd |
| jni_reentrant | the smallest instance | the finding below |

Bounds: two addresses for native listeners (the old one and its successor are
never alive together with a third); one or two listeners (one per kind).

Fairness: weak fairness of the callers' and the notifiers' steps; strong
fairness of `SyncEnds` (a native sync is finite, but is held up while its
thread notifies) and of `EnterListener` (the mutex is taken and given back by
others, and threads pause between notifications).

### Proofs (`WalletJniProofs`)

TypeOK and DeliveryExclusive for any threads and listeners, also several
application threads and listeners that register, unregister and close, which no
run has, from *MutexInv* (a delivery holds the mutex and its native listener is
alive).  The other
properties are about the documented use, one application thread and listeners
that do not call the listener methods (`SingleCaller`); the inductive invariant
`InductiveInv` says where each method can be (*LabelInv*), what the handle, the
native listener and the registration are at each step of setListenerJni
(*HandleInv*), whether there is to be one (*ListenInv*), and what is known of
closed wallets and of callbacks (*ClosedInv*, *NotifierInv*, *CallbackInv*).
OneNativeListener needs the assumption: a callback that adds a listener before
`StoreHandle` reads the old handle and makes a second native listener.
Liveness is model-checked only.

## 5. WalletServer, WalletService and WalletRpcSession

### What is modelled

**WalletServer** is monero-wallet-rpc, external, as far as the client relies on
it: at most one open wallet; wallets with accounts and subaddresses; an address
stands for a wallet, its keys, an account and an index, so that addresses
change when the keys do.  **WalletService** is what the interface
`MoneroWallet` promises, with neither a cache nor requests: a method takes
effect at most once between its call and its end; it returns normally only
after the effect; an address that is returned is the one the wallet has then;
the path names the wallet the client opened.

**WalletRpcSession** is the code.  `path` and `cache` are its fields; `call` is
the method that runs, with the next request it sends and what it has collected
so far.  One step is one request, carried out, refused or lost, with the code
up to the next request: only the client's own thread reads its fields.  Kept:
the order of requests and assignments (`close` forgets before its request,
`openWallet` sets the path after it and sets the daemon last, `getSubaddresses`
caches after the balances), the recursion of `getAddress`, the indices by which
`getAccounts` finds the account of a balance, and which exceptions `isClosed`
takes for an answer.

Abstracted: the three ways to create a wallet are one action (they differ in
the request they send); arguments that are refused before the first request are
left out; a lost reply of a request that only reads is like a lost request;
balances are only what their indices say.  The methods that touch neither path
nor cache and change nothing on the server that the properties see are left
out.  Unsaved data of a wallet is not modelled, nor are two threads that share
one MoneroWalletRpc; another *client* of the server is the action
`OtherClient`.

### Runs

| Run | Instance | Shows |
|---|---|---|
| rpc_session_service | two wallets, two accounts, two subaddresses, every method except multisig and tags, lost requests (124 thousand states) | TypeOK; CacheIsTrue; OneWallet: path, cache and open wallet are about one wallet; ImplementsService: the session refines WalletService |
| rpc_session_returns | one wallet, every method and every fault: lost replies, crashes, another client, a change of keys | CallsReturn |
| rpc_session_multisig | the smallest instance | the finding below |

Bounds: two wallets (a former and a present one), two accounts and two
subaddresses (one that is cached and one that is not; an index that is in
place and one that is not), one change of keys (old and new).

Fairness: weak fairness of the client's steps: its thread runs, and every
request is answered or fails (the HTTP client has timeouts).  None for the
server's crashes, its restart, or other clients.

The refinement mapping sends the running call to its method and arguments, with
"done" once openWallet or createWallet has only the daemon left to set; the
client's requests in between are stuttering steps or internal steps without
effect, and the cache maps to nothing.

### Proofs (`WalletRpcSessionProofs`)

For any wallets, accounts, subaddresses and methods: TypeOK under every fault;
OneWallet if no other client uses the server and no reply is lost
(`SoleClient`), however often requests fail and the server crashes; CacheIsTrue
and ImplementsService if besides the server does not crash and no method
replaces keys (`Faithful`).  The inductive invariant is TypeOK,
*StepFollowsMethod* (which method can be at which request), *CacheIsTrue* and
*FetchedIsTrue* (the same of addresses that getSubaddresses holds until the
balances have arrived, without which caching them later could not be shown to
be true).  Adding accounts and subaddresses never changes an address that
exists, which is what keeps the cache true (`AddressesStay`).  Each assumption
is needed: rpc_session_multisig shows what a change of keys does, and a lost
reply of open_wallet leaves the cache of the former wallet.  OneWallet
with crashes and changes of keys is proved only.

CallsReturn needs fairness and is model-checked; that no method goes on for
ever is proved under every fault (`CallsAreBounded`): each of its steps leaves
fewer (*StepsLeft*, at most `MaxAccounts` + 3), and crashes, restarts and other
clients leave as many.  getAddress calls itself only once, since the account it
has fetched is in the cache then, whatever became of the account; and
getAccounts requests each account that was listed once, since the server only
answers for accounts with a subaddress.

## 6. WalletFunds, SendService and WalletRpcSends

### What is modelled

**WalletFunds** is the wallet that monero-wallet-rpc has open, external, as far
as spending is concerned: which outputs have arrived and are unlocked, which
transactions were relayed, and whether the wallet can sign alone.  A
transaction is the set of outputs it spends; its change, fees and amounts are
left out.  Transactions that were relayed never spend an output twice.
**SendService** is what the interface `MoneroWallet` promises of the methods
that create or relay transactions: they spend outputs of the accounts and
subaddresses they were asked to, they relay if and only if they were asked to
and the transactions are signed, and a method that returns has told of every
transaction it made; one that throws may have relayed some.

**WalletRpcSends** is the code: `createTxs` and `createTx` (`BeginCreateTxs`,
`IsMultisig`, `Transfer`), `sweepOutput`, `sweepUnlocked` (`GetAccounts`,
`GetBalance`, then `SweepAll` once for each account), `sweepDust`, `relayTxs`
(`RelayTx` once for each transaction), `submitTxs` and `submitMultisigTxHex`.
`call` is the method that runs, with its next request; `left` and `queue` are
the local map `indices` of sweepUnlocked, `made` the list `txs`, or what was
relayed so far.  `wanted` is not in the code: the outputs that sweepUnlocked
could have swept when it was called, recorded for SweptClean.  Every request
may fail, before it has an effect, after, or in the middle; between two
requests outputs arrive, and other clients of the wallet spend some.  The
server's answer for a wallet that cannot sign alone may have transactions or
only the set to be signed: the code handles both.

Abstracted: get_address and get_accounts requests whose reply a later one of
the same method replaces are left out; subaddress indices that are empty are
the same as none, as in the code; `belowAmount` is not set; a method refuses
bad configurations before its first request, and these calls are left out.
The branch of sweepUnlocked for single subaddresses cannot be reached (the
method sets `sweepEachSubaddress` to false before it asks for it).

### Run

| Run | Instance | Shows |
|---|---|---|
| rpc_sends | three outputs: two in two subaddresses of one account, one in another account; the three kinds of wallets; every method (45 thousand states) | TypeOK; TxsCompatible; SweptClean; ImplementsSends: the methods refine SendService |

Bounds: the outputs are the only bound, as spent ones do not come back.  Two
accounts are one that was swept before another, two subaddresses one that is
listed and one whose output arrives after the list was made.

No fairness is assumed and no liveness stated: every loop is over a collection
that is complete before it starts.

### Proofs (`WalletRpcSendsProofs`)

For any outputs, accounts, subaddresses and kinds of wallets: all four
properties of the run.  The inductive invariant is TypeOK, *StepFollowsMethod*
(which method is at which request, with which configuration), *MadeInv* (what
was made is in the method's scope, relayed if it was to be, and of accounts
that are done), *WantedInv* (an output that was wanted is spent, made into a
transaction, or still listed) and TxsCompatible.  TxsCompatible needs MadeInv:
without relaying, nothing on the server keeps two requests of one sweep from
spending the same output, only that they are about different accounts.
SweptClean follows from WantedInv at the last account.

## 7. BlockChain, BlockService and ChunkedBlocks

### What is modelled

**BlockChain** is monerod's chain, external: it grows, and a reorganization
replaces its last blocks by others, more or fewer.  **BlockService** is the
promise of `getBlocksByRange` and `getBlocksByRangeChunked`: every block of the
range once and in order, each as it was on the chain at some moment of the
call, or an exception.  **ChunkedBlocks** is the code of `MoneroDaemonRpc`:
`cachedHeaders` is its field; `lastHeight` and `blocks` are the local variables
of getBlocksByRangeChunked, `reqEnd` and `reqSize` those of getMaxBlocks.  One
action is one request (`GetHeight`, `FetchHeaders`, `FetchBlocks`) or one turn
of a loop (`StartChunk`, `IncludeBlock`, `RejectBlock`, `CompleteChunk`).  The
cache is filled up to the end of the range and never emptied; `reqSize` is an
int (`AsInt`); the received blocks are paired with the heights asked for by
position.  A request fails by itself (`RequestFails`), or because its range
exceeds a chain that has become shorter.

Abstracted: a block is its branch and its size, and stands for its header; of a
chunk without blocks at the start of a range only the exception is kept.
External, and assumed: monerod answers a range it does not have with an error,
and one response is of one moment.

### Run

| Run | Instance | Shows |
|---|---|---|
| blocks_chunked | chains of up to three blocks of two sizes, one reorganization, groups of two headers, chunk sizes that hold no block, one, some, and more than fits the int | TypeOK; ChunkIsBounded; AnswerIsOfOneChain; RejectsOnlyBigBlocks; CallsReturn; ImplementsService: with cache and chunks the client refines BlockService |

Bounds: three blocks make two groups of headers and a chunk of one block before
one of two; one reorganization makes the cache false at some heights and true
at others, during a call and between calls.  The largest int is 3, so that sums
of two blocks overflow.

Fairness: weak fairness of the client's steps.  None for the chain.

ChunkIsBounded is stated for chunks whose cached headers are those of the
chain, AnswerIsOfOneChain for calls without a reorganization, the part of
RejectsOnlyBigBlocks about sizes until the first one: what the cache makes of
the others is told under "Findings".  ImplementsService has no such condition.

### Proofs (`ChunkedBlocksProofs`)

For chains of any length, blocks of any size, any limit of chunks and any
groups of headers: TypeOK, ChunkIsBounded, AnswerIsOfOneChain,
RejectsOnlyBigBlocks and ImplementsService.  The inductive invariant has five
parts besides TypeOK.  *RangeInv*: the blocks received are those from the start
of the range on, and `lastHeight` is that of the last one.  *ChunkInv*: the
chunk in the making begins after them and ends within the range, so that the
next one begins where this one ends.  *SizeInv*: `reqSize` is the sum of the
sizes of the cached headers of the chunk, and at most the limit; if the limit
exceeds the int, the sum may overflow, and nothing is said.  *BranchInv*: if
the chain was not reorganized since the call, the blocks are the chain's, and
if it never was, the cached headers are.  *OutcomeInv* is RejectsOnlyBigBlocks,
and that a call which runs has not ended.

SizeInv is about a sum over a set of heights that grows by one with each
header: DataInduction proves that SumFunctionOnSet is such a sum.
ChunkIsBounded follows, as headers and blocks of one chain have the same sizes.
The rejection of a block needs RangeInv and ChunkInv: the block that exceeds
the limit is the first of its chunk, or the chunk ends before it.  The
refinement is proved step by step: requests of blocks receive blocks, which
were on the chain at that moment, at the next heights, and all else stutters.

Of CallsReturn, which needs fairness and is model-checked, the other half is
proved (`CallsAreBounded`): a number of steps that are left (*StepsLeft*, from
the heights still ahead and what is known of the chunk in the making) is
bounded, and every step of a running call decreases it, unless it is the
chain's, which leaves it.  It rests on an empty chunk being made only with a
chunk size of 0, in which case the call throws.

## 8. WalletLedger and WalletRpcTxs

### What is modelled

**WalletLedger** is the transactions of the wallet that monero-wallet-rpc has
open, external: they arrive in the pool, are mined, unlock, fail, and move when
the chain is reorganized.  **WalletRpcTxs** is `getTxs`, `getTransfers` and
`getOutputs`.  `stage` is the next request: the two refreshes behind
`isConnected` (`CheckPool`, `Connect`), `get_transfers` (`GetTransfers`), the
accounts (`GetAccountIndices`), and `incoming_transfers` once for each account
(`GetOutputs`).  `txs` is getTxs's map of transactions, `outputTxs` and
`blocks` the map of getOutputsAux and the block objects that its transactions
share; `always`, `ever` and `during` record what the properties speak of.
`Meets`, `TransferMeets` and `OutputMeets` are meetsCriteria of the three
queries; `MergedTx`, `MergedBlock` and `MergeBlocks` are the merges, `Recurses`
where they do not end, `Finish` the filter, the missing hashes and the
repetition at the end of getTxs.

In the code, transactions refer to a block and a block lists transactions, and
to merge either is to merge the other: `MoneroTx.merge` calls
`MoneroBlock.merge`, and that calls back by way of `MoneroUtils.mergeTx`.  This
recursion need not end.  Two transactions T1 and T2 are in the pool when
`get_transfers` is answered, so that neither has a block; when
`incoming_transfers` is answered, they are mined, in one block.  Merging the
second T1 into the first one gives the first a block, which takes in the second
T2 with the rest of the second block.  Merging T2 gives the first T2 a block of
its own, likewise.  `mergeTx` then merges this block into the one that is known
by the height; T2 is found there, as built from outputs and in another block,
so that the blocks of the two are merged, in which the two are found again, and
so on until the stack overflows.  It also does if only T1 was in the pool and T2
arrived later, if T2 comes first: then the block that is known by the height has
T1 as built from outputs.

**WalletRpcTxs** says what comes of all this with sets: the objects of a
transaction become one record, those of its block one block with the
transactions in it as built from transfers (`txs`) or from outputs
(`outputTxs`), and merging is a union, unless `Recurses` holds: then the call
throws "stackOverflow".  **TxObjects** is the recursion itself, on a heap of
numbered objects with references, in the code's order, with its two maps and
with the removal of excluded transactions from the lists of their blocks; it
also notices a list that changes under its iteration, which never happens.
`MergesAsObjects` compares the two: whenever the last response is due, merging
it into what was built before must have the same results, errors included, in
both.  The order in which the transactions of a block come matters for whether
the recursion ends; `InBlockOrder` leaves the orders that sorting and the
server allow.

Kept: which part of a query goes to the server and which is applied to the
response, before the merge or after; that a transaction built from transfers
has no outputs and one built from outputs no transfers, no confirmations and no
`inTxPool`; that a field which cannot change makes the merge throw, and one
that can takes the greatest value; that merged transactions share a block
object, so that merging blocks changes the height of others.

Abstracted: what the client does between two requests is one step with the
response before it, as nobody sees what it builds meanwhile.  Of a transaction
only the fields that queries and merges tell apart remain.  The chain does not
change before the request for the accounts, which reads nothing that changes.
The order of the answer is left out.  Queries of outputs of transactions that
are not in the pool (`inTxPool` is FALSE) are not among the ones of the runs
(see "Findings").

### Runs

| Run | Instance | Shows |
|---|---|---|
| rpc_txs | two accounts; a payment to both, and two transactions that spend one of its outputs each and send one to the first account; ten queries; two changes during a call (88 thousand states) | TypeOK; AnswerIsCurrent; QuietAnswerIsExact; HeightsAreTrue; ContradictionMeansChange; MergesAsObjects; CallsReturn |
| rpc_txs_confirmations | the same | the finding below |

Bounds: a chain of three blocks and two confirmations to unlock, enough for an
output to arrive, unlock, be spent and be reorganized away; two changes between
requests, so that an answer may be of three moments; the queries are chosen so
that each criterion is used, alone or with outputs, transfers and hashes.
TxObjects takes a recursion that is `StackDepth` = 12 merges of transactions
deep for an endless one; those of three transactions that end are not half as
deep.

Fairness: weak fairness of the requests: each is answered or fails.  None for
the wallet's changes.

CallsReturn counts a call that throws, the overflow of the stack included, as
ended; AnswerIsCurrent, QuietAnswerIsExact and HeightsAreTrue are about calls
that return.  ContradictionMeansChange says that the overflow, like a
contradiction, needs a change of the wallet between two requests.  MergesAsObjects
leaves out calls in which the chain is reorganized after outputs were read: a
block object may then stay known by a height that its transactions have left,
which the sets do not follow.

AnswerIsCurrent and HeightsAreTrue are about calls during which the chain is
not reorganized, and AnswerIsCurrent about calls that find a connection: in the
other cases the code mixes what two chains say, or leaves the pool out.
AnswerIsCurrent and QuietAnswerIsExact leave out queries of outputs for which
`inTxPool` is FALSE (`KeepsOutputs`), whose loss has nothing to do with what
changes during a call.

What a call must return, according to AnswerIsCurrent, is what met the query
throughout *for the same output*, if the query is for outputs.  Without this
restriction the property is false, as the model checker shows: a transaction
has an output of each of two accounts, and the first is spent when the outputs
of its account are requested.  Then the pool drops the transaction that spends
it, and another one spends the second output before the request for its
account.  At every moment one of the two was unspent, but a query for unspent
outputs does not find them, nor the transaction.

### Proofs (`TxMergingProofs`, `WalletRpcTxsProofs`)

For any transactions, accounts, outputs, queries and numbers of changes:
TypeOK, AnswerIsCurrent, QuietAnswerIsExact, HeightsAreTrue and
ContradictionMeansChange.

`TxMergingProofs` is about the merge alone, which is a fold over the entries of
a response in which transactions and shared block objects change together.
What is proved of one `MergeTx` is carried over the list by induction: the
merge is typed and leaves every transaction in a block (`MergeAllType`,
`MergeAllCovers`); the transactions of a response add their outputs to those
that are there, or themselves (`MergedOutputs`); a transaction built from
outputs adds to the one built from transfers what that one lacks
(`MergedWith`); and a block object never takes in a transaction of another
height, if each was in a block of its own height before (`MergeAllTrue`).  A
merge that ends well has found no contradiction (`MergeAllAgrees`), and it does
end well, if the flags agree with the ledger and no block has a transaction
from outputs next to the same one from transfers: while the outputs are
collected there are only objects of one kind (`MergeAllOfTransfersOnly`), and
when they are merged into what was built from transfers, each transaction that
is mined has been in the known block from the beginning (`MergeAllKnown`).  The
second is what changes when transactions are mined between two requests.

`WalletRpcTxsProofs` has four layers, each an invariant that rests on those
before it.

- *TypeInv*: types, what the server's wallet can be (*LedgerInv*: mined
  transactions are in a block of the chain, failed ones are the wallet's own),
  which variables a stage of the call uses (*StageInv*), what the transactions
  that were built from transfers and from outputs look like (*ShapeInv*), and
  the history (*DuringInv*).
- *HeightInv*: without a reorganization, the block objects and the transactions
  that were built have the heights of the chain; a merge that throws leaves
  neither.  A mined transaction keeps its block, so that this survives the
  wallet's changes.  HeightsAreTrue follows.
- *ExactInv*: in a call during which nothing has changed so far, what was built
  from transfers and outputs is what the server has, except for the outputs of
  the accounts still pending, no lock is contradicted, and no merge recurses
  without end (`MergesQuietly`, `CombinesQuietly`).  QuietAnswerIsExact and
  ContradictionMeansChange follow.
- *Present* and *CurrentInv*: the history knows the state the server is in; and
  every transaction that was built, and every output in it, is as it was in
  some state of the call (*Seen*: that state let in all that it shows of it,
  and whatever met the query throughout met it there), while all that met the
  query throughout is among the transactions built, or of an account still
  pending.  AnswerIsCurrent follows at the last request, although the merged
  transaction itself may never have existed: the criteria about the transaction
  and its transfers are met by what get_transfers has shown, or, for the
  confirmed ones, by what cannot change any more, and those about outputs by
  the state in which that output was read.

AnswerIsCurrent is the reason for the last layer: the model checker finds it
true of a few queries, the proof says that no combination of criteria escapes.

CallsReturn needs fairness and is model-checked; that no call goes on for ever
is proved (`CallsAreBounded`): a call makes at most four requests more than
there are accounts, and each step of it leaves fewer, or the call has returned
or thrown.  What could send it back,
a confirmed transaction without a block at the end of getTxs, is ruled out by
the merge, where that ends: a confirmed transaction is in the block it was built
with, or in that of one of its outputs.  That the recursion over the objects
ends just where the sets say is model-checked only (MergesAsObjects): its
definition is recursive.  So is the finding's ConfirmedHasConfirmations.

## 9. Findings

Each is the counterexample of a run that expects a violation of one property,
which states what a comment, a test or an interface of the repository says.
`PROJECT.json` quotes the lines.

- A notified getNextBlockHeader call and the next notification can deadlock
  (poller_deadlock).
- A listener that unregisters itself as the last one of a native wallet blocks
  for ever (jni_reentrant).
- The RPC wallet answers with addresses of the old keys after makeMultisig
  (rpc_session_multisig).
- getTxs returns confirmed transactions with zero confirmations, if a block
  arrives between two of its requests (rpc_txs_confirmations).

The models show more, which no run is kept for.

- Daemon polling: a call of getNextBlockHeader may return a block older than
  the call, if the poller had not seen it yet.  A terminated polling thread
  notifies beside its successor, so that a listener hears of a block twice.  Of
  several blocks in one interval only the last is announced.  One failed
  request, or a listener that throws, ends polling for good.  A listener that
  unregisters itself makes the poller skip the next one.  A spurious wakeup makes
  getNextBlockHeader return null, and an interrupted call leaves its listener
  registered.
- Native wallet: sync(listener) unregisters the listener in the end, also one
  that the application had registered before, although `MoneroWallet.java:250`
  speaks of a listener "to receive notifications during synchronization".  A
  listener may be told after removeListener returned.  A
  listener that unregistered itself makes sync(listener) throw instead of
  returning its result.  The multisig methods and getReserveProofWallet do not
  assert that the wallet is open.
- RPC session: isClosed is false after stop.  A documented daemon user name
  makes openWallet and createWallet throw after they took effect.  getAccounts
  with a tag and subaddresses fails its own assertion.
- RPC sends: sweepUnlocked, if it throws after it has swept an account with
  relay, tells nobody of the transactions that were relayed, nor does relayTxs
  of the hashes.  If the server answers with a set to be signed and no
  transactions, as a comment in createTxs expects of multisig and view-only
  wallets (the tests expect transactions of multisig wallets), createTxs and
  sweepDust return null and lose the set, and sweepUnlocked ends with a
  NullPointerException.  Transactions of such wallets that were to be relayed
  say that they were, though nothing was.
- Blocks: after a reorganization, chunks are made from the sizes of blocks that
  are gone, so that a request may exceed `maxChunkSize`, which
  `MoneroDaemon.java:199` calls "the maximum chunk size in any one request", or
  a block of the former chain may be rejected as too big.  A chunk size of 0
  makes getBlocksByRangeChunked throw an IndexOutOfBoundsException.
- Transactions: the repetition of getTxs after an inconsistency
  (`MoneroWalletRpc.java:874`) is never reached, since merging gives a confirmed
  transaction its block (`CallsAreBounded`).  A transaction of the pool that is
  mined, in one block with another that was not mined either, between
  `get_transfers` and `incoming_transfers` can make getTxs end with a
  StackOverflowError, as their blocks and transactions merge each other without
  end.  A block that arrives
  between two requests can also make the call throw an error, as the responses
  disagree on whether a transaction is locked.
  A transaction that is mined between the requests for two accounts is returned
  with the outputs of the second only.  If hashes are missing and a collection
  is given for them, the answer has a null in the place of each, where
  `MoneroWallet.java:494` speaks of "the found transactions".  A query of
  outputs for transactions that are not in the pool finds nothing, because a
  transaction built from outputs does not say that it is not, although
  `MoneroOutputQuery.java:19` promises that "All outputs are returned except
  those that do not meet the criteria defined in this query."

## 10. What is not modelled

The daemon's getTxs, which merges what two requests say of a transaction, and
the creation of native wallets, whose state is in monero-cpp, are not modelled.
Of queries and merges only what WalletRpcTxs uses is; the other criteria and
fields are of the same kinds.  Methods that send one request
and convert its answer, and change nothing that another method relies on, are
not planned.  Conversions, validation,
formatting and the data classes are not planned: they are pure functions over
strings and numbers, better tested than model-checked.  monero-cpp, monerod and
monero-wallet-rpc are outside the repository; the modules contain what the code
here relies on, marked external in the map.
