# Phoenix in TLA+

Phoenix is a publishing platform for creators on EOSIO chains. Its logic lives
in two smart contracts, `phoenix` and `phoenixtoken`
(`src/zeus_boxes/contracts/eos/`), that run on services of a DSP: *vaccounts*
(users without a chain account sign actions), *vRAM* (tables stored as IPFS
objects, of which the chain keeps the roots) and *LiquidScheduler* (timers).
This directory holds TLA+ modules that model the contracts, configurations of
TLC that check them on small instances, and proofs checked by TLAPS.

    tlc -config MCPledgesOne.cfg MCPledges      # one of the runs of PROJECT.json
    tlapm ColdTokenProofs.tla                   # the proofs of a module

## 1. The system

| component | state | operations | interacts with |
|---|---|---|---|
| token contract `phoenixtoken.cpp` | `stat` row, one balance row per virtual account, the real WEOSDT it holds | `create`, `issue`, `transfer`, `transferv`, `open`, `withdrawv`, `payoutfees`, `on_transfer` | reads the `users` table of `phoenix`; sends real WEOSDT; called inline by `phoenix` |
| subscriptions `pledges.cpp` | `pledges`, `pledgesrel` in the scopes `from` and `to` | `pledge`, `renewpledge`, `timer_callback` | pays through `transfer` of the token contract; leaves timers with the scheduler, which calls back |
| accounts `main.cpp` | `vkeys`, `users`, `limits` | `signup`, `login`, `init`, `linkaccount`, `updatetiers` | `open` of the token contract, inline |
| custom urls `main.cpp:203-230` | `customurl`, one scope for users, one per url | `updateuser` | |
| posts `main.cpp:252-374` | `posts`, `posts` of the user, `latest_post_indexes`, `next_post_id`, key rows | `createpost`, `updatepost` (edit, delete) | |
| follows `main.cpp:376-432` | `follows` in the scopes `from` and `to` | `follow` | |
| free accounts `createaccount.cpp` | `created_account` of the user | `createacc`, `logcreateacc` | the system contract, inline |
| vRAM tables `advanced_multi_index.strip.hpp` | a row per shard with the uri of its list of buckets and a revision, `vconfig`, the manifest being loaded, `backups` | `find`, `emplace`, `modify`, `erase`, `available_primary_key`, `clear`, `create_manifest`, `load_manifest` | holds the rows of all tables above; the DSP stores the objects |
| replay tool `replay-contract-hyperion.js` | position in the history, posts it waits for | fetch a page, post its chunks | a history node; a DSP, which stores the objects again |
| dump tool `dump-contract-hyperion.js` | position in the history | fetch a page, keep it | a history node |
| client `actions/_helpers.js` | none | read the nonce, sign, post | the vaccounts library, which checks the nonce |

Everything a contract does for one transaction is atomic: a failed `check`,
also one in an action it sent inline, undoes the whole. What is concurrent is
who sends the next transaction: patrons, creators, strangers, operators, timers
of the scheduler, depositors on the chain. What is hard is listed, line by line,
in `PROJECT.json` under `hazards`. For each part, what makes it correct:

- **Token**: virtual coins are neither made nor lost; every coin a customer may
  withdraw is backed by a real one, unless the operators handed it out of the pool
  themselves; balances exist for users and only for them.
- **Subscriptions**: nobody is charged twice in a cycle, or without having
  agreed, or another amount than he signed; what is shown as paid was paid; a
  pledge set to renew goes on by itself; the relation tables index the pledges.
- **Accounts**: whoever shares a user's derived name, only the person who signed
  up signs for him; never more signups in a day than the limit; one free account each.
- **Custom urls**: the url of a user leads to him, and no other url does.
  **Follows**: the two tables tell the same, without duplicates. **Posts**: an
  author's list names his posts in order, the latest posts are the newest that are
  not deleted, and the key kept for a post opens it.
- **vRAM**: a table behaves like a set of rows, whatever shares a bucket with a
  row, and whatever was cleared, saved and restored before; available keys are free.
- **Replay**: nothing is skipped although the history moves and posts fail.

## 2. The modules

| module | what it is |
|---|---|
| `Totals` | the total of a table of amounts, as a recursive function |
| `Custody` | abstract specification: a vault and the customers' claims on it |
| `ColdToken` | the token contract; refines `Custody` |
| `Pledges` | the subscriptions, composed with `ColdToken`; refines `Custody` too |
| `Users` | users, keys, custom urls and free chain accounts, composed with `ColdToken` |
| `Posts` | posts, the lists that index them, the keys of encrypted ones |
| `Follows` | who follows whom, in two tables |
| `Rows` | abstract specification: a set of rows with saved states |
| `VramTable` | a vRAM table with shards, buckets, revisions and manifests; refines `Rows` |
| `Replay` | the replay tool |
| `MCColdToken`, `MCPledges`, `MCUsers`, `MCPosts`, `MCFollows`, `MCVramTable`, `MCReplay` | instances for TLC |
| `CustodyProofs`, `ColdTokenProofs`, `PledgesProofs`, `UsersProofs`, `PostsProofs`, `FollowsProofs`, `VramProofs`, `ReplayProofs` | theorems and their proofs |

Names ending in `_Something`, commented "Wrong", next to a definition are
deliberate errors. `PROJECT.json` pairs each with the property that notices it
when it takes the definition's place; no specification uses them.

### ColdToken

| TLA+ | code |
|---|---|
| `users`, `accounts`, `stat`, `chain` | keys of phoenix' `users`, the `accounts` table (a row exists iff the owner is in `DOMAIN accounts`), the `stat` row, the real token's balances |
| `_transfer`, `add_balance`, `sub_balance`, `get_balance` | the functions of these names, on a table of balances |
| `_transferChecks`, `transferChecks` | the `check`s of `_transfer` with `sub_balance`, and of the action `transfer` |
| `create` .. `payoutfees`, `on_transfer` | the actions of these names, one transaction each |
| `transferv` | its signature check and the inline `transfer` it sends |
| `on_transferFromStake` | the early return for `eosio.stake` (`phoenixtoken.cpp:255-257`) |
| `transfer` | the bare action with the authority of one of the two contracts, which the operators send; the payer may be any user, Phoenix too (`phoenixtoken.cpp:67`) |
| `granted` | not in the code: what `transfer` moved out of the pool without a deposit. No action decides by it, but its bound `MaxGranted` ends a run's grants |
| `newUsers` | `signup` and `init` as the token contract sees them: user rows and the inline `open` |

Signatures: `require_vaccount(v)` becomes `v \in KeyHolders`. `init` gives Phoenix
and Fees the key it receives, and the script that sends it (`actions/init.js:24`),
like the tests (`phoenix.spec.js:119`), passes the null key, which nobody holds:
hence the assumption that the two are not among the key holders.

The contracts' own authority is used by the operators' scripts, and `transfer` checks
nothing else about the payer. The pool's coins are not backed, so a transfer out of
Phoenix gives a user coins that he can withdraw and that nobody paid for:
`actions/transfer.js` and a test (`phoenix.spec.js:498-511`, skipped) send such
transfers, and `main.cpp:141` calls Phoenix the account "that distributes
funds". The contract therefore cannot promise that all customers can be paid out
whatever the operators do. What it does promise is stated with `granted`:
`Solvent` says that what customers may withdraw together is at most the
real coins held plus what was handed out. While nothing was, that is full solvency; and
a gap is never wider than what the operators themselves opened, whatever customers
deposit, pay each other, are charged and withdraw.
The flag `paused` of the token contract is not modelled, as no action sets it.

### Pledges

| TLA+ | code |
|---|---|
| `pledges`, `relFrom`, `relTo` | the `pledges` table; the rows of `pledgesrel` in the two scopes, each a set of pairs of a name and a pledge |
| `age` | now minus `cycle_start`; `age > Cycle` is `now > cycle_end` (`pledges.cpp:151-155`) |
| `timers` | what the scheduler holds: time left per pledge; scheduling again replaces the timer of that name |
| `pledge`, `create_pledge`, `update_pledge`, `upsert_pledge_relations` | the functions of these names |
| `renewChecks`, `renew` | `renewpledge` with `pay_pledge`: every check of both inline transfers, then all the effects |
| `renewpledge`, `timer_callback` | the action (signed by a key holder, or the bare action of anybody) and the scheduler's call |
| `pause` | `pause`, which stops `pledge` and `renewpledge` but not the token contract |
| `token` | all actions of `ColdToken`; while paused, nobody signs up |
| `signed`, `last`, `charge` | not in the code: what the properties remember. No action reads them |

Time is relative, so that runs are finite: ages stop at `Cycle + 1`, where
`renewpledge` no longer tells them apart. One tick is the second that
`schedule_renewpledge` adds. `MaxPledges` bounds the number of pledges ever
created; with `MaxGranted` of `ColdToken` it is the only bound in a guard.

`payload.to` and `payload.vaccount` of `renewpledge` must equal the fields of
the pledge (`pledges.cpp:143-144`), so they are not separate inputs. The dollar value is
measured in coins. `cycle_us` never changes (30 days), nor does its `next_` value.

### Users

| TLA+ | code |
|---|---|
| `vkeys`, `checksum`, `created_account` | the `vkeys` table; fields of the rows of `users` |
| `customurl`, `reverse` | the `customurl` table in the contract's own scope, and its scopes named after urls, each with one row |
| `limits`, `today` | the `limits` row; the day of the block's time |
| `signup`, `login`, `init`, `pause` | the operators' actions |
| `updateuser` | the part of `updateuser` after its early return, the custom url |
| `createacc` | `createacc` of the token contract, with the inline `newaccount` of the system contract and the `logcreateacc` that comes last |
| `newaccount`, `NextDay`, `token` | other accounts appear on the chain; time; all actions of `ColdToken` |
| `signups`, `funded` | not in the code: what the properties remember. No action reads them |

A person is an email: `NameOf` derives the name of the account (two emails may
have one name) and the checksum is modelled as the email, so two people
never have the same. The key a user signs with is one of the keys of some person;
`require_vaccount` is membership in `KeyHolders`, as in `ColdToken`. `init` gives
Phoenix and Fees a key nobody has and the checksum zero (`None`). `MaxDay`
bounds the days of a run.

### Posts

| TLA+ | code |
|---|---|
| `posts`, `post_indexes`, `postkeyenc` | the rows of `posts` (author, and which key the content is encrypted with), the list in the author's row of `users`, the table `postkeyenc` |
| `latest_post_indexes`, `next_post_id`, `paused` | fields of `globals` |
| `createpost`, `edit`, `delete` | `createpost`; the two branches of `updatepost` |
| `Erased`, `First`, `Dropped` | `std::find_if` and `erase` |
| `update_latest_posts`, `remove_from_latest_post` | the functions of these names |

`createpost` and `updatepost` read and write the globals twice in a transaction;
`takenId` and `update_latest_posts` are the two halves. Authors are users that
exist. `MaxPosts` bounds the ids.

### Follows

`follows_from` and `follows_to` are the rows of the two scopes, sequences as in the
code. `diff_vectors` is the function of that name. It calls `std::unique`, which
moves the first of equal neighbours to the front and leaves behind them the
names that were there, and erases nothing: the operator `unique` does exactly this.
`follow` writes the sender's row, then one row per name in the order of the lists
(`toEach` is one of the two loops, `toAll` both). There is at least one user, as
`init` creates the contract's own before anybody can send anything.
`MaxList` bounds the lists; `again` and `sent` are not in the code and only remember
for the properties.

### VramTable and Rows

| TLA+ | code |
|---|---|
| `shardbuckets` | the table of `shardbucket` rows: which shards were ever opened, with `shard_uri` and `revision` |
| `vconfig`, `vmanifest` | the singletons `.vconfig` and `.vmanifest` |
| `backups` | the manifests of the table of backups. Their order, time and description are left out |
| `Home` | the hash of scope and key, `getBucketShard` |
| `stops`, `position`, `_parseCacheBucket`, `_combineParsedBucketParts` | the search in a bucket, its result in three parts, and their concatenation |
| `getShard`, `opened` | what `getBucket` makes of a shard: restored, emptied or as it is |
| `getBucket`, `setBucket`, `get` | the functions of these names |
| `getExternal` | `getBucket` in a contract that is not the owner |
| `emplace`, `modify`, `erase`, `find`, `clear`, `create_manifest`, `load_manifest` | the functions of these names; `add` and `set` are part of `emplace` and `modify` |
| `mixed` | not in the code: was the table cleared while shards were still to come back? |

A uri is the hash of what it names, so it is modelled as its content: a shard row
holds the buckets themselves. A transaction that needs an object that is not in
memory aborts, changes nothing and is repeated by the DSP; the content of a hash
is the same then. Every table object of the contracts has the default geometry,
so the checks of `shards` and `buckets_per_shard` never fail, and these fields
are left out; `Shards`, `Buckets` and `Home` are arbitrary.

`modify` and `erase` take an object or an iterator that a lookup returned.
The model looks the row up in the same step. Manifests are compiled with
`IPFS_FEATURE_MANIFEST`, which nothing in the repository defines, and the calls of
`clear` in the contracts are commented out: the library's whole interface is
modelled, whoever calls it. `load_manifest`
takes what `create_manifest` made, as its overload for a backup's id does.

`Rows` says what a caller may rely on: `emplace`, `modify` and `erase` change one row, lookups
change nothing, and a restored state is one that was saved. One thing is
weaker than one might wish, because it is what the code does: `clear` keeps the
rows of shards that are still to come back from a manifest (`untouched`).
`getBucket` looks at the manifest before it compares revisions, and
`clear` does not empty it, so such rows reappear while the available keys start
again from zero. `AvailableKeyIsFree` excludes this case by `mixed`. The other
weakness shows in `OthersSeeNothingOld`: after a restore, other contracts find nothing
in a shard until its owner opens it (the code says so at line 953).

### Replay

| TLA+ | code |
|---|---|
| `skip`, `commits`, `chunk` | `skip`, the part of the page that is not posted yet, the posts `Promise.all` waits for |
| `out` | every post that is not settled, those of earlier chunks included |
| `fetch`, `fetchFails` | the request of a page with the end of the loop, and the `catch` of `run` |
| `slices`, `replay` | `chunk()`, and the next turn of the inner loop; commits without data are not posted |
| `answered`, `failed` | `replay()` returns, whatever the DSP answered, or throws |
| `history`, `grow`, `deltas` | the history node: newest commits first, more of them at any time |
| `errors`, `posted`, `started` | not in the code: what the properties remember |

Commits are numbered from the oldest, so that a page is a descending sequence
and `skip` counts from the newest. Nothing is persisted: a run that stops is
started again from the beginning.

### Custody

A vault and one claim per customer. Coins come in and are credited to one
customer or to nobody; coins go out against one claim; claims move between
customers without growing in total. Only the house, by a `Grant`, gives a claim
no coin came in for, and the total of that is on record. It promises that all
customers could be paid at once but for what was granted (`Solvent`). In the refinement the customers are all virtual
accounts but Phoenix, a claim is the balance, the vault is the contract's real
WEOSDT. A charge of a pledge is a `Redistribute`, a deposit naming Phoenix a `Donate`,
the operators' transfer out of the pool a `Grant`, and nothing else is one.

## 3. The runs

| run | what it asks | instance |
|---|---|---|
| `token` | type, a balance row per user and no others, conservation, solvency, `Custody` | two customers, operators who move anybody's coins and hand out up to two of the pool's, 4 + 1 real coins, supply 4 issued in parts, amounts -1..3 |
| `pledges_one` | type, paid means charged, charged as signed, `Custody`, a pledge once charged keeps renewing | one patron, quantities 0..2, so with and without a fee; four coins, enough for several cycles and for running dry, and operators who can give the creator's coins back, so that a pledge can be paid for ever, or hand out two of the pool's |
| `pledges_two` | relation tables, one charge per cycle, timers that wait are those of the running cycle | two patrons pledging to each other, four kinds of callers |
| `users` | types, the key of its user, the limit of a day, one free account, a user's url leads to him | three people of whom two derive one name, one with two keys; a limit of 1, three days, two names on the chain, two urls |
| `posts` | ids and tables, an author's list, the latest posts, keys, deleted posts stay deleted | two authors, two keys, four posts, two of them listed |
| `follows` | types, agreement of the two tables, names enter and leave only as sent | two fans, three users, a stranger; lists of up to two names, with one name twice or both followed and unfollowed |
| `vram` | types, exact lookups, free keys, what others see, `Rows` | two shards of two buckets, two rows of different scopes in one bucket (one with two values), one in another shard; two clears or restores, two different manifests |
| `replay` | types, nothing skipped, repeats, posts out at once, the end of the run | pages of five, chunks of three, up to seven commits of which one is blank |
| `users_two_way`, `follows_one_relation` | what the documents say (section 5) | as above |
| `pledges_turned_on`, `pledges_deleted` | what the documents say (section 5) | as above |

Why these bounds suffice. The token treats all customers alike and its actions
involve at most two besides Phoenix and Fees. Amounts matter by comparison with
a balance: below, equal, above, not positive. Two granted coins
are enough for a customer to withdraw coins that others deposited; `pledges_two` grants
none, as its properties do not depend on where a patron has his coins from. The fee is one coin in `FeeShare`
(50 in the code, 2 in the runs): what matters is whether it is zero. A cycle of
one tick has an age inside, at the end, and past it. Two pledges are enough
for a second one of the same pair, which is what `RelationsMirrorPledges` excludes.

A limit of one signup makes the second of a day the one to refuse, and three
days contain a day without any. A list of two latest posts is over its limit with
the third post, and the fourth can be created after any of them was deleted. Two
keys tell a key that was kept from one that was replaced. In `Follows`, lists
of three have room for a duplicate next to an original and apart from it.

In `VramTable`, the search compares scopes and keys of two entries at a time, and a
bucket with a row before and a row behind has both cases of every comparison. Two
revisions are a restore over a restore, a clear over a restore and the other
way around; two manifests are one made before and one made while another is loading.
A page of five in chunks of three ends in a chunk of two, and seven commits
make a full page, a partial one and the empty one, with room to grow in between;
`posted` needs no bound, as no commit is read more often than the history grows.

Deadlock is checked in all runs but `replay`, as a replay ends. Symmetry is used
in `vram` only, between two values of one row, which nothing compares.

**Fairness** is assumed in two specifications. In `ReplayFairSpec` the tool goes on
(`WF` of `fetch` and `replay`: the loop of a process, and a node that answers) and a
post is answered or fails at last (`WF` of each post): the tool sets no time limit of its own, so
a post that hangs for ever hangs the run. Nothing is assumed about the growth of the history,
which is bounded: a history that grows faster than it is read keeps the tool running.

In `PledgesFairSpec` time passes (`WF` of `Tick`),
and the scheduler makes the calls it accepted (`WF` of each pledge's
`timer_callback` once due); that is the service the contract relies on, and the
code justifies no more: nothing is assumed of patrons, creators or strangers.
`KeepsRenewing` has the premise that from some moment on the pledge is always
payable, set to renew and not paused, because a refused call is not repeated
(`timer_callback` is called once, nothing reschedules it): after a cycle with an
empty balance the renewals stop until somebody sends `renewpledge`.

## 4. The proofs

The theorems hold for every finite set of virtual accounts, any chain accounts,
endowments, amounts and supplies that satisfy `TokenAssumption`.

- `CustodyProofs` begins with totals: what a total does when an entry changes, two
  entries exchange an amount, a table is compared with another. Induction on the
  set of rows is done with a smallest counterexample, which exists because
  proper inclusion is well-founded on the subsets of a finite set. The other
  modules cite these lemmas through an instance.
  `CustodianSolventButForGrants` is `Custody!Spec => []Solvent`; inductive invariant: `TypeOK /\ Solvent`.
- `ColdTokenProofs`, along these steps:
  1. *Effects*: lemmas on tables say what `_transfer`, `add_balance` and
     `opened` do to rows, to the total of all balances and to the claims.
  2. *Kinds*: `StepKinds` shows that every action is of one kind of eight (`create`, issues,
     moves coins between customers, hands out of the pool, pays out, pays in, coins come in,
     opens rows). What follows is about these and not about every action.
  3. `TokenTypeCorrect`: `TokenTypeOK` is inductive as it stands.
  4. `RowPerUser`: needs, besides, `NothingBeforePhoenix`: until Phoenix is
     a user all balances are zero, so that no transfer can leave a row behind.
  5. `CoinsConserved`: the sum of the balances is the supply; inductive together with
     "no supply before `create`".
  6. `ImplementsCustodian`: each kind is a step of `Custody` or a stutter; only
     handing out of the pool is a `Grant`.
  7. `SolventButForGrants`: from the refinement and the custodian's step lemma.

- `PledgesProofs`, for any number of pledges, any length of the cycle, any set of
  patrons. `PledgeKinds` sorts the steps: a patron signs, a pledge is charged,
  a second passes, or the pledges stay as they are (all of `ColdToken`, `pause`,
  refused timers). The inductive invariant is
  `PledgesTypeOK /\ Indexed /\ KnowsTerms /\ KnowsCharges`:
  - `Indexed`: a row of either relation table is there exactly when the pledge it
    names is, between these two, and no pair has two pledges. Without it
    `pledge` could find the wrong pledge, or none, and create a second one.
  - `KnowsTerms`: what was signed last is in the `next_` fields of the pledge.
    Then a charge, which takes `next_quantity`, is as signed (`AsSigned`).
  - `KnowsCharges`: a pair was charged exactly if its pledge shows itself as paid,
    and then the age and the quantity of the last charge are those of its
    cycle. With the check `now > cycle_end` of a paid pledge this gives
    `PaidIsCharged` and `OnceACycle`.
  - `PledgesTypeCorrect` carries the arithmetic: both transfers of a payment
    together take no more than the balance (`PaymentEffect`).
  - `RelationsCorrect` follows from `Indexed`; `PledgesImplementCustodian`
    from `PaymentEffect` and the kinds of steps of `ColdToken`, and from it
    `PledgesSolventButForGrants` by the lemma that also gives `SolventButForGrants`.
    A charge is a `Redistribute`, never a `Grant`.
  - `CallsWhenOver`: `CallsWhenCycleOver` is inductive with the first two. A charge
    finds no timer of its pledge still waiting, since one would mean a cycle that is
    not over (`WaitingTimer`), so none is left behind when the next is not
    scheduled; a timer that was given up never was one that waits for a later cycle.
  - `PledgesConserve` and `PledgesRowPerUser`: what `TokenInv` says of the token
    contract survives a charge, which moves coins and gives rows to users only. That
    a patron had coins to pay with means that Phoenix is a user by then.

- `UsersProofs`, for any people, names, urls, limit and number of days:
  - `TokenStep`: every step of `Users` is a step of `ColdToken` or leaves its
    tables alone. Hence `UsersAreTokenSteps` and, from the theorems on the token
    contract, `UsersSolventButForGrants` and `UsersKeepTheCoins`.
  - `UsersTypeCorrect`: `UsersTypeOK` is inductive. That the keys are
    those of the users (`DOMAIN vkeys = users`) is part of it.
  - `KeyOfItsOwner` and `UrlsLeadBack` are inductive with the types.
  - `SignupsLimited` needs `CountOfToday`: the row knows the signups of
    today, and none are counted while it shows another day.
  - `FreeAccountOnce` needs that every name paid for is taken on the chain.

- `PostsProofs`, for any authors, keys, numbers of posts and lengths of the list of
  the latest. `ErasedList` says what erasing the first occurrence does to a
  sequence without repetition. The inductive invariant is `PostsTypeOK /\ IndexesOfAuthors /\
  LatestPosts`: the order of a list is what makes the first occurrence the
  only one, so that what is erased is gone. `KeyOpensPost` is inductive on top of it, and
  `DeletedStaysDeleted` follows for every step.

- `VramProofs`, for any shards, buckets, hash, scopes, keys and values:
  - An entry *blocks* an id if the search for the id stops there (`Blocks`); blocking
    is transitive, and antisymmetric. The invariant of a bucket, `Sorted`, is
    that no entry blocks the id of a later one. Then the search ends at the
    entry of the id if there is one (`SearchFinds`), and writing at the place where it
    ends, or taking an entry out, keeps the bucket so (`PutInBucket`, `RemovedFromBucket`).
  - `Sound`: every bucket of a shard is sorted and holds only what the hash
    sends there. `VramInv` says this of every shard in the table, in the
    loaded manifest and in the backups, also of shards of old revisions.
  - `Operation` and `RevisionRaised` say what an operation on a row, and raising the
    revision, do to the contents; each operation is then the one of `Rows` with
    its name (`VramIsRows`), which is what `LookupsExact` gives its guards for.
  - `AvailableKeysFree` needs the same of all backups (`KeysFree`).
  - `OneRow`: two rows with one scope and key would be in one bucket, and a sorted
    bucket has an id once. It is what `Rows` promises as `OneRowPerKey`.

- `ReplayProofs`, for any history, blank commits, page and chunk. What a page is (`Page`)
  and how it is cut into slices (`Sliced`) come first. `NothingSkipped` is
  inductive with the types. `RepeatedOnlyIfGrown` needs `ReadsBounded`: a commit that
  the next page could read again has been read at most as often as the history grew, any
  other once more. `NotTooManyOut` counts apart what the
  tool waits for and what failed chunks left behind (`Counted`).

- `FollowsProofs`, for any users, fans and lists of any length. The loops of
  the code are folds, and a fold over a sequence is defined by recursion on a set
  of indices. What is needed of them is proved without an induction rule:
  - `FoldTable` builds the table of what a fold gives for every set of positions, one
    position more at a time; `HasRounds` reads it as the rounds of a loop, each
    value made from the one before (`TableRounds`). Both rest on `EveryRound`: what
    holds before a loop and is kept by each round holds after all, or there
    would be a smallest round after which it does not (`SmallestNumber`). A loop
    invariant is thus a set, and no operator is passed to a lemma.
  - `Squeezed`, what `std::unique` keeps, has the names of the list; on a list without
    repetitions it is the list, so that `unique` does nothing (and else only moves
    names about, `[ann, ann, ben]` to `[ann, ben, ben]`). Then `diff_vectors` on such a list
    appends the new names and takes out the others, and on any list it neither
    invents nor loses a name that was not sent.
  - `toEach` changes the row of every name it goes through, and no other; hence
    `FollowsTypeCorrect`, `AgreementUntilAgain` (both tables are changed at the same pairs
    as long as nobody follows twice) and `OnlySentChanges`.

Model-checked only: `KeepsRenewing` and `Ends`, as liveness
under fairness is out of the prover's reach (statements with `ENABLED` are
too); and the disagreements of section 5, which are counterexamples.

## 5. Where documents and code disagree

- `src/README.md:32`: recurring payments use the scheduler "in case the
  payments are set to auto-renew". The timer is left by a payment
  (`pledges.cpp:187`), so switching autorenew on between payments arms none
  (`pledges_turned_on`). The counterexample: a pledge without autorenew is
  paid, an update sets autorenew, nothing more happens.
- `phoenix.hpp:209`: `next_delete` is to "remove the pledge after next cycle".
  It is stored and never read (`pledges_deleted`).
- `phoenix.hpp:117`: custom urls are "a two way binding by using scopes". Changing
  the url overwrites one direction (`main.cpp:212`) and leaves the old reverse
  row (`users_two_way`): the old url still leads to the user, and is lost to others.
- `phoenix.hpp:169-171`: follows are one relation, its data duplicated into two
  tables. Following somebody twice doubles the name in the lists, as
  `helpers.hpp:14` erases nothing, and the next name added to a list with two equal
  neighbours is doubled in turn: `[ann, ann, ben]` becomes `[ann, ben, ben]`. One
  unfollow then removes one of two here and the only one in the other table
  (`follows_one_relation`). `AgreeUntilAgain` shows that nothing else does this.

Also met: `phoenix.hpp:198` says that the quantity must be worth at least `usd_value`;
nothing compares the two. `setlimits` is defined (`main.cpp:105`) but not in the dispatch table
(`phoenix.cpp:136-138`), so the limit on signups stays at its default.

## 6. What is not modelled, and the plan

Not modelled and not planned: wording, memos, profile fields and tiers, the
hash that names free accounts, the scripts in `actions/` and
`start-localenv/` that send one transaction or configure a chain, and the
services themselves. Symbols of assets are left out: every quantity is WEOSDT, and
the checks that refuse others change nothing.

- `testreset` (`phoenix.cpp:19-50`) is compiled in, as `phoenix.hpp:3` defines `__TEST__`:
  the contract's own account may erase the user rows and keys of two fixed names
  used by the tests. It leaves their balance rows, urls and pledges behind, so
  `BalanceRowPerUser` and what follows from it hold of an installation where it is not
  sent. It is a tool of the tests and not modelled.
- The client (`actions/_helpers.js`) reads a nonce, or takes zero if it cannot, signs
  and posts once. What a lost or repeated transaction does is decided by the
  check of the nonce in the vaccounts library, which is not in the repository.
- The dump tool reads the history with the loop that `Replay` has, and has no chunks.
- In `advanced_multi_index.strip.hpp`: `btree_t` and its iterators, which nothing
  instantiates; reading the table of another chain; pinning and clean-up delays,
  hints to the DSP; the fetching of objects. `next_available_key` has 256 bits and
  `available_primary_key` casts it to 64 (`735-738`, `1321-1329`); the model keeps a
  natural number, so the boundary is not covered: after a row with the key 2^64-1 the
  code would return 0. No caller in the repository writes such a key.

Every safety property and action property of a passing run, and both refinements, are
theorems. Left to do: nothing that is planned; the two liveness properties stay with TLC.
