# TagMemo: a verification project

TagMemo keeps memos in a tree of groups; memos and groups carry tags. The
repository holds two programs that share a data model and nothing else: an
Android app (`src/TagMemo-java`) and an iOS app (`src/TabMemo-Swift`), each with
a local Realm file. There is no server. The unit tests are the empty templates
of the IDEs, so the code is the only description of what the apps do.

Paths below are shortened: `J` is
`src/TagMemo-java/app/src/main/java/com/timejh/tagmemo_java`, `S` is
`src/TabMemo-Swift/TabMemo-Swift`, `P` is `src/TabMemo-Swift/Pods`, and `O` is
`P/Realm/Realm/ObjectStore/src`.

## 1. Inventory

| Component | State | Operations | Talks to |
|---|---|---|---|
| Android store (`J/model/*`) | `Group`, `Memo`, `GroupMemo`, `HashTag` objects in one Realm file. A `GroupMemo` is the row of a list: it names its child by `type_id` (text) and by an object link | transactions committed by the editors and by `initRootGroup` | everything |
| Memo editor (`J/memo/MemoManageActivity`) | the loaded memo and its row, the widgets (title, content, tag adapter) | `onCreate`, autosave after every change, add, sort and remove tags, leave | store; started by the browser |
| Group editor (`J/group/GroupManageActivity`) | the same without content | the same, but tag edits do not trigger a save | store; started by the browser |
| Group browser (`J/group/GroupActivity`, `GroupFragment`, `adapter/GroupListAdapter`) | `fragmentList`, the path of groups; the fragment shown; the toolbar | make the root group, enter a group, back, up, start an editor | FragmentManager, store, editors |
| Tag adapter (`J/adapter/HashTagListAdapter`) | the list of tags on the screen | add, set, remove, sort; each calls the owner's `onDataChanged` | both editors |
| Tag layout (`android/support/v7/widget/WordsLayoutManager`) | the lines on the screen, through RecyclerView | break a row of chips into lines, downward and upward | RecyclerView, tag adapter |
| Utilities (`J/util`, `MyApplication`) | none | `createID`, an unused dialog helper, opening Realm | |
| iOS list (`S/GroupListViewController`) | the root group, a table view, a change notification | add (one transaction), edit, swipe to delete | store, notifications |
| iOS editors (`S/MemoViewController`, `S/GroupViewController`, `S/HashTag`) | text fields, a TagListView | save on `viewWillDisappear`, add tags one transaction each | store |
| iOS start (`S/AppDelegate`) | none | make the root group | store |
| Realm notifications (`O/impl`, vendored) | versions, notifiers, change sets | compute on a background thread, deliver on the main thread | iOS list |
| Realm opening and schema (`O/shared_realm.cpp`, `O/impl/realm_coordinator.cpp`, `P/Realm/Realm/RLMRealm.mm`, vendored) | the file's versions with their schema, the write lock, a schema cache per process, each Realm's schema and read transaction | open, migrate, begin, commit, refresh, close | the file; other threads and processes |
| Other vendored code (`P/TagListView`, `P/EZAlertController`, `P/RealmSwift`, headers of the Realm core) | | | |

What is hard here, and what each component must get right:

* **A save is several transactions.** The first save of a memo or a group is
  four (create, write the fields, make the row, link the row), and the process can
  die between any two. Nothing half-made may show up in a list, a memo may have
  one row only, and a death may strand at most the one object being created.
* **One callback saves several times.** `onCreate` of the memo editor saves up to
  three times and the "add tag" button once per piece and once more for the sort.
  The first creates, the others must find what it created.
* **Several editors on one memo.** `startActivity` only queues a launch; two quick
  taps give two editors on one memo, and the lower one goes on from stale widgets.
* **Editors over a browser that is behind.** Editors of both kinds are queued, and
  cover one another and the browser, whose own commits may still be pending.
* **Activities are taken away.** A rotation rebuilds the memo editor from its
  Intent: in `MODE_CREATE` that makes one more memo. The browser cannot be rebuilt
  at all, because `GroupFragment` has no empty constructor.
* **Fragment transactions are deferred.** The browser's first fragment is committed
  before its group exists, and clicks can overtake a pending commit.
* **Chips of the frame before.** The adapter changes at once, the chips on the
  screen at the next layout; and lines are filled in two directions.
* **iOS: indexes into a live list.** The table view follows the list by
  notifications; deleting and batch updates use indexes that may be out of date.
* **iOS: late saves.** Text is stored only when the editor disappears; a new tag is
  a transaction of its own.
* **Several threads and processes open and migrate one file.** What a thread has
  decided to change may be out of date when it gets the write lock, and a process
  caches the schema of versions that others go on from.

`PROJECT.json` lists each of these at its line under "hazards", with the
properties that would catch it going wrong.

## 2. Modules

| Module | What it is |
|---|---|
| `TagStore` | the tables of the Android app's file and the transactions on them; extended by every Android module |
| `MemoManage` | the memo editor, as a state machine over the store |
| `MemoShelf` | abstract specification: what the lists promise to the user |
| `GroupManage` | the group editor |
| `GroupActivity` | the group browser and its fragments |
| `TagMemoAndroid` | the app: instances of the three on one store, with the task and the launches |
| `TagChips` | the tag adapter and the layout of its chips |
| `ListChanges` | the arithmetic of Realm's change sets, and what a table view makes of one |
| `ChangeBuilder` | that arithmetic against a reference that follows every row |
| `ListNotifier` | Realm's notifications for one list: two threads, versions, the table view |
| `ListWatch` | abstract specification: what the iOS list needs from notifications |
| `GroupList` | the iOS app: list and editors, on top of `ListNotifier` |
| `RealmOpen` | opening a Realm file: migration, the schema cache, transactions |
| `MemoManageProofs` | theorems about `MemoManage`: its lists, its saves and deaths |
| `GroupManageProofs`, `GroupActivityProofs` | theorems about these |
| `TagMemoAndroidProofs` | theorems about the app as a whole, on instances of the two modules about its editors |
| `TagChipsProofs` | theorems about `TagChips` |
| `ListChangesProofs` | lemmas about the operators on change sets; on them theorems about `ChangeBuilder` |
| `GroupListProofs` | theorems about `ListNotifier`, and on them those about `GroupList` |
| `RealmOpenProofs` | theorems about `RealmOpen` |
| `MCMemoManage`, `MCGroupManage`, `MCGroupActivity`, `MCTagMemoAndroid`, `MCTagChips`, `MCListNotifier`, `MCGroupList`, `MCRealmOpen` | small instances for TLC |

Definitions with a comment that begins with "Mutant" are deliberate mistakes, one
per property. They are used by nothing; replacing the definition they belong to
(`PROJECT.json`, "mutants") makes TLC find the property violated.

### 2.1 TagStore

`groups`, `memos` and `rows` are functions from ids to a record or `Null`
(nothing with that id), `hashTags` the tag texts that have a `HashTag`. Titles
and contents are members of a small set `Text`, tags are numbers, so that `<`
stands for `String.compareTo`. `Database.createID` is a hash of the time and
random letters; a creation takes any id not yet in use, and two creations
getting the same id is excluded (it is listed as a hazard). `RowsOf(id)` is the
query by `type_id`, `Linked(r)` the fact that the row is in its parent's list.
`SaveTags`, `WriteMemo`, `CreateRow`, `LinkRow`... are the bodies of single
`beginTransaction` / `commitTransaction` pairs.

### 2.2 MemoManage

Everything in the app runs on the UI thread, one callback after the other.
A callback is made of operations (`set` the parent's tags, `edit`, `subscribe`,
`title`, `content`, `add`, `sort`, `remove`); each of them ends in
`saveAfterCheck`. `work` is what the running callback still has to do and `save`
the save in progress: the next transaction (`save.step`) and the arguments of
`save()`, where null means "leave this field". The user acts only when both are
empty (`AtRest`). `Kill` may come at any time, so every pair of transactions has
a death between them in the model.

| Code | Model |
|---|---|
| `onClickAddMemo`, `onMemoClicked`, `startMemoManager` | `TapAddMemo`, `TapMemo`: append an Intent to `starting` |
| `onCreate`, `initIntentValue`, `initValue`, `initObserable` | `Launch` fills `work`; `SetGroupTags`, `ModeEdit`, `Subscribe` run it |
| rotation; coming back after a background death | `Recreate`: the same from the editor's Intent, then the saved texts |
| RxTextView emissions | `TypeTitle` / `TitleChanged`, `TypeContent` / `ContentChanged` |
| `addTag`, `HashTagListAdapter.add`, `sort`, `remove` | `ClickAddTag` / `AddTag` / `SortTags`, `ClickTag` / `RemoveTag` |
| `saveAfterCheck` | `SaveAfterCheck` |
| `save`, `createMemo`, `saveGroupMemo`, `refleshParentGroup` | `Save`, `CreateStep`, `WriteStep`, `RowStep`, `LinkStep` |
| back | `Finish`: the editor below comes to the front as it was left |

`ItemHashTag.position` is never assigned in the code, so `RemoveTag` removes the
first tag whichever chip is clicked; the model does what the code does. The
Toast branch of `modeEdit` and the null test in `initIntentValueCreate` cannot be
taken, because the Android app deletes nothing; they are left out.
`creates`, `kills` and `shared` are history variables.

### 2.3 GroupManage

The group editor is a copy of the memo editor with two differences: its
`onDataChanged` is empty, so tags are saved only along with a title, and
therefore one callback saves at most once. There is no `work` queue; `restore`
is the one thing that can follow `onCreate`, the title that
`onRestoreInstanceState` puts back. `MODE_EDIT` is implemented but nothing starts
the activity in it, and it is not modelled.

### 2.4 GroupActivity

`fragmentList` is the path the activity keeps; `pending` holds the groups whose
fragments have been committed but not carried out, `shown` is the group of the
fragment on the screen. `ExecutePending` stands for the FragmentManager's pass:
`onCreateView` of the fragments, which throws when a group does not exist, and
`onResume`, which sets the title and the up arrow from the group itself. Clicks
are handled by what is on the screen, also while commits are pending. A new
group or memo comes from an editor, `AddGroup` or `AddMemo`: one step, in any
group there is and at any time, also with the browser gone. That one step is
enough is what `ImplementsBrowser` shows of the real editors (3.4).

### 2.5 TagMemoAndroid

The three activities are instances on one store; this module has what connects
them. `task` is the stack of editors above the browser, `queue` the kinds of the
launches that wait, in the order of the calls. `Looper` says that no callback
of any activity is running, and is part of every action that begins one.

| Code | Model |
|---|---|
| the launcher | `StartApp` |
| `GroupActivity.onCreate` | `BrowserOnCreate`: `initFragmentSettings`, then `initRootGroup` |
| the FragmentManager, `GroupFragment.onResume` | `ExecutePending`, whatever is in front |
| `onClickGroup`, `onBackPressed`, up | `Navigate` |
| `onClickAddMemo`, `onClickMemo`, `onClickAddGroup`, `startMemoManager`, `startGroupManager` | `TapMemo`, `TapAddGroup`: on the group that is shown, while the browser goes on |
| the start of an editor | `Launch`: it covers whatever is in front |
| what the user does in an editor; its recreation | `EditMemo`, `EditGroup`, `Finish` |
| the rest of an editor's callback, with its transactions | `MemoCallback`, `GroupCallback` |
| recreation of the browser | `Crash` |
| death of the process | `Kill` |

### 2.6 TagChips

`hashTags` is the adapter's list, `lines` the lines of chips on the screen. A
click is on a chip of `lines`, which may be of an older list (`dirty`): two clicks
can be queued before the next layout.

| Code | Model |
|---|---|
| `layoutChunk`, with `LineModel.canFit` | `LineDown`, `LineUp`, `CanFit`; `After` and `Before`, where the position is left |
| `onLayoutChildren` | `Layout`, for the height the keyboard leaves |
| `LinearLayoutManager` (external): anchor, filling, recycling | `Anchor`, `FillEnd`, `FillStart`, `ScrollDown`, `ScrollUp` |
| `notifyDataChanged` | `NotifyDataChanged` |
| `addTag`, `add`, `sort` | `AddTags`; the saves between are in `MemoManage` |
| a click on a chip, `remove` | `ClickChip`: the first tag goes; an empty list throws |
| rotation, `set` | `Recreate` |

A line has one height, scrolling goes by whole lines, and a chip has a width. The sum
that `LineModel.addView` keeps is the number of columns of pixels the chips of a line
take (`LineWidth`), and `List.sort` is what it returns: the tag at a position is the one with
so many smaller ones before it (`Added`).
A chip is never wider than the line, because it is measured with the line as
its maximum: a long text becomes a taller chip, counted as one line here.
The layout scrolls in the group editor; in the memo editor it lies in a
`ScrollView` and shows all its lines, the case of a large height.

### 2.7 ListChanges and ChangeBuilder

An `IndexSet` is the set of its indexes; the operators say what the loops over
ranges compute. Deletions are positions of the old list, insertions of the new.
Modifications are positions of the new list until `finalize` maps them back.
`ChangeBuilder` records changes one by one, as the parser of a transaction log
does, merges now and then (`add_changes`), and keeps beside it, for every row,
where it was and whether it was modified. Positions count from 1.

### 2.8 ListNotifier

| Code | Model |
|---|---|
| versions of the file | `log`: the list, the changes that led to it, the objects touched |
| `addNotificationBlock` | `Init` (and `Reopen` in a new process) |
| `ExternalCommitHelper::listen`, `run_async_notifiers` up to the unlock | `RunAsyncNotifiers`: read the pipe, pick the version |
| `ListNotifier::run`, `prepare_handover` | `PrepareHandover` |
| the end of `on_change` | `SignalRealms` |
| the run loop source, `process_available_async` | `ProcessAvailableAsync` |
| `begin_transaction` up to the wait | `BeginTransaction` |
| `package_and_wait`, `deliver`, `after_advance` | `PackageAndWait` |
| the write block and `commit_write` | `CommitTransaction` |
| the notification block of `viewDidLoad` | `Block` |
| `beginUpdates` ... `endUpdates` | `Fits`, `BatchUpdate` |

The grain is that of the mutex: the listener thread picks a version under it,
works without it and hands over under it, and signals the run loop without it;
the main thread can commit between any two. An entry of the list is a row and
the version that last touched it, so a cell that was not reloaded differs from
the list. `main` is the main thread: free, waiting, writing. In the code the run
for `m_notifier_skip_version` comes before the run for the newest version; with one
writer both have the same target, and the second finds nothing: they are one step.

### 2.9 GroupList

A write happens in two steps: the user's action begins a transaction with what it
has decided (`doing`), and after the wait, during which the block may have been
called and the table changed, the callback does it. A row stands for a
`GroupMemo` with its `Memo` or `Group`, which are made in the same transaction.

| Code | Model |
|---|---|
| `addBtnAction`, the alert, `prepare(for:)` | `SelectAdd` |
| `setAddMemo`, `setAddGroup` | `SetAdd` |
| `editActionsForRowAt`; its Delete action | `Swipe`, `SelectDelete`, `Delete` |
| its Edit action, `setEditGroup` | `EditGroup`: the cast of the sender fails |
| `cellForRowAt` while scrolling | `CellForRow` |
| text fields | `Type` |
| `addTagBtnAction`, `TagListView.addTag(_:save:)` | `AddTag`, `CreateHashTag`, `AppendTag` |
| `viewWillDisappear` | `Disappear(gone)`, `Save`; also when a swipe back is given up |
| death of the process and next launch | `Relaunch` |
| exceptions | `failure`; only `Relaunch` follows |

`didSelectRowAt` never runs (the storyboard has `allowsSelection="NO"`), so a memo
is edited only right after it was made, and no group but the root is ever shown.
`typed`, `deleted`, `deletion` and `misread` are history variables.

### 2.10 RealmOpen

The file is `log`, a sequence of versions with their columns and schema version;
`writer` is the thread that has the write lock. Each process has the schema its
program wants (`target`), the lock of `realmWithConfiguration` (`initLock`) and the
cache of its `RealmCoordinator` (`coord`). `realm[t]` is the Realm of thread `t`:
`m_schema`, `m_schema_version`, `m_schema_transaction_version` (`known`),
`m_new_schema` (`new`), `m_dynamic_schema`, the version read (`at`), and in `pc` what the
thread does next.

| Code | Model |
|---|---|
| `realmWithConfiguration`: `initLock` taken | `Enter` |
| the constructor of `Realm`: from the cache, or read and cache | `Construct`, `CacheFirst` |
| a Realm of another thread: `set_schema_subset`; the first: `get_full_schema`, `update_schema` | `Align`, `ReadSchema` |
| `begin_without_validation`; the second look after the wait | `BeginWrite`, `Recheck` |
| `apply_schema_changes` and the commit; `clear_schema_cache_and_set_schema_version` | `Apply`, `CacheNewSchema`, `Clear` |
| an exception; the Realm deallocated | `Failed`, `Destroy` |
| first access; `begin_transaction`, `commit_transaction`, `cancel_transaction` | `Access`; `StartWrite`, `Promote`, `Commit`, `Cancel` |
| `refresh`, the run loop; `invalidate`; `close` | `Refresh`, `Invalidate`, `Close` |
| `add_schema_change_handler`, `cache_new_schema` | `Advance`, `CacheNew`, `NewCached`: after the transaction has moved, a step of its own |
| death of a process | `Die` |

The mode is `SchemaMode::Automatic`. A column is there or it is not; types,
indexes and primary keys are left out, and so is what a migration block does to
the data. The core calls the handler only when tables or columns have changed on
the way, so another process that raised nothing but the version goes unnoticed;
this is listed as a hazard. `VersionsShow` says of a set of programs that it cannot
happen: each has a column that no older program, and no older first file, has. It
holds of the programs of the instance, and is a hypothesis of four theorems (section 4). The app itself uses
little of this: one process, `try! Realm()`, schema version 0, no migration block.

## 3. What is checked

| Run | Instance | Properties | Result |
|---|---|---|---|
| `memo_manage` | 2 groups, 2 memos, 2 tags, 2 texts; 2 launches queued, 2 creations, 1 death; symmetric memos and rows | 6 invariants, `StrandedForGood`, `ImplementsShelf` | holds, 2.6 million states |
| `group_manage` | root and 3 groups, 2 tags, 2 texts; 2 launches, 3 creations, 1 death | 2 invariants | holds, 431 000 states |
| `group_activity` | root and 3 groups, a memo; path up to 5, 2 pending commits | 3 invariants, `ScreenCatchesUp` | holds, 524 000 states |
| `android` | root, 2 groups, a memo; path up to 2, 1 pending commit, 2 launches queued, 1 death | 3 invariants, `ImplementsBrowser`, `AskedArrives` | holds, 174 000 states |
| `tag_chips` | 6 tags; widths 4 and 6, heights 1 to 3 | 2 invariants | holds, 11 000 states |
| `change_builder` | lists up to 4 rows, 5 changes | `ChangesExact`, `BatchExact` | holds, 17 000 states |
| `list_notifier` | 2 rows, 3 transactions of up to 2 changes | 2 invariants, `ImplementsListWatch`, `EveryCommitPackaged` | holds, 139 000 states |
| `list_notifier_modifications` | 3 rows, 2 transactions | `ModificationsInNewList` | violated (see 3.9) |
| `group_list` | a memo, a group, one item to add; 2 tags; 6 transactions, 1 death | 5 invariants, `CallbackEnds` | holds, 352 000 states |
| `realm_open` | 2 threads of a process, 1 of another; 3 files, 3 programs; 3 versions, 1 death | 5 invariants, `SchemaForward` | holds, 3.0 million states |
| `realm_open_live` | the same; 1 file, 2 programs, no death | `OpeningEnds` | holds, 186 000 states |
| `realm_open_cache_assert` | as `realm_open` | `AdvancesFromKnown` | violated (see 3.9) |

### 3.1 The memo editor

* `MemoShownOnce`, `ListedMemoWritten`: at every moment, also between the
  transactions, the lists show a memo at most once, in the group it was created
  in, and never before its fields are written.
* `StrandedOnlyByKill`, `StrandedForGood`: what no list shows and no editor is
  about to link was stranded by a death, one memo per death, and stays stranded:
  nothing in the code looks for such memos.
* `AutosaveComplete`: when a callback is over, every open editor shows exactly what
  is stored. The exception is named: a memo that two editors of the stack have
  both open (`shared`), where the lower editor is stale and its next save writes
  its stale fields back.
* `OneMemoPerCreate`: each `onCreate` in `MODE_CREATE` leaves exactly one memo. It
  says that the three saves of `onCreate` do not create twice. It also says what a
  user may not like: an editor opened and left at once, or rotated, leaves an
  empty memo each time.
* `TagsInOrder`: no stored tag list has a tag twice, not even the lists saved in
  the middle of `addTag`; only a death inside it leaves a list unsorted.
* `ImplementsShelf`: the module implements `MemoShelf`. Of all the transactions a
  user of the lists sees two kinds: an entry appears at the end of one list,
  filled in, or an entry changes in place. The refinement maps the lists to the
  objects their rows refer to.

### 3.2 The group editor

* `GroupsFormTree`: the groups the lists show are a tree under the root, each in
  its parent's list exactly once and with its title written; no list is ever
  reached in a circle, and nothing is created inside a stranded group.
* `TagsSavedWithTitle`: what is stored of the tags is what the editor showed when
  its title last changed. The property pins down the difference from the memo
  editor: later tag edits are lost with the editor.

### 3.3 The browser

* `NeverNoGroup`: although `initFragmentSettings` comes before `initRootGroup`, no
  fragment is ever built on a group that does not exist. The mutant carries the
  commit out at once, and fails.
* `ScreenShowsPath`: when nothing is pending, the screen shows the end of
  `fragmentList` and the up arrow is there exactly when the path is longer than one,
  although the one is decided by the group's parent and the other by the list.
* `PathFromRoot`: the root is at the bottom of the path and nowhere else; and the
  path is one in the tree unless a click was handled while a commit was pending
  (`raced`). The second part needs its condition: two clicks on a row before the
  first is carried out put the group on the path twice.
* `ScreenCatchesUp`: liveness, under weak fairness of the UI thread.

### 3.4 The Android app

* `TypeOK`: besides the types of the three parts, the queue and the task agree
  with what the parts have queued and open.
* `AllInLists`: whatever is shown, on the path, pending, queued or open refers to
  groups that the user can get to, also after an editor was overtaken by clicks,
  covered by another one or cut off by a death; and so does every memo and group
  that a list shows. A stranded group is never seen by anything.
* `OneLostPerKill`: a death loses one object, memo or group, whatever editors are
  open: the UI thread has one save in progress. The editors' own modules say this
  of one kind each; the sum is the claim of the composition.
* `ImplementsBrowser`: the app implements `GroupActivity`, for which an editor is one
  step. The refinement hides the groups, memos and rows that are in no list yet, and
  the texts and tags: of the four transactions of a save only the last is seen, as an
  `AddGroup` or `AddMemo`. So a row is appended to one list only, its object was in
  no list before, a new group's list is still empty when the group gets into its
  parent's, and the browser never follows a row to a group that it does not see.
* `AskedArrives`: each time the user asks for a new memo or group, there is in the
  end one more in the lists, if the process lives. Liveness.

### 3.5 Chips

* `ShownIsWindow`: after a layout, and however it was scrolled since, the screen
  shows a stretch of the list, each chip once, in order, and is full unless it shows
  the whole list. `layoutChunk` takes a chip before it knows that it does not fit, and
  must give the position back in the right direction.
* `FewLines`: against a reference (the best of all ways to break the list), the lines
  fit and are as few as possible, but for one seam between the lines filled
  downward and those filled upward.

### 3.6 Change sets

* `ChangesExact`: whatever the order of insertions, erasures, modifications, clears
  and merges, the set says exactly what happened to each row.
* `BatchExact`: applied to the old rows, it gives the new ones.

### 3.7 Notifications and the iOS app

* `TableFits`: the batch update never raises UIKit's exception, and after each call of
  the block the table is the list of the version delivered. It is the wait in
  `begin_transaction` that makes this true: without it a change set is delivered
  that does not fit the live list.
* `AtMostOneBehind`: a change set never covers two transactions. The app depends on
  it more than it shows: between two calls the table is one deletion behind at most.
* `ImplementsListWatch`: seen through the list and the table, the two threads, the
  pipe and the versions are a two-action protocol: a change is committed only when
  the table is up to date, and a call brings it up to date.
* `EveryCommitPackaged`: no wakeup is lost. A signal of the run loop that comes for an
  old version does nothing, and another one follows.
* `ListTypeOK`: besides types, an item is listed unless the user deleted it, at every
  moment and after any death: making the objects and listing them is one
  transaction (compare `StrandedOnlyByKill`). A deleted item stays in the file.
* `DeleteHitsTouched`: Delete removes the row that was touched, with two named
  exceptions. If the table had not been told of the last deletion, the row below may
  go instead. And a cell that was filled in that time (`misread`) shows a row which
  it does not stand for. Both are reached in the run: the wait in
  `begin_transaction` lets the block run between the touch and the delete.
* `CellsCurrent`: with everything delivered, every cell is current, unless one was
  misread.
* `TagsStored`: the chips are the stored tags, in order, each with its `HashTag`.
* `TextKept`: text is lost only when the process dies with the editor open.
* `CallbackEnds`: adding several tags is several waits in one callback, with the run
  loop standing still; it gets to its end.

### 3.8 Opening a file

* `ChangesFit`: the changes a migration makes are the differences between the file as
  it is under the write lock and the target, however long it had to wait for the
  lock. The mutant without the second look fails.
* `SchemaForward`: a file never goes back to an older schema version.
* `KnowsFile`: in every read transaction the Realm's version is that of the file it
  reads, also when the constructor took it from the cache. Between the commit of a
  migration and the clearing of the cache, the cache is wrong; only `initLock` keeps
  other threads out, and the mutant without it fails.
* `ColumnsThere`: a Realm in use never reads a version that lacks one of its columns;
  another process may add columns to a file that is open here, and if it drops one
  the next transaction throws.
* `CacheExact`: the cached schema is the one of every version the cache says it is for
  (but for that same moment), whatever versions the threads of a process read.
* `OpeningEnds`: whoever asks for a Realm gets it or an exception, and the write lock
  becomes free. The second look of `update_schema` (`O/shared_realm.cpp:398`) may
  throw before the scope guard of line 408 exists: the write transaction then stays
  open until the Realm is deallocated. The lock depends on that alone; the
  mutant where deallocation does not cancel it leaves every process waiting.

### 3.9 Comments and assertions the code does not follow

`P/RealmSwift/RealmSwift/RealmCollection.swift:99` says that the modifications given
to a block are indices in the new collection. `P/Realm/Realm/RLMCollection.mm:288`
returns those of the old collection. `ModificationsInNewList` is violated by a
transaction that deletes a row and touches one below it. The app is right to use
them as it does: `reloadRows` in a batch takes positions from before the batch. It
would break if the comment were true (the mutant `FinalizeNew`).

`advance_schema_cache` asserts `previous <= m_schema_transaction_version_max`
(`O/impl/realm_coordinator.cpp:289`). `AdvancesFromKnown` states it, and TLC finds it
violated: `update_schema` clears the cache; an open Realm commits, which moves
its own version on and not the empty cache's; a thread of the same process
that was constructing its Realm meanwhile caches the older version it had
read; the next commit of the first Realm comes from a version beyond the
cache's. In a release build the assertion is not compiled, and `CacheExact` shows that the cache
stays right all the same; a build with assertions would stop.

Two smaller disagreements have no run. `J/model/GroupMemo.java:18` says of `type_id`
that it is the id of a group or a memo; `initRootGroup`
(`J/group/GroupActivity.java:67`) makes the root's row without one, and nothing
depends on it. `P/RealmSwift/RealmSwift/List.swift:423` says that notifications are
delivered by the run loop; `begin_transaction` also calls blocks that are
outstanding, inside `beginWrite`, which is why `DeleteHitsTouched` has its exceptions.

### 3.10 Bounds and why they are enough

`MaxTaps = 2` gives two editors on the stack started by two quick taps, on one
memo or on two; a third would only repeat the second. `MaxCreates` bounds the ids
used (2 memos, 3 groups: a chain of three, or a group and two in it, or two groups
whose editors are interleaved). `MaxKills = 1` puts one death between any two
transactions; the proofs (section 4) cover any number. Two tags and one input
with a tag twice and a blank exercise every branch of `addTag`; two texts exercise
"changed" and "unchanged". `MaxDepth` and `MaxPending` let the path grow beyond
the number of groups, which needs a raced click. Deadlock is not checked for the
editors, where the counters run out and the user may stop; it is checked for the
browser.

The composition (`android`) has the launches, the covering and the deaths in full
and cuts what the parts' own runs have: texts and tags are empty, the path has
at most two groups and one commit is pending. One memo and two groups are
enough for editors of both kinds over one another in either order, and for a
group made in a group whose editor has just been left.

Chips: six tags of widths 1 to 6 on lines of 4 and 6 give lines of one, two and
three chips, chips of the whole line, and lists that break differently from above and from
below; three lines on the screen and a list of up to five lines leave room to
scroll both ways.

Change sets: five changes on four rows contain every combination of two
insertions and two deletions with a merge between them, which is what the shifts
act on. Notifications: a transaction of two changes has an insertion and an
erasure before or after one another, and three transactions keep the listener
thread a whole transaction behind while the next one begins; `MaxVersion` ends
the run, and nothing wraps around. `group_list` has six transactions per
launch: adding an item, two tags of two transactions each, and a save or a
deletion. One death suffices, since a launch starts from the file alone. Deadlock is
not checked: the versions run out.

Opening: two threads of a process are what the cache and `initLock` need, a thread
of another process is what the wait for the write lock needs. The file is new, or
of a program of version 0 or 1; the programs add a column, add a table and drop a
column, and one pair wants different columns under the same version. `MaxVersion`
bounds the commits of users only; a migration may go beyond it. Deadlock is
checked: a thread can always go on, because a Realm can always be closed.

### 3.11 Fairness

Android: `WF_vars(UiThread)` says that the looper goes on with posted work: launches
queued by `startActivity`, the rest of a callback, the transactions of a save, the
FragmentManager's pass. In `TagMemoAndroid` the launches also have strong fairness:
the user can begin one callback after another, and while each runs `Launch` is
not enabled; but the looper's queue is first in, first out, so a launch posted
earlier is not put off forever. Nothing is assumed of the user or of the system that
kills processes.

For iOS there are two threads, and each gets on: the listener thread returns from
`kevent` when the pipe has something to read (`WF` of `Listener`, one action at a
time), the main run loop handles a signalled source when it is idle
(`ProcessAvailableAsync`), a wait on the condition variable ends when its condition
holds (`PackageAndWait`; the listener notifies after every run and nothing but a
commit by the waiting thread itself could falsify it), and a callback that has
begun continues (`ClientCommit`, `Callback`). The user is not assumed to do anything.

`RealmOpen`: every thread goes on with what it does inside the library (`WF` of
`Library(t)`), the operating system's lock does not pass over one waiting opener
forever (`SF` of `BeginWrite(t)`), and whoever has begun a write transaction ends it
(`WF` of `Commit(t) \/ Cancel(t)`), which the interface of Realm demands of its user.
`realm_open_live` has no deaths: a death only frees locks.

## 4. What is proved

Every theorem holds for all values of the constants: any number of groups,
memos, texts, tags, editors on the stack, pending commits, versions, creations
and deaths, lists and change sets of any size. They rest on the assumptions stated with the constants: the ids of
groups and memos are disjoint, null is none of the values
(`EditorAssumption` says so of the records of an editor, `EditorsAssumption` of those of the whole app, `NotifierAssumption` of lists
and their entries, `ListAssumption` of the items and the editor of the iOS app), the given groups have
lists without duplicates whose rows point back to them and only show groups
(`InitialAssumption`), and a group is shown once (`OneRowAssumption`, which the
abstract specification needs in its initial state); the root is a group id and its row a row
id (`AndroidAssumption`, which also says that bounds are numbers and that the path has room for one fragment); null is no thread and no set of
columns in `RealmOpen`; in `TagChips` chips, views and screens have sizes above zero, and what is typed
at once is finitely many tags (`TagChipsAssumption`). TLC evaluates all of them. `VersionsShow` and `GroupsSorted` are no assumptions but
hypotheses, of the theorems where the table names them; TLC evaluates them for the
instances (`MCVersionsShow`, `MCGroupsSorted`).

| Theorem | States | Module |
|---|---|---|
| `TypeCorrect` | `Spec => []TypeOK` | `MemoManageProofs`, and one each in `GroupManageProofs`, `GroupActivityProofs` |
| `TypeCorrect` | `Spec => []TypeOK` | `TagMemoAndroidProofs` |
| `EverythingInLists` | `Spec => []AllInLists` | `TagMemoAndroidProofs` |
| `LossBounded` | `Spec => []OneLostPerKill` | `TagMemoAndroidProofs` |
| `BrowserRefinement` | `Spec => ImplementsBrowser` | `TagMemoAndroidProofs` |
| `ShownOnce` | `Spec => []MemoShownOnce` | `MemoManageProofs` |
| `ListedWritten` | `Spec => []ListedMemoWritten` | `MemoManageProofs` |
| `Refinement` | `Spec => ImplementsShelf` | `MemoManageProofs` |
| `StrandedBounded` | `Spec => []StrandedOnlyByKill` | `MemoManageProofs` |
| `StrandedStays` | `Spec => StrandedForGood` | `MemoManageProofs` |
| `Autosave` | `Spec => []AutosaveComplete` | `MemoManageProofs` |
| `MemoPerCreate` | `Spec => []OneMemoPerCreate` | `MemoManageProofs` |
| `TagsSorted` | `GroupsSorted`: `Spec => []TagsInOrder` | `MemoManageProofs` |
| `TagsSaved` | `Spec => []TagsSavedWithTitle` | `GroupManageProofs` |
| `GroupsTree` | `Spec => []GroupsFormTree` | `GroupManageProofs` |
| `GroupAlwaysThere` | `Spec => []NeverNoGroup` | `GroupActivityProofs` |
| `ScreenCorrect` | `Spec => []ScreenShowsPath` | `GroupActivityProofs` |
| `PathCorrect` | `Spec => []PathFromRoot` | `GroupActivityProofs` |
| `WindowOfTheList` | `Spec => []ShownIsWindow` | `TagChipsProofs` |
| `FewestLines` | `Spec => []FewLines` | `TagChipsProofs` |
| `Exact` | `BuilderSpec => []ChangesExact` | `ListChangesProofs` |
| `Batch` | `BuilderSpec => []BatchExact` | `ListChangesProofs` |
| `OneBehind` | `Spec => []AtMostOneBehind` | `GroupListProofs` |
| `Fitting` | `Spec => []TableFits` | `GroupListProofs` |
| `Watching` | `Spec => ImplementsListWatch` | `GroupListProofs` |
| `Types` | `ListSpec => []ListTypeOK` | `GroupListProofs` |
| `Deleting` | `ListSpec => []DeleteHitsTouched` | `GroupListProofs` |
| `Cells` | `ListSpec => []CellsCurrent` | `GroupListProofs` |
| `Tags` | `ListSpec => []TagsStored` | `GroupListProofs` |
| `Kept` | `ListSpec => []TextKept` | `GroupListProofs` |
| `RealmTypeOK` | `Spec => []TypeOK` | `RealmOpenProofs` |
| `NoColumnMissing` | `Spec => []ColumnsThere` | `RealmOpenProofs` |
| `ColumnsKnown` | `Spec => []ColumnsExact`, the columns of the next three | `RealmOpenProofs` |
| `SchemaKnown` | `VersionsShow`: `Spec => []KnowsFile` | `RealmOpenProofs` |
| `CacheIsExact` | `VersionsShow`: `Spec => []CacheExact` | `RealmOpenProofs` |
| `ChangesAreRight` | `VersionsShow`: `Spec => []ChangesFit` | `RealmOpenProofs` |
| `NeverBack` | `VersionsShow`: `Spec => SchemaForward` | `RealmOpenProofs` |

Each module strengthens its properties to an inductive invariant, has a lemma per
action, and combines them. The invariants were checked by TLC before they were proved.

`MemoManageProofs`: `IInv = TypeOK /\ StoreInv /\ UiInv`. `StoreInv` is about the file:
each memo has at most one row, a row refers to what its `type_id` names, it lies in
the list of its own parent only and at most once, and a memo that has a row has
been written. `UiInv` is about the save in progress: what must be true before each
transaction (at `write` the memo exists; at `row` it is written, and the row the
editor holds, if any, is the memo's; at `link` the row exists and is in no list
yet), and that every other editor holds rows and memos that exist.
No property is inductive by itself: that `LinkStep` does not show a memo
twice follows from the memo having one row, which follows from `RowStep` looking
rows up by the same id they are made with.

Its refinement of `MemoShelf`: with one row per memo, and rows made only for written memos,
three of the four transactions of a first save leave the entries of `MemoShelf`
as they are; `LinkStep` appends one, and a write to a memo that is listed edits
the entry in place. The proof goes by action, with lemmas about what the
lists show before and after.

Its second part adds `LinkInv`: outside the save in progress, editors and
Intents hold listed memos only. So no action but the save's own links a memo, and
a memo that has been stranded is out of reach. For the count, the set of stranded
memos is finite and grows by at most the one memo of the save that a death cuts off.

It then adds `AutoInv`: of the editor in front, for each transaction, that
what the rest of the save will store is what the editor shows; of the editors
below, that what they show is stored, unless their memo is in `shared`; that one
memo in two editors of the stack is in `shared`; and that an editor
without a memo still has the saving end of its `onCreate` before it.

`CountInv` counts the memos: an Intent carries no memo id exactly when it asks for a new
memo (`ModeOK`), and while the process lives, the stored memos, the queued
launches for new ones and the editor in front that has none yet (`Unmade`) are as many
as the calls of `onCreate` for new memos. An editor cannot get under another
one before its callback is over, so only the one in front can be without.

`TagInv` is about the order of tags: each "add" that is still to come has a "sort" behind it
(`AddsSorted`), and only the memo of the editor in front may be out of order,
while a sort comes or the save in progress has tags to write (`Unsettled`). `SortTags` does
not say how `List.sort` works but what it returns, an ordered rearrangement, so that no
induction over the list is needed; that the order is strict follows from the tags being
different (`OnceInv`). A new memo starts with its group's tags, so these have to be in
order: `GroupsSorted` is a hypothesis about the given groups. A death inside `addTag`
of the group editor could have left them otherwise.

`GroupManageProofs`: each editor of the stack has a group of its own, because it
created it and an Intent names only the parent; so a stored title and its tags
can only change by the editor that shows them.

Its second half states the tree over all stored groups, not just those in lists:
a group has at most one row, the lists have no duplicates, and among
the groups below the root there is no non-empty set that contains the parent of
each of its members (`NoCircle`). A group is created with a parent that is already in a list, so no
set of old and new groups closes a circle; the editors' groups being in lists is
part of the invariant.

Both modules end in a part that lets their editors run among other activities. `MemoDeed` and
`GroupDeed` say all that a step of one kind does to the file: which memos, groups and rows it
may add or write, and that a list gains at most the one row that the save was about.
`OthersDeed` says what an editor of the one kind tolerates from everybody else;
`OthersInv`, `OthersLinked`, `OthersTree` and `OthersLink` say that it does: its
invariant survives, nothing that was stranded comes back, nothing new is.

`TagMemoAndroidProofs` takes an instance of each (`MemoP`, `GroupP`). The instances are of
the same definitions as the ones inside `TagMemoAndroid`; `MemoSame` and `GroupSame` say so,
action by action. `AppInv` has five parts. `EditorsInv` is the two invariants on the one
file; the groups form a tree, or there are none yet (`NoGroups`): between installing the app
and `initRootGroup` there is not even a root, and no editor can have been asked for.
`OneSave` says that one of the two kinds has no callback in progress. `TaskInv` relates the task
and the queue of launches, which have an entry of each kind for each activity, to the two
stacks of editors: without it a `finish()` could take the wrong one. `BrowserInv` is the
order of `onCreate` and a path of groups in lists. `LossInv` is the bound on what is stranded.
For each step but a death it is enough that it is `Safe`: lists only grow, nothing is
stranded, one save at a time. What makes `AllInLists` hold is that an Intent's parent was on the
screen when the user tapped, and that lists never lose a group; `OneLostPerKill` holds
because `Kill` cuts off editors of both kinds at once, of which by `OneSave` one
had nothing in progress. The task's counting uses `Cardinality`, for which the library has
facts.

`BrowserRefinement` goes by what a step does to the lists. Every step of an editor is
either a `QuietDeed`, which leaves every list and every parent as it is and may make
objects and rows, or a `LinkDeed`, which appends one row to the list of its parent;
`NextLinks` says so in the module of each editor. A quiet step is not seen
(`QuietUnseen`): what it makes is in no list yet, and texts and tags are hidden. After a
link the lists name one row more, and one object more (`OneRow`), so the mapping gains
exactly what `AddMemo` or `AddGroup` adds (`MemoArrives`, `GroupArrives`); that a new
group's list is empty by then is `NewGroupEmpty`: the parent of all that exists is in a
list, because an editor is asked for in a group on the screen. The browser's own steps
read groups and rows through the mapping, and by `BrowserInv` only such as are in lists.

`GroupActivityProofs`: the rows of a list name existing groups whose parent is the
list's group; path, pending commits and the screen hold existing groups as soon as
`onCreate` is over; the root has no parent and is in no list, so it is pushed once.
The argument for `NeverNoGroup` is the order of `onCreate`: commits are carried out
by the looper, which has no turn before `initRootGroup` is done.

`TagChipsProofs`: the invariant `ChipsInv` says of the lines on the screen that they are a stack: each is a line of
the present list that is not too wide, and each begins with the chip after the last of
the one before. It names a seam: the lines above it are tight at their beginning (the chip before
would not fit), those below at their end, as they were laid out upward or downward. Less than a full screen is
only shown if it is the whole list. From this `ShownIsWindow` follows at once; for `FewLines`,
every way to break the chips of a stack of tight lines must break within each line or right after it (`BreakNeeded`), so
mapping each line but the last to such a break is one-to-one, and the library's facts about
cardinalities give the bound without counting lines by induction. `FillEnd` and `FillStart`
are recursive functions over the room that is left. `StepsExist` shows that a function
defined step by step exists, and a property of every step is proved by the least number
that would break it, as the library's induction cannot be instantiated.

`GroupListProofs` begins with the notifier: the invariant is the order of four versions that the threads
pass to one another: what has been packaged, what the notifier was last run to,
what the listener thread has picked, the newest:
`packaged <= notifier.version <= worker.version <= Latest`, the middle one while a run
is on its way. The wait of `begin_transaction` needs the notifier at the newest
version and packages it, which closes the gap to zero; only a commit opens it, by
one, and a commit needs the wait.
`Fitting` and `Watching` add `DataInv`: the accumulated changes describe how the list of the
packaged version became that of the notifier's version (`Describes`: they lead from
the one's length to the other's, and a row they neither insert nor modify is as it
was), the table shows the packaged version, and the newest version is the one
before it after its changes. With at most one version between the two, a step delivers one
transaction or none, which is what `ListWatch` asks of its list and table. A
transaction has at most two changes, as in the model (the sequences that the
transactions are taken from end there), so its two folds are unrolled; every
other bound is gone.

`ListChangesProofs` is what `GroupListProofs` rests on. A change set is a map from the positions of
the new list that are not inserted to those of the old that are not deleted.
`Shift` and `Unshift` number what is left of the positions once a set is taken out, and
are inverse to each other; so this map is one-to-one, keeps the order and, between lists of the right lengths
(`Leads`), misses nothing. `Merge` composes the maps.
The library's induction cannot be instantiated here; where the argument needs it,
a least counterexample does the same: a set of natural numbers that is not
empty has a least element, from the well-foundedness of `<`.

Its second part is about `ChangeBuilder`: `accumulated` and `current` together lead from the first list
to the present one, through a list in between whose length nothing records; and the
history variable `traced` says what the two merged say. Adding the current changes to
the accumulated ones keeps this because three merges associate.

The second part of `GroupListProofs` has one invariant for the editors of the iOS app and one for its list. `AppInv`: the
editor shows the tags of its item; what it has typed is `typed`, and every other item
has its `typed` stored; and what a callback decided before it waited for its
transaction still holds inside it (`DoingInv`: the next tag is not on the screen,
and has its HashTag if it is to be appended), because no other callback runs
meanwhile. `ListInv` keeps the order of versions and the accumulated changes of
the first part (`NotifierInv`) but not that the table is the packaged list: here
`cellForRowAt` fills cells from the live list at any time. `ScreenInv` says instead
that a cell shows its row as it was packaged or as it is now, which is enough for
the next batch, as a live list has a row only once. For `DeleteHitsTouched` the step that
counts is the touch, not the deletion: the table lags by one transaction at most, a
callback changes one row at most (`OneOp`), so row `i` of the screen is row `i` of the
live list or, if a row above it or itself has gone, has become row `i - 1` and the
one below it row `i`. Nothing can change the list between the touch and the deletion
(`DeleteInv`), so the index of the deletion is in range too: of the exceptions for
an index out of bounds, those of a swipe and of a cell remain.

`RealmOpenProofs` has two invariants. `IInv` is about columns. Of a thread: before its
Realm is in use it has the schema of the version it knows, in use its program's,
which is part of that version's (`SchemaOK`); how far what it knows may lag behind
what it reads at each place (`PlaceOK`); that a new schema is pending after a move
exactly if the schema changed on the way (`NewOK`). Of the cache: every version in its
range has its schema, unless it is about to be cleared. Neither is inductive without
what lies between: the versions that threads have got to beyond the range of the cache
have the cached schema too (`GapOK`), and of a schema that one thread is about to cache
either the cache is already past it or nothing changed from there to what the other
threads know (`WaitOK`). Without `WaitOK` a slow thread could put an old schema into the cache
behind the back of the others. Tables are never dropped (`LogInv`), so a new schema is never the empty one
that the code takes for "no change". Each action changes one thread and its process;
a lemma reduces the invariant to these (`ThreadStep`), and `Along` says that what holds at one
version and is kept by each later one holds at all of them.

`VInv` is about schema versions, under `VersionsShow`: they never decrease along the
file, a version of the file has only the columns of programs up to its schema
version, so two versions with the same columns have the same schema version; a
Realm and its cache have the one that goes with their schema. The hypothesis is
needed. After its wait for the write lock `update_schema` looks at the version again
only if the transactions it missed changed a table or a column
(`O/shared_realm.cpp:394`). With a first file of version 1 and two programs of
versions 2 and 3, all with the same column, TLC finds `KnowsFile`, `CacheExact`, `ChangesFit` and
`SchemaForward` violated within 17 states: the program of version 2 waits while
that of version 3 updates the file, and then sets it back. `ColumnsKnown` and
`NoColumnMissing` hold of these programs as of all others.

Only model-checked: liveness, which is out of the prover's reach: `ScreenCatchesUp`,
`AskedArrives`, `EveryCommitPackaged`, `CallbackEnds` and `OpeningEnds`. Every invariant, action
property and refinement that a passing run checks is proved.

## 5. What is not modelled, and the plan

Android: the last date and `isValidated` fields (never read), the dead `MODE_EDIT` of
the group editor, the collision of two ids, views and their layout except for the
chips, the chips in the rows of the browser (they change nothing that is stored),
the unused dialog helper. Coming back to a task from the recent apps after its
process died is not modelled in `TagMemoAndroid`: building the browser again throws, and
the editors above it only delay that. In `MemoManage` the groups are given and do
not change; `TagMemoAndroid` has groups that grow.

iOS: moves in change sets (only `List.move` and `List.swap` make them), lists that
are the result of a query, observers of single objects. The alert and the segue
of "add" are one step with the transaction that follows.

Realm: the other schema modes (`ResetFile`, `Additive`, `ReadOnly`, `Manual`), types,
indexes and primary keys, the data a migration block moves, encryption, compaction,
file errors; column numbers, which a thread may copy without a lock while another
changes them (`P/Realm/Realm/RLMRealm.mm:382`, a hazard without a property). The core
is present as headers of a binary library, which are most of the repository's lines:
`include/core` declares the storage engine, and what it does at run time (commits,
locks, transaction logs) is in the models only as the code of the object store
uses it. `TagListView`, `EZAlertController` and the language bindings of
`RealmSwift` keep no state that the properties are about.

What could come next: a second writer in `ListNotifier` (`skip_version`,
`transaction::advance` in `notify`), which the app does not have but the vendored code
is written for.
