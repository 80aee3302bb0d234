# A TLA+ development of seaturtle

seaturtle is an Android browser built on Chromium's content API (`src/shell`), with its own
request filter (`src/block`, `src/extra/https_rewriter.cc`), cookie store
(`src/extra/split_cookie_store.cc`) and a bridge to the Java user interface (`src/jni`).
The Java side and the engine are not in the repository: they are modelled from how the C++
code uses them, and every such definition is marked external in `PROJECT.json`.

Run a model with `tlc -config MCShell.cfg MCShell`, check a proof with
`tlapm ShellProofs.tla`.

## 1. Inventory

Three threads matter. **UI** runs the engine's notifications and every message of Java
(`jni_bridge.cc`); **IO** runs the network stack and the hooks the program installs in it;
**render processes** run pages. UI and Java call each other *synchronously*: `SendCommand`
and `jni::Invoke` enter Java, and Java may call back (`javaToNative`) before they return.

| component | state | operations | what is hard | what makes it correct |
|---|---|---|---|---|
| tabs (`shell.cc`) | `all_shells_`, per tab `wc_`, `sbc_`, preferences, log, favicon candidate | launch, popups (`AddNewContents`), `Close`, Java's commands by raw address, settings pushed to all tabs | re-entrant deletion, addresses that are reused, contexts shared by families of popups | a handle denotes its tab; no page outlives its context; settings reach every tab |
| page in a tab (`shell.cc`, `shell/renderer`) | rules of the render process, style sheets, favicon candidate | document element messages, injection, favicon download | messages name the frame and not the document; render process crashes | an untrusted page gets the sheets of the rule list; icons are filed under their site |
| settings (`settings.cc`) | one global message `State` | replaced by Java, read everywhere | a handler reads it several times | decisions that must agree do |
| blocker (`blocker.cc`) | blacklist, whitelist; style sheets in render processes | update, lookups | updated on UI while IO reads, without a lock; keys that refer to strings of their entries | what is blocked deserves it, what is listed is blocked |
| https rewriter (`https_rewriter.cc`) | rules by exact host and by parent domain | update, `MaybeRewrite` | rules that chase each other; `https_only` | rewriting ends; nothing in clear under `https_only` |
| network delegate (`shell_network_delegate.cc`) | none of its own | `OnBeforeURLRequest` composes the above and writes the tab's log | everything may change between its steps | the policy of the settings |
| login dialog (`shell_login_dialog.cc`) | the request that asks, two task queues | create, answer, cancel | two threads, reference counts, a raw pointer to the request | the address Java holds is alive; an answer meets its challenge |
| JavaScript dialogs (`shell_javascript_dialog_manager.cc`) | the last callback of the tab | ask, cancel, answer | answers name the tab and not the dialog | the callback kept is that of the waiting page |
| cookie store (`split_cookie_store.cc`) | a transient and a persistent store, the favourites | set, delete, update favourites | a deletion runs in one store and then in the other | the list decides where a site's cookies go; what is deleted is gone |
| request contexts (`shell_url_request_context_getter.cc`) | shared store, cache and HSTS; the contexts made | make a context, `ClearData` | decided at the first request, from settings that may have changed since; restarts | only the separate contexts named in `exposed` leave a trace |
| proxy configuration (`proxy_config_service.cc`) | `latest_`, one service | made on IO asking Java, pushed by Java on UI, applied on IO | an old answer and a new push are not ordered; there may be no configuration yet, or none any more | the network ends with the device's configuration |
| autocomplete fetcher (`fetch.cc`) | a fetcher that deletes itself | start, make its context, complete | two threads; waits for a proxy configuration; id against result | every fetch is answered, with an id Java knows |
| resource protocol (`seaturtle_protocol_handler.cc`) | per job the rendered page and how much was read | start, read, kill | the loader chooses the buffers | a page is delivered whole |
| address, lock and log of a tab (`shell.cc`, `shell_network_delegate.cc`, `cookie_access_policy.cc`, certificate errors of `shell_content_browser_client.cc`) | the last committed entry, `log_`, the `AceCb` objects | navigate, log from IO and UI, notify, Java's questions and answers | IO looks a tab up and writes to it while UI closes it and its address is reused; Java asks later than it is told | what the user sees settles to what is there; no page without consent |
| SSL configuration, start-up, helpers | none, or fixed at start | conversions and constant answers | - | - |

Interaction: Java's messages reach every component through `jni_bridge.cc`. A tab owns a
browser context, whose network context (made at its first request) uses the delegate, which
asks blocker, rewriter and settings and writes the tab's log. Each message is modelled as an
action of the component that receives it.

The hazards, each at its line and with the properties aimed at it, are in `PROJECT.json`.

## 2. Modules

| module | models | proofs | run by |
|---|---|---|---|
| `Shell` | `Shell`'s registry, contexts, preferences, life | `ShellProofs` | `MCShell` |
| `Hosts` | hosts as sequences of labels, URLs | | |
| `Blocker` | blacklist and whitelist, updated entry by entry | | `MCRequest` |
| `HttpsRewriter` | the rewriting tables and `MaybeRewrite` | | `MCRequest` |
| `Request` (on the two above) | the life of a request through `OnBeforeURLRequest`, on IO, against updates on UI | `RequestProofs` | `MCRequest` |
| `Challenges` | abstract: what a login dialog promises to the network | | `MCLoginDialog` |
| `LoginDialog` (implements it) | the dialog, its two task queues, the loader's reference | `LoginDialogProofs` | `MCLoginDialog` |
| `JavaScriptDialogs` | the managers of several tabs | `JavaScriptDialogsProofs` | `MCJavaScriptDialogs` |
| `SplitCookieStore` | the two stores and who is a favourite | | `MCRequestContexts` |
| `RequestContexts` (on the above) | contexts, shared state, `ClearData`, restarts | `RequestContextsProofs` | `MCRequestContexts` |
| `StyleSheets` | compiling and injecting the rule list, pure operators | `PageProofs` | `MCPage` |
| `Page` (on the above) | one tab's documents, messages, favicon | `PageProofs` | `MCPage` |
| `IoThread` | the message loop the services share | | |
| `ProxyConfigService`, `SeaturtleProtocolHandler` (on it) | the configuration; the program's own pages | | `MCServices` |
| `Services` (on these) | both with the fetcher, on one IO thread | `ServicesProofs` | `MCServices` |
| `TabView` | address, lock and log of tabs, certificate errors | `TabViewProofs` | `MCTabView` |

Names are those of the source. The correspondence line by line is the `map` of
`PROJECT.json`; the choices behind it are these.

* **Shell.** Each element of `Shells` is one object, each element of `Addresses` a heap
  address. `delete this` is a sequence of phases (`Cleanup`, `Unregister`,
  `DestroyContents`, `ReleaseContext`: the notification, the body of the destructor, then the
  members in reverse order) because Java runs inside the notification. `stack` holds the
  calls that wait for Java: the deletions in progress and, at the bottom, perhaps the report
  of a popup (`Report`, from `AddNewContents` to `PopupReported`), inside which Java may close
  the opener. Only the innermost proceeds, and Java acts only where the code has called it
  (`JavaRuns`). `adrift` is history: the popups to which, because `single_context` was switched
  on after their opener had been launched in a private context, nobody gave a share of it.
* **Request.** The handler is a step per thing it reads without a lock: the whitelist
  (`CheckPage`), the settings (`CheckBlacklisting`), the blacklist once per parent domain
  (`CheckDomain`), the settings again (`ClearReferrer`), the rewriter (`Rewrite`). The last is
  one step: it takes one snapshot of the settings, which alone decides about `https_only`, and
  one lookup per table. An update of a table is one step per entry or host, as the code clears
  and refills it. The hash tables themselves are taken to survive the race, and a reader to see
  the entries inserted so far. A regular expression with its replacement is a function on URLs.
  `dangling` are the blacklist keys whose string a second rule for the domain freed; they are
  found until the memory is reused (`ReuseMemory`). The tables of the rewriter have the same
  defect: an entry records which rule set's string its key refers to, and is lost with that
  string (`ReuseKey`). A rule set without rules, or a host with a `*` inside, ends the process
  (`Refused`).
* **LoginDialog.** `Referred` computes who retains a dialog (the loader, posted tasks); losing
  the last reference deletes it. The constructor posts a task before the loader has stored the
  dialog, so the UI thread may run and release it first; `early` remembers such dialogs. A step
  through the address of a freed dialog or request does what the code would do with the memory
  intact, or ends the process (`UseFreed`). `Challenges` knows neither threads nor queues nor
  objects; under the mapping of `ChallengeStatus` a challenge is open from the creation of its
  dialog until the loader drops its reference.
* **JavaScriptDialogs.** The callback is run and reset in one step (`RunCallback`): it is the
  engine's, it sends the answer to the page's process, and nothing that concerns dialogs
  happens on the UI thread before the reset. Java, told by `CLEANUP`, takes down the dialogs
  of a tab that is deleted; nothing tells it of a dialog the engine cancels.
* **RequestContexts.** Making the shared cookie store is two steps, since Java is asked for
  the favourites in between and the UI thread goes on; an update of the favourites that arrives
  without a store, or while it is being made, ends the process. `Restart` keeps what is on
  disk; Java then sends the settings of the moment. `exposed` is history: the separate contexts
  over which `single_context` was switched on before their first request. `backend`: the cache
  can be cleared only once it has opened its files.
* **Page.** Main frame only. Two FIFO channels; the channel of injection orders is a count,
  as the orders carry nothing. `Sheets` tabulates what `StyleSheets` compiles and injects.
  A notification to Java is a state of its own (`notifying`), because the favicon candidate
  is reset only after Java has returned. Java installs rules before the first page, as
  `GetBlockingDataFd` demands.

* **Services.** One queue of tasks stands for the IO thread. A configuration that is not VALID is
  announced to the network stack as `*NULL`, which ignores it or ends the process (`crashed`).
  `early` is history: the fetches that were over before `Fetch` had returned; the id that `Fetch`
  then reads from the freed fetcher may be any fetch's (`ReturnId`). The constructor of the proxy
  service is three steps (asked, answered, ready), because the UI thread may push a change between
  Java's answer and its use. A page is the sequence of its positions, so that a lost, repeated or
  misplaced character shows.
* **TabView.** A callback on IO is three steps: the tab is found by address (`looking`), the
  event is put into the log of whatever tab is at that address now (`AddEvent`), and Java is
  notified (`Notify`). A write to an address where no tab is left is lost: what it overwrites
  is not modelled. Requests and cookies carry their own first party and need no committed page;
  a cookie of a request without a Shell is stored without an entry in a log
  (`ForURLRequestNull`). The URL of a page stands for what decides its lock. `allowed` are the
  sites the engine passes because an `AceCb` was run with TRUE; `consents` what the user said.
  A certificate error of a frame without a Shell ends the process (`Crash`).

## 3. What the runs check

Passing runs (each property has a mutant of the mapped code that TLC refutes):

* **shell**: three tabs over two addresses, so that an address is reused and deletions nest
  two deep. `HandlesAreFresh`: `DispatchShellCommand`'s CHECK cannot fail and no command
  reaches another tab. `RegisteredIsUsable`, `ContextOutlivesContents`, `NoOrphanContext`,
  `PrefsWithinSettings`; `ClosingCompletes`: a deletion ends even if Java closes other tabs
  from inside it.
* **request**: one request, one redirect, two pages, five URLs; rules that rewrite two URLs
  into each other, a host that two rule sets claim, a rule set without hosts and one without
  rules; a whitelist whose entries are merged and lowercased; a blacklist with a domain listed
  twice. `PolicyHolds`, `RulesAreApplied` and `BlockedIsJustified` compare what is sent or
  blocked with *the messages Java sent*, not with the tables. The first two speak of requests
  under whose handler nothing changed; `BlockedIsJustified` of every interleaving, and of the
  part of a whitelist that is installed when the page is checked. `HttpsOnlyNeverInClear` holds
  in every interleaving; `NoUrlRewrittenTwice` and `RewritingEnds`.
  One request is enough as requests share nothing that they write.
* **login**: two requests, three challenges, so that a request is challenged again while
  another answer is under way. `ImplementsChallenges`: the abstract specification as a
  property, so a challenge is answered at most once and only while its request waits for that
  very challenge. `HandleIsAlive`: a dialog Java shows is freed only by the race of the
  constructor. `DialogsVanish`, `AnswerResumes`.
* **contexts**: the shared and one separate context, a site with a subdomain, two lists of
  favourites, two scopes of deletion, two settings. `PrivateStaysPrivate`, `NoSplitIdentity`,
  `ClearedIsGone`, `CookiesFollowTheList`.
* **js_dialogs**: two tabs, four dialogs. `CallbackOfWaitingPage`: the callback kept is that of
  the page that waits, and an answer can reach another page than it was given to only in a tab
  in which the engine cancelled a dialog. `PagesGoOn`.
* **page**: two documents, two messages under way, rule lists that fill more than one sheet
  of two selectors, three kinds of icons. `SheetsAreRules` compares the sheets, compiled in
  one pass, with a declarative definition of what a host should get; `StylesArrive`,
  `FaviconOfSite`, `TouchIconPreferred`.

* **services**: two fetches, one page, two configurations and none, so that one change overtakes
  the answer to the constructor and another follows it. `ConfigSettles`;
  `FittingPageDelivered`, with pages and buffers of two lengths; `FetchesAnswered`: no fetch is
  lost between the constructor, the configuration that is not there yet and the change of it,
  and Java knows the id of each result but of fetches that were over too early.
* **tab_view**: two tabs, two addresses, three sites, two of them with broken certificates. One
  cookie is a page's own and one another site's. `LogIsTrue`: an event is found in the log of
  another tab only if its own is gone, and what the log says was refused was stored through neither
  door. `ViewSettles`, `ConsentIsForThisSite`. No liveness: the user and Java owe no question.

Violated runs, each a disagreement between the code and what the repository says of it (see
`findings`):

* **request_keys**: two blocking rules for one domain leave a key of the blacklist in freed
  memory. This is why `PolicyHolds` speaks of domains that are listed once.
* **login_requester**: an answer that crosses the cancellation is sent to a request that is gone.
* **js_dialogs_null**: the user closes a dialog the engine has cancelled: STNOTREACHED.
* **long_page**: a page longer than the loader's buffer is delivered as its beginning, again
  and again, until as many characters have been handed over as the page has.

### Bounds

Every object that is created (`Shells`, `Tabs`, `Dialogs`, `Fetches`, `Jobs`, documents) has
finitely many incarnations, named by a constant; redirects (`MaxRedirects`, which the network
stack limits too), messages and tasks under way (`MaxMessages`, `MaxTasks`), documents
(`MaxDocs`), cookies in the stores (`MaxCookies`), deletions under way per scope
(`MaxDeletions`), navigations and log entries (`MaxLoads`, `MaxEvents`) are bounded in guards.
Two or three of each suffice for what the properties relate: an object, the one that replaces it
at the same address, tab or frame, and a third that acts meanwhile. In `MCRequestContexts` the
settings `allow_persistant_cookies` and `persist_cache` stay on, since without them less is
shared; the theorems cover all values. The proofs need no bound except where it is a guard of
the model. `CHECK_DEADLOCK FALSE` stands only where all incarnations can be used up (the two
dialog modules, `TabView`) or the process can end (`Request`, `Services`, and the former);
elsewhere updates by Java are always possible. Symmetry is used in `MCTabView` only, which
states no liveness.

### Restrictions

These are assumptions about Java and the engine, which are not in the repository:

* Java sends no `CLOSE` for a tab it was told to hide (the guard of `DispatchClose`), answers
  each login dialog and each `AceCb` once, and installs rules before the first page.
* The hash tables and lists that two threads share survive the race, and a reader sees what is
  inserted so far.

The following cases are in the models; the properties name them because the code does not do
better, and say what holds in and around them:

* `single_context` switched on in a running program (`settings.cc:45` takes it at any time). A
  popup that opens afterwards in a private family can outlive the context its page lives in
  (`adrift`, in `ContextOutlivesContents`), and a separate context that has sent no request yet
  will use the shared stores (`exposed`, in `PrivateStaysPrivate`).
* A site that becomes or ceases to be a favourite keeps its old cookies where they are
  (`flipped`, in `NoSplitIdentity`).
* `ClearedIsGone` is about a `CLEAR_DATA` that finds the store made. Sent before the first page
  it leaves the persistent cookies of an earlier process (`RequestContexts!ClearData`).
* An update of the favourites that arrives before the store is made ends the process
  (`aborted`), as do an empty rule set of the rewriter and a host with a `*` inside.
* A domain listed by two blocking rules, a host named by two rewriting rule sets: entries are
  lost (`AskedOnceToBlock`, `AskedOnceToRewrite`).
* A whitelist entry for a whole host gives way to one for a path of the host (`Narrowed`), and
  while a whitelist is being refilled the pages it will trust are filtered. `BlockedIsJustified`
  is about the entries installed.
* A login dialog that UI prepares before the loader has stored it is freed (`early`, in
  `HandleIsAlive`). Whether the engine allows that order is not visible in the repository.
* A fetch that is over before `Fetch` returns (`early`, in `FetchesAnswered`).
* `FaviconOfSite` names the two moments, inside the notification of a new URL and during a
  pending load, at which the icon of one page is filed under another.

### Fairness

Only what the scheduling provides. A destructor and the notification it is in return, and Java
returns from the report of a popup (`Shell`); the IO thread runs the handler it was asked to run
(`Request`); both message loops run their tasks and the loader's constructor call returns
(`LoginDialog`); the UI thread and the render process handle their messages (`Page`); the IO thread
runs its tasks, its call of Java returns, the UI thread returns from `Fetch`, Java pushes a change
it has seen and the network completes what it has begun (`Services`). A process that has ended takes
no further step, and owes none. The user answers a dialog that Java shows (`JavaScriptDialogs`),
which is the meaning of showing it. Servers, pages, Java and the user otherwise owe nothing;
`RequestContexts` and `TabView` state no liveness.

## 4. What is proved

For every value of the constants, under the named `ASSUME`s of the modules:

| theorem | property | argument |
|---|---|---|
| `ShellProofs!TypeCorrect` | `TypeOK` | one step per action |
| `HandleSafety`, `RegistrySafety` | `HandlesAreFresh`, `RegisteredIsUsable` | `HandleInv`: registered tabs are in the phases before the end of the notification, allocated tabs have distinct addresses, Java knows registered tabs only. `HandlesAreFresh` alone is not inductive: an address could be reused while its tab is deleted. |
| `PrefsSafety` | `PrefsWithinSettings` | with `HandleInv`: what loses its contents is not registered any more |
| `OrphanSafety` | `NoOrphanContext` | `HoldersExist`: only a tab that exists holds a context, so a context that is held will be released |
| `DeletionsAreNested` | core of `ClosingCompletes` | `NestInv`: the tabs in deletion are the elements of the stack, each once, and all but the innermost are inside a notification or the report of a popup, so no deletion is forgotten and the innermost can proceed. Needs `HandleInv`: Java can only close a tab it can address |
| `ContextSafety` | `ContextOutlivesContents` | `ContextInv`: a tab with contents in a private context owns a share of it or is `adrift`; owned contexts exist. For every order of settings, popups and deletions |
| `RequestProofs!PolicySafety` | `PolicyHolds` | `BlockerInv`: at every step of an update, the tables hold what the entries inserted so far ask for, and a domain can only be lost if two of them name it. `HandlerInv`: what each step of the handler establishes lasts as long as nothing it reads changes. The suffix walk is shown to find exactly the listed parent domains, the merged whitelist exactly the trusted pages |
| `BlockingIsJustified` | `BlockedIsJustified` | the same tables, in the other direction, carried through the handler's separate reads: what `CheckPage` found of the whitelist is remembered in `trusted`, and a domain found later is in the list sent last |
| `RewrittenOnce` | `NoUrlRewrittenTwice` | `RewriteInv`: the URLs the request remembers are those it was rewritten from. The lookup is shown to return a rule of the tables (a least element by the well-foundedness of `<` on `Nat`), and the tables to hold such rules |
| `HttpsOnlySafety` | `HttpsOnlyNeverInClear` | the last step's own snapshot decides, with `RewriteInv` for what it may produce |
| `RequestTypes` | `TypeOK` | what is in the tables came from well-typed messages |
| `LoginDialogProofs!DialogRefinesChallenge` | `ImplementsChallenges` | every step maps to a step of `Challenges` or to a stutter. The invariant follows the *token* of a challenge (its task to be shown, its presence in Java, its answer under way): there is one at most, and while there is one the dialog is the loader's, or its request is gone |
| `AnswersMeetChallenges` | - | the same token, at the moment the answer is sent |
| `NoChallengeIsLost` | core of `AnswerResumes` | `PendingInv` adds the converse: whoever waits has a token, so no request waits for an answer nobody will give |
| `WithdrawalComes` | core of `DialogsVanish` | `CancelComes` is kept by `CancelFollows`: the cancellation is queued behind the preparation of the dialog it is about |
| `HandlesAreAlive` | `HandleIsAlive` | every dialog in Java is referred to by its loader or by the task that will withdraw it, or was prepared too early: that race is the only way to free it |
| `LoginTypes` | `TypeOK` | |
| `RequestContextsProofs!PrivacySafety` | `PrivateStaysPrivate` | a separate context that shares a store, or is being given one, is `exposed`: a snapshot with `single_context` was taken for it, and the setting was switched on between its launch and that snapshot. For every order of settings, launches, requests and restarts |
| `OnePlacePerSite` | `NoSplitIdentity` | `IdentityInv`: a cookie is on disk because its site was a favourite, in memory because it was not; so a domain has both only if its site changed its status since. Needs that the registered domain of a registered domain is itself |
| `CookiesFollow` | `CookiesFollowTheList` | `FollowInv`: unless an update is unsent, the store's sites are those of Java's list, and so is the answer with which the store is being made; whoever uses the shared store knows that it exists |
| `ClearingClears` | `ClearedIsGone` | `DoomedInv`: the cookie is out of memory at once and off the disk when the deletion is through |
| `RequestContextsTypes` | `TypeOK` | |
| `JavaScriptDialogsProofs!CallbackSafety` | `CallbackOfWaitingPage` | per dialog: it waits exactly if it is its tab's callback |
| `AnswersFindCallbacks` | - | the program aborts only if the engine has cancelled a dialog in an open tab: the missing notification is the only cause of `js_dialogs_null` |
| `WaitingCanBeAnswered` | core of `PagesGoOn` | `WaitingIsShown`: what waits is on Java's screen, in a tab that is open and keeps its callback |
| `JavaScriptDialogsTypes` | `TypeOK` | |
| `ServicesProofs!ProxySettles` | `ConfigSettles` | `ProxyInv`: the last configuration in the queue is the device's, and so is what arrived when none is on its way, if the device has one |
| `FetchesAreUnderWay` | core of `FetchesAnswered` | `FetchInv`: a fetch is queued, held up by a constructor that is being answered, running, waiting, or answered; by `ProxyInv` it waits only while a configuration is on its way. Counts the tasks of a queue without bound |
| `InitFindsItsFetcher` | - | `InitQueued`: the raw pointer in the IO queue is there once, exactly until it is used |
| `IdsAreKnown` | - | Java knows the id of every fetch whose result it has, is just being told it, or the fetch was over too early; until one was, Java is told no id it did not ask for |
| `PagesFit` | `FittingPageDelivered` | `PageInv`: of a page that every buffer holds, a job has handed over nothing or everything: the missing offset is the only cause of `long_page` |
| `ServicesTypes` | `TypeOK` | |
| `TabViewProofs!ConsentSafety` | `ConsentIsForThisSite` | the engine passes only sites the user let pass |
| `LogSafety` | `LogIsTrue` | `LogInv`: an event under way, like one in a log, is true of the tab at its address; whoever gets an address after a tab finds the tab closed. The two doors for cookies apply one rule |
| `ViewSafety` | `ViewSettles` | `ViewInv`: what Java shows is right or Java will ask |
| `TabViewTypes` | `TypeOK` | with it, that no two open tabs have one address |
| `PageProofs!InjectionFollowsRules` | `SheetsFollowRules` | for every rule list and host. `CompiledRight` holds after each line of the list: the open sheet and the closed ones together, and each domain's sheet, hold a selector once per line that asked for it, and the open sheet is as long as the counter says. The walk then meets every parent domain once, because its suffixes differ in length |
| `InjectedSheetsAreRules` | `SheetsAreRules` | with it: a document that does not exist yet has no sheets, and the rules of a render process change only when it has no document |
| `AnnouncementsAreOwn` | core of `StylesArrive` | `ChannelInv`: the last commit on its way is the newest document's, so when none is on its way both processes speak of one document |
| `FaviconIsOfSite` | `FaviconOfSite` | `CandidateOfCommitted`: unless Java is just being told of a new page, the icon remembered is the committed document's. `CommitFirst`: the UI thread hears of the first commit before any icon |
| `TouchIconIsPreferred` | `TouchIconPreferred` | `RightChoice` holds after each icon of the loop |
| `PageTypeOK` | `TypeOK` | `OrdersBounded`: orders under way and messages that will cause one are paid for by one document each |

The loops over a rule list and over a list of icons are recursive functions of the position
(`Compiled`, `Considered`). A recursive function is a `CHOOSE`, so the proofs first show that
there is a function of that kind (`LoopExists`). Induction is stated for sets of positions
(`PrefixInduction`, from the well-foundedness of `<`), because the provers cannot instantiate
the library's theorems, which take an operator.

Only model-checked: liveness, which needs ENABLED: `ClosingCompletes`, `RewritingEnds`,
`DialogsVanish`, `AnswerResumes`, `PagesGoOn`, `StylesArrive`, `FetchesAnswered`. What each of
them rests on is proved, for every value of the constants: that whatever has to happen is still
under way, and who has to take the next step (the rows marked *core*; for `RewritingEnds` it is
`RewrittenOnce`). These are not among the properties of the runs; TLC checked each of them, and
the invariants they follow from, on the instances of the runs before it was proved. That the
next step is taken, and in the end the last one, follows from fairness and is TLC's part. Every
invariant and every action property that a passing run checks is a theorem, but for
`RulesAreApplied`.

## 5. Not modelled

* Memory as such. Two threads share the registry and the tab's log (a TODO in
  `shell_network_delegate.cc:49`), and the hash tables of the blocker and the rewriter, without
  a lock. The models take lists and tables to survive this and look at what a reader may find;
  a torn structure has no outcome a property could speak of.
* `GET_PARENT`: it hands Java an address that may be stale. What Java does with it is not in
  the repository.
* The teardown of a browser context against the IO thread (`shell_browser_context.cc:49`),
  whose order is the engine's.
* Reading cookies, find in page, full screen, progress, the queries that change nothing: a
  state is read, or passed on, in one step.
* Subframes of a page, which follow the main frame's code; several downloads of icons at once,
  which share nothing.
* SSL configuration, text and image conversions, the settings table, bundled resources,
  start-up: no state, or written once. There is no step between which anything could happen,
  and no second statement of what they compute to compare them with.
