# A TLA+ model of authservice

authservice answers Envoy's external authorization checks. It sends users without a session to an
OIDC identity provider (IdP), exchanges the code they come back with for tokens, keeps the tokens in
a session store in memory, adds them to the requests it lets pass, and refreshes them when they
expire. This directory holds TLA+ modules that model it, the TLC configurations that check them on
small instances, and TLAPS proofs for instances of any size. `PROJECT.json` lists the parts, runs,
theorems, findings and hazards, and maps each definition to the source lines it stands for.

Paths below are relative to the repository's `src/`.

## The parts and how they interact

| Part | Code | Modules |
| --- | --- | --- |
| gRPC completion queue loop, worker threads, cleanup timer, shutdown; `Check` | `service/` | `AsyncService` |
| Filter chain: picks the requests it is for, makes a filter for each, and the session store | `filters/filter_chain.cc` | `FilterChain`; `Matches` in `Routing` |
| Pipe, filter base class | `filters/pipe.cc`, `filters/filter.cc` | in `AsyncService` and `OidcFilter` |
| OIDC filter: `Process`, `RedirectToIdp`, `RefreshToken`, `RetrieveToken` | `filters/oidc/oidc_filter.cc` | `OidcFilter`, `TokenRefresh`, `LoginFlow`; what it promises: `SessionLife` |
| Token response and its parser | `filters/oidc/token_response.cc` | `TokenResponseParser` |
| Session store, clock | `filters/oidc/in_memory_session_store.cc`, `common/utilities/time_service.cc` | `SessionStore` |
| Trigger rules | `common/utilities/trigger_rules.cc` | `Routing` |
| HTTP codec, cookies, URIs | `common/http/http.cc` | `Http` |
| `Post` | `common/http/http.cc` | step by step in `TokenRefresh`, by its outcome elsewhere |
| Configuration | `config/get_config.cc` | its checks of URIs in `Routing`; settings are constants |
| Main program | `main/` | the refusal of a configuration, in `LoginFlow` |
| Random session strings | `common/session/`, `common/utilities/random.cc` | not modelled; assumed fresh |

One thread runs the completion queue. For each request it spawns a coroutine on an `io_context` that
`config.threads()` worker threads run. `Filter::Process` runs a second `io_context` to completion
inside the coroutine, so a request occupies its thread until it is answered, including the time it
waits for the IdP. All requests of a chain share one session store. The cleanup timer runs on the
same threads every 60 seconds.

## The modules

**SessionStore.** `session_map` is `session_map_` with `NULL` for ids that are absent. Each operation
runs under one recursive mutex and is one atomic formula. `RemoveAllExpired` reads the clock twice
before it takes the mutex and is three actions (`ReadAddedThreshold`, `ReadIdleThreshold`,
`EraseExpired`). Times are stored modulo `TimeModulus` (2^32 in the code) and compared with signed
thresholds. `last_sweep` is a history variable: when the last completed sweep read its first threshold.

**TokenResponseParser.** Operators, no state. Tokens are reduced to present or empty; an ID token keeps
its nonce, its expiry and whether it verifies. Checks and their effects are those of the code, among
them that a refresh keeps the ID token and the refresh token but not the access token.

**OidcFilter.** Composes the two above with worker threads and an IdP that answers anything in `Bodies`
or nothing. A handler is cut at its store calls and at the IdP's answers. `pc[w]` is where worker `w`
stands: `check` (has read tokens), `refresh` and `exchange` (waiting for the IdP), `store`, `clear` and
`save` (about to make that store call), `discard` and `login` (the two halves of `RedirectToIdp`),
`done`. One member of `SessionId` stands for the session id, state and nonce of one redirect, which are
generated together and all fresh. Requests carry the cookie and state of any issued id, of a foreign
id, or none. `issued`, `ended` and `refreshed` are history variables.

**SessionLife.** The abstract specification of a session: it is unissued, in login, has tokens, or is
over, and a worker may hold the session its request has found. `Store` needs a session that is held;
everything else that changes a session ends it. `OidcFilter` maps to it with `Phase` (from the store and
`issued`) and `Holding` (the cookie of a worker that has found tokens or a login and has not finished
with them), and checks it as `SessionLifeKept`.

**TokenRefresh.** One session, several workers, and an IdP with a state of its own: refresh tokens are
numbered, and its `policy` is to issue none, to keep one for the whole session, to replace it at each refresh
and honour the newest only (`rotates`), or to replace it and go on honouring the old ones until `IdpRevokes`
(`lenient`), all of which OAuth leaves to the IdP. `Post` is
cut at each of its blocking calls (connect, tunnel through a proxy, handshake, write, read, shutdown);
each of them may fail (`PostThrows`, `ShutdownFails`), and an abandoned request may still be served
(`late`). `lost` is a history variable: a new refresh token was issued and never reached the store.

**Http, Routing, LoginFlow.** The service as text. A text is a sequence of symbols: words, the reserved
characters that some function looks for, and their percent encodings in upper or lower case.
`Http` has the encoders, decoders, cookies and URIs as operators, with their failures; `Routing` what
the service decides from them (trigger rules, which throw for a malformed regular expression, chains,
logout, callback, session cookie, and whether a configuration is accepted). `LoginFlow` drives them end to end: browser and IdP are external and follow
the standards, with the freedom the standards leave (which characters to encode, in which case,
parameters of their own). An exception that reaches `Check` ends the flow in `internal_error`: from the rules
(`RulesThrow`), from `New` and the callback URI (`InternalError`), and from `Post` for a host name that TLS
refuses (`PostThrows`). A cookie's name may be any text (`cookie_name_prefix` is free), and the browser reads a
`Set-Cookie` header up to the first `; ` and `=` (`CookiePair`). `Worlds` is the set of circumstances, one of which is chosen at the start. The
nonce, which is sent like the state, is left to `OidcFilter`.

**FilterChain.** `New` on several threads: the test of the pointer, the creation of a store, and the
copy of the pointer, which is a read followed by counting a reference. `DoPeriodicCleanup` tests the
pointer and calls the store through it without counting one. A pointer whose store was destroyed is
`Dangling`; so is the chain's own after two overlapping assignments.

**AsyncService.** `processing` and `complete` follow the `ProcessingState` and `CompleteState` objects
from creation to deletion, `cq` the events not yet returned by `Next`, `tasks` the coroutines waiting
for a thread, `loop` the phases of `Run`. `Check` is reduced to what it comes to (`Outcome`), the status
it returns and the code the pipe puts into the response.

The `MC*` modules name the model values and the sets used by the `.cfg` files.

## What the runs check

| Run | Instance | Result |
| --- | --- | --- |
| `store` | 2 sessions, timeouts 2 and 1, clock from 1 to 5, fair | the sweep erases only expired sessions (`SweepRemovesOnlyExpired`) and leaves none that had expired when it began (`SweptClean`); use does not prolong a session beyond its absolute timeout (`AbsoluteTimeoutEnforced`) |
| `filter` | 2 workers, 3 session ids and a foreign one | `OnlyIssuedSessions`, `LoginStateCleared`, `TokensBoundToLogin`; refinement of `SessionLife` (`SessionLifeKept`) |
| `refresh` | 2 workers, a proxy, faults, 3 expiries, every policy of the IdP, fair | the store holds the refresh token a strict IdP honours unless it was lost or is on its way (`NewestTokenStored`), goes back to an older one only where the IdP tolerates it (`StoreGoesBackOnlyIfTolerated`), and refreshes end (`RefreshEnds`) |
| `login` | 1,143 circumstances, a restart at any point of the flow, fair | under the conditions of `Usable` a login completes (`LoginCompletes`), without a loop (`NoLoginLoop`), and is refused only after a restart (`FailsOnlyAfterRestart`); exceptions come only from what `GetConfig` does not validate (`ThrowsOnlyUnvalidated`); a logout leaves nothing behind (`LogoutComplete`) |
| `chain` | 3 threads, 4 stores, fair | no thread makes two stores, and a filter at work has the chain's live store unless two threads each made one (`CreatesOnce`); a store is destroyed under its user only then (`DestroyedOnlyByTwoCreators`); the threads settle on one store, unless overlapping assignments leave the pointer dangling (`SettlesOnOneStore`) |
| `service` | 3 gRPC states, 2 threads, fair | one state always listens, none dangles, none leaks while serving; calls are answered, and the cleanup repeats unless it throws |

Six runs are expected to be violated. Each states what a document or a comment says and shows a
behaviour of the code that departs from it:

| Run | What happens |
| --- | --- |
| `filter_removed` | A logout removes a session while its callback waits for the IdP; the callback stores it again. |
| `refresh_kept` | Two requests refresh at once; an IdP that rotates refuses the second, which then removes the session. |
| `login_provider` | A code with a `+` in it reaches the token endpoint with a space in its place. |
| `chain_shared` | Two first requests make two stores; one request works on the one that is dropped. |
| `service_error` | After an exception in `Check` the caller is told OK. |
| `service_ends` | After a shutdown `Run` does not return: the cleanup waits for its timer again and again, so the threads never run out of work. |

What is left of `RemovedStaysRemoved` with many threads is `SessionLifeKept`: only a request that found the
session while it was alive can bring it back. `SessionLife` lets a session end at any time, so it does not
rule out that `RedirectToIdp` removes a login that was completed since `GetTokenResponse` found no tokens. That
happens with two threads; no document promises otherwise, and the same request, had it come a moment
earlier, would have removed the login in progress.

What a login needs (`Usable` in `LoginFlow`): the callback URI ends with its path, without even an empty
query, and has the page's host name; trigger rules and chain matching send the callback to the chain of
the page, although it carries none of the page's own headers; neither the page nor the callback is the
logout path, and the page is not the callback; the IdP's URI has no `#`; the client id has no `:`, which
`EncodeBasicAuth` would not hide, and the callback's path no `+`, which `EncodeFormData` turns into a space;
the name of the session cookie has no `=` and no `; `; TLS takes the host name of the token endpoint; no request has the ID token header; every cookie of the browser has a `=`; the IdP encodes everything
reserved in its code, with upper-case digits, and the code has no `+`; parameters the IdP adds have one `=`
and are encoded in the same way. `Stable` adds that no chain is chosen by the `cookie` header, which changes
in the course of a login, and that a logout path has no `?` or `#`. The run shows that these conditions are
sufficient, restarts included. Logins outside of them may fail, and the instances have some for each.

### Bounds

- `MaxTime`: the clock runs from `StartTime` to `MaxTime`. With timeouts of 1 or 2 seconds every order
  of start, use, expiry and sweep fits. `TimeModulus` is above `MaxTime`; see `ClockAssumption`.
- Session ids: a request is received only while an unissued id is left for each request in progress
  (`FreeSessionId`), so no handler is stuck for want of one. Three ids allow a login, its replacement
  and an unrelated login; the interleavings the properties are about involve one session and two
  workers.
- `Bodies` (`SomeBodies`): the tokens of every login, which expire when the clock moves; on a refresh an ID
  token without an access token, or the reverse; a body that is invalid by its type or its expiry; no JSON.
- `MaxEpoch`: access tokens expire three times, so that a refresh, its loss, and a refresh with what is
  left all happen; refresh tokens are bounded by it.
- `SessionIds` of `LoginFlow`: three logins, one more than a restart justifies, so that a loop shows. The
  user gives up after that. `MaxRestarts` is 1.
- `Worlds`: configurations that differ from a plain one in the callback URI (port, path, scheme, empty or
  real query, fragment), in trigger rules (two with a malformed expression), or in their chains, cookie names and
  hosts, with nine pages and three sets of foreign
  cookies each; six styles of an IdP with four codes each.
- `Call`: the number of gRPC states at one time; storage of deleted ones is used again, so behaviours
  are not bounded in length.
- `creations` counts to 2, which is enough to see a second creation.
- Session ids that can be issued, and workers, are interchangeable; `filter`, which has no
  liveness property, uses symmetry.

### Fairness

- `TokenRefresh!FairSpec`: a worker inside a handler goes on (`Continue`), and the IdP answers or the
  connection breaks (`Idp`). The second half is an assumption: `Post` has no timeout.
- `FilterChain!FairSpec`: a thread goes on in `New`, in `Process` and in the cleanup. Requests need not arrive.
- `LoginFlow!FairSpec`: one step or another of the flow is taken as long as it is not over. That includes
  a user who signs in and who tries again when told to. Restarts and logouts are not required.
- `SessionStore!FairSpec`: the sweep and the clock go on, which `AsyncService` shows of the timer.
- `AsyncService!FairSpec`: weak fairness of the loop, of running handlers, of gRPC operations and of the
  timer; strong fairness of starting a coroutine and of starting the cleanup, since an `io_context` runs
  ready handlers in order. `Check` is assumed to return, which it does if `RefreshEnds` may be assumed of its POST.
  Clients need neither call nor go away.

`server_->Shutdown()` is modelled by its contract: it ends the `RequestCheck` that waits, and returns when every
accepted call is over (`ShutdownServer`, `ServerStopped`). Nobody takes events off the queue meanwhile, so a
call that `Proceed` did not get is over only when its client goes away (`ClientLeaves`), and until then `Run` is stuck
there. `ServiceEnds` starts after that. The `service` runs may stop (`CHECK_DEADLOCK FALSE`): when `Shutdown` waits for
such a client, and when `Run` has returned because a cleanup had thrown and its timer was lost.

## What is proved

For all values of the constants that meet the assumptions in the modules.

**OidcFilterProofs** has three parts: the store, the filter, and the life of a session.

The store on its own, with any thread calling any operation (`Store!Spec`): `TypeOK`, `SweptClean` and
`SweepRemovesOnlyExpired`. `SweptClean` is not inductive: a sweep could erase by thresholds from the
future, and a new session could be older than the last sweep. The invariant adds that all stored times are past (`TimesPast`) and that the sweep's two readings of the
clock were made in order and are past (`SweepReadClockPast`). One lemma says what any call may do to a
session (`CallTouches`). The proofs use `ClockAssumption`: the clock is below 2^32.

The filter: `TypeOK`, `OnlyIssuedSessions`, `LoginStateCleared` and `TokensBoundToLogin`, for any
number of workers. The invariant says of a session that it was issued and holds either a login with its
own nonce or tokens that login earned (`SessionOK`), and of a worker what it relies on between two store
calls (`WorkerOK`), chiefly that a worker about to store tokens has an id whose login is over. That is
stable because a login is only ever recorded under an id that was not issued before (`Kept`), which is
why `LoginStateCleared` survives the gap between `ClearAuthorizationState` and `SetTokenResponse`. There is
one lemma per action, on top of lemmas about what each store call does to the contents of sessions.

`FilterUsesStore` proves that the filter implements `SessionStore`: each step is a step of the store or
leaves it alone, so what is proved of the store holds of the one in use.

The life of a session, `FilterSessionLife`: the filter implements `SessionLife`, for any number of workers
and sessions. It rests on the filter's invariant; each action is shown to be one of beginning,
finding, storing, letting go, ending, or a stutter. The proof is by what an action does to the contents of
the store and to the session its worker holds (`LifeStores`, `LifeFinds`, ...).

**TokenRefreshProofs.** `TypeOK`, `NewestTokenStored` and `StoreGoesBackOnlyIfTolerated`, for any number of workers and
expiries. The invariant says that with an IdP that honours the newest refresh token only, this token is in one
place: while a worker carries it to the store, no other worker, no late request and not the store has a copy
(`CarriedAlone`), so the IdP cannot grant a second refresh in the meantime. With any IdP a worker carries a newer
token than the one it has read (`CarriesNew`), which bounds how far a lenient IdP lets the store go back.

**FilterChainProofs.** `TypeOK`, `CreatesOnce` and `DestroyedOnlyByTwoCreators` for any number of threads. The last two
need that, with one creator, every pointer names the one store, alive (`OneStoreOK`).

**AsyncServiceProofs.** `TypeOK`, `OneListening`, `NoDanglingState` and `NoLeakWhileServing`, for any number of calls
and threads. The invariant adds that a call has one event in the queue at most, and that its
`CompleteState` lives from `Finish` until the event is handled (`Lifetimes`).

**HttpProofs.** What the operators on text compute, for every text: where `Find` stops, what `Split` and
`Join` make of each other, what the encoders leave in a text, how a URI or a path with a query comes
apart. `UrlSafeRoundTrip` and `QueryRoundTrip`: `UrlSafeDecode` and `DecodeQueryData` give back what was
encoded. `FormRoundTrip`: an IdP (`FormDecode`) reads what `EncodeFormData` was given, if that has no `+`.
`Split` and `Join` are recursive functions. That functions with these equations exist is a lemma
(`Recursion`, from which `SplitUnfold` and `JoinUnfold`), and facts about every text are proved by induction on
its length (`NatInductive`). Both speak of sets and functions, since the library's induction rules take
operators and cannot be instantiated.

**LoginTexts, LoginTextProofs, LoginFlowProofs, LoginProofs.** A login for every deployment: any chains, rules,
URIs, pages, foreign cookies, codes, styles of the IdP, and any number of session ids and restarts. The
argument has two halves that meet in `Texts`, a formula of `LoginTexts` that says what becomes of each text
of a login and depends on the deployment alone, not on the state of the flow. `LoginFlowProofs` derives the properties from
`Texts`; `LoginTextProofs` and `LoginProofs` prove `Texts` (`TextsHold`), and the theorems of `LoginProofs` put the
halves together.

- `LoginThrowsOnlyUnvalidated` (`ThrowsOnlyUnvalidated`) and `LoginTypeOK` hold whether the deployment is usable or
  not. The first needs that `GetConfig` has parsed every callback URI that a request can reach (`ThrowInv`), and that
  the trigger rules throw for a malformed expression only (`RulesTyped`). For the second, `TypeInv` adds that a
  message to the IdP is what `RedirectToIdp` writes (`AuthMessage`), that a token request belongs to a session,
  and that the URL of a session is not empty.
- `LoginNoLoop`, `LoginFailsOnlyAfterRestart` and `LogoutIsComplete` (`NoLoginLoop`, `FailsOnlyAfterRestart`,
  `LogoutComplete`). None of them is inductive. The invariant is `LoginInv`, whose part for usable deployments
  is `FlowInv`. It says that the browser has the cookie of the last login and no other, and the stores at most
  its session (`OneLogin`); that a request is for the page, for the callback with the answer of the IdP, or
  for the logout (`AskedPage`, `AskedCallback`, `AskedLogout`); and, phase by phase, that the login is pending
  or granted, or that a restart has lost it and there are fewer logins than restarts allow (`Few`). Page and
  callback are taken by the same chain (`HomeChain`).
- The part of `Texts` for usable deployments, `ReadTexts`, has one conjunct for each hop of the text: the IdP
  reads the client, the state and the redirect URI in the query (`AuthRead`); the browser gets to the
  callback's host and path and back to the page (`UrlsFollowed`), with the cookie it has kept (`PairRead`,
  `CookieRead`); the filter
  recognises the paths of callback and logout (`PathsRead`) and reads code and state (`AnswerRead`); the token
  endpoint reads credentials, code and redirect URI (`TokenRead`, from the theorem `FormRoundTrip`).

The assumptions say what a text is. `WordAssumption`: words are neither reserved characters nor encodings.
`NullAssumption` and `SessionAssumption`: a failure is none of the values. `PortAssumption`: 443 is a port, and
no port is written in two ways. `NameAssumption`: the names of parameters are words. `CookieAssumption`: so are the fixed
parts of the cookie's name and its value after a logout. `IdAssumption`: session ids and states are words, as `SessionStringGenerator` makes them. `WorldsAssumption`: configurations and pages are
made of symbols, with lists of chains, rules and paths; a page is written as browsers do, cookies of other
origin have no separator inside and do not start as a session cookie does, and a parameter of the IdP has no `&`.

Only model-checked: the liveness properties (`AbsoluteTimeoutEnforced`, `RefreshEnds`, `LoginCompletes`,
`SettlesOnOneStore`, `CallAnswered`, `CleanupRepeats`), which are out of the prover's reach.

## What is not modelled

- `DecodeFormData` and `Pipe::Remove`: nothing in the service calls them. The base64 encoding of the
  client's credentials, which their reader undoes.
- Single characters: a word of unreserved characters is one symbol, so the limits of names and numbers
  inside it are not seen. A regular expression is the set of paths it matches, or malformed.
- The TLS and socket libraries below `Post`, the gRPC library below the completion queue, Envoy.
- Reading the configuration file, the generated validation of its fields, log level, listening address:
  they run once, before there is any state.
- Random generation: ids are assumed never to repeat.
- A system clock that is set back, and the wrap of 32-bit times in 2106.
- `OidcFilter` works on one store; that several threads may get different ones at the start is in
  `FilterChain` alone.
- Exceptions other than in `Check` and in the cleanup.
