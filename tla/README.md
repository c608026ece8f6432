# A verification project for PyJWT

TLA+ models of PyJWT (`src/jwt`), checked with TLC on small instances and, where
it matters most, proved with TLAPS for every value of the constants. Line numbers
below and in `PROJECT.json` are those of the files under `src/`.

## The system

PyJWT encodes and decodes JSON Web Tokens. It is a library: it has no process of
its own, but some of its objects are shared by the threads of the program that
uses it, live long, and talk to a key server.

| component | state it keeps | operations | interacts with |
|---|---|---|---|
| `PyJWKClient` (`jwks_client.py`) | the two caches, the URL and its settings | `fetch_data`, `get_jwk_set`, `get_signing_keys`, `get_signing_key`, `get_signing_key_from_jwt`, `match_kid` | JWKS endpoint (HTTP), `JWKSetCache`, `functools.lru_cache`, `PyJWKSet`; shared by threads, no lock |
| `JWKSetCache` (`jwk_set_cache.py`) | one attribute: set and timestamp, or `None` | `put`, `get`, `is_expired` | `time.monotonic` |
| `PyJWKSet`, `PyJWK` (`api_jwk.py`) | the keys that could be loaded | the constructors, `__getitem__` | `Algorithm.from_jwk`; the presence of the `cryptography` package |
| algorithms (`algorithms.py`) | none | `prepare_key`, `sign`, `verify`, `to_jwk`, `from_jwk`, `check_key_length` | `cryptography` |
| `PyJWS` (`api_jws.py`) | table of handlers, set of valid names, options | `register_algorithm`, `unregister_algorithm`, `get_algorithms`, `get_algorithm_by_name`, `encode`, `decode_complete` | algorithms, `PyJWK`; the module-level object is shared by the program |
| `PyJWT` (`api_jwt.py`) | options, a `PyJWS` | `encode`, `decode_complete`, `decode` | `PyJWS`; the caller's `options` dictionary, which it writes to; the clock |
| `utils.py`, `exceptions.py`, `types.py`, `warnings.py` | none | base64url, integer widths, the class hierarchy | all of the above |
| `help.py`, `__init__.py`, docs, tests | none | | not part of the behaviour |

What is hard, and what makes each part correct:

* **The JWKS client under threads.** Every access to the cache attribute may be
  interleaved with another thread's fetch, failed fetch or expiry; a document is
  in flight while the endpoint publishes the next one; a fetch may fail or time
  out; the retry after a refresh must happen once. Right: a returned key is a
  published signing key for the kid; a kid is denied only on fresh evidence; what
  is taken from the cache has not been there for too long; requests are bounded;
  every call ends.
* **JWK sets with bad keys.** One JWK of a set may fail to load in three ways
  (skip, refuse the set, crash). Right: exactly the loadable keys remain, and a
  missing `cryptography` package is never silent.
* **The algorithm registry.** Two collections say which algorithms exist, and the
  methods check and write them in separate steps. Right: they agree.
* **Options.** The caller's dictionary, the object's options and the `PyJWS`
  object's options are merged, and the first is written to. Right: what a decode
  verifies is what the program said, and a claim it has said nothing of is verified
  with the signature. The second does not hold for a dictionary that is used again:
  see the findings.
* **Claims.** Seven checks with their own switches, arguments and error paths;
  fractions of a second are dropped twice. Right: a token lives as long as its
  issuer said, is bound to its verifier, and asking for less never refuses.

* **Encode and decode.** The algorithm comes from four places, the payload from
  two; headers and arguments may contradict each other; a `PyJWK` takes a way of
  its own past the table of handlers; keys come in many forms, and prepare_key has
  error paths nobody catches. Right: what is accepted was signed with the caller's
  key as the header and the key say, what was encoded is decoded, and no token makes
  the verification of the signature with a fitting key raise an unforeseen exception
  (its claims do: see the findings).
* **Numbers as text.** Widths, padding and a lenient decoder. Right: what is read is
  what was written, and a truncated signature is none.

The list of hazards, each at its line and with the properties that cover it, is
`hazards` in `PROJECT.json`.

## Modules

| module | models | theorems in |
|---|---|---|
| `PyJWK` | pure: choice of algorithm, `from_jwk` of each family, the declarative result of loading a set | |
| `PyJWKSet` | the loop of `PyJWKSet.__init__` with its `except` clauses | `PyJWKSet_proofs` |
| `JwkLookup` | pure: `get_jwk_set`, `get_signing_keys`, `match_kid` on a document | |
| `KeyDirectory` | abstract: what a key client promises | |
| `JwksClient` | `PyJWKClient`, `JWKSetCache`, `lru_cache`, endpoint, clock, threads | `JwksClient_proofs`, `JwksClient_refinement` |
| `AlgorithmRegistry` | the registry methods of `PyJWS` under threads | `AlgorithmRegistry_proofs` |
| `JwtOptions` | option dictionaries, `PyJWT.__init__`, `_merge_options`, which checks a decode makes | `JwtOptions_proofs` |
| `JwtClaims` | datetime conversion in `encode`, `_validate_claims`, the clock | `JwtClaims_proofs` |
| `KeyPreparation` | pure: `prepare_key`, `check_key_length`, `sign`, `verify`, `to_jwk` of each algorithm | |
| `JwsPipeline` | `PyJWS.encode`, `decode_complete`, `decode`, `get_unverified_header`, and `PyJWT._decode_payload` | `JwsPipeline_proofs` |
| `Base64Uint` | `utils.py`: base64url, integers, raw signatures | `Base64Uint_proofs` |
| `MC*` | documents, payloads, calls and symmetry sets for TLC | |

`JwkLookup` and `KeyPreparation` extend `PyJWK`, `JwsPipeline` extends
`KeyPreparation`, `JwksClient` extends `JwkLookup` and instantiates
`KeyDirectory`; `PyJWKSet` instantiates `PyJWK` with a variable for the presence of
the `cryptography` package, so that one run covers both. Definitions whose comment starts with *Mutant* are not part of a
model: each is a plausible bug, and substituting it for the definition it is named
after must break the property `PROJECT.json` names.

### JwksClient

`pc[t]` is the access thread `t` is about to make, because every access to
`jwk_set_with_timestamp` is a point where threads may interleave:

    idle -> lru -> cache -> expired -> clock -> compare -> reread -> parse -> insert -> idle
                     \-> request -> waiting -> reading -> store -> parse
                                        \----------\-> store -> idle     (failed fetch)

* `lru`/`insert` are the two halves of the `lru_cache` wrapper (`LruHit`,
  `LruMiss`, `LruInsert`): the computation in between holds no lock. The wrapper
  checks again, before it adds a result, whether another thread has added the key.
* `cache`, `expired`, `clock`, `compare`, `reread` are the five accesses of
  `JWKSetCache.get`, two of which find `None` and raise `AttributeError`
  (`CrashOnNone`) if another thread has cleared the attribute since the check.
* `request`, `waiting`, `reading`, `store` are `fetch_data`; `put` is in its
  `finally`, so a failed fetch clears the cache. The timestamp is taken when the
  entry is built (`Receive`) and the attribute assigned a step later (`Store`).
* `parse` stands for the constructor of `PyJWKSet` and the filters, which touch
  no shared state; `refresh[t]` says whether the second try is on.

The endpoint publishes documents (`Publish`), answers at any moment (`Answer`) and
may fail (`FetchFails`). Documents are known by version, so that properties can
speak of their age. `began`, `newest`, `sentAfter` and `requests` are history
variables, and so is the field `stored` of the cache's entry: `sentAfter[t]` is the
newest version the endpoint had answered with when `t` sent its request, `stored`
the time the attribute was assigned.

Time passes at any moment (`Tick`): `urlopen`'s timeout bounds each wait on the socket
and not their sum, and nothing bounds how long a thread waits between two of its
steps. Hence nothing bounds the age of an *answer* in the cache; what is bounded is
how long an entry has been there, and `BoundedStaleness` says that.

`KeyDirectory` says what callers may rely on: a question is answered with a
published key for that kid, with a denial justified by a document published no
earlier than the question, with a set, or with a failure. Caches, threads and
clocks are gone. `Directory` in `JwksClient` maps a thread's running call to the
question and its outcome to the answer.

### AlgorithmRegistry

Between the check of `register_algorithm` or `unregister_algorithm` and each of its
two writes other threads may run; each write is an action. The initial states are
the objects the constructor can build, for every whitelist. `contended` collects
the names on which two calls have ever overlapped: the code promises nothing there,
and the properties say exactly that.

### JwtOptions

The program starts dictionaries, sets entries, builds `PyJWT` objects and decodes
in any order; `Fill` is what `_merge_options` leaves in the caller's dictionary.
`enforce_minimum_key_length` stands for the options that are merged without effect
on others. `last` is what the last decode verified.

Three history variables say what should have been: `written` is each dictionary as
the program itself wrote it; `spent` are the dictionaries that have been passed on
while they said `verify_signature=False`, since they were new; `object` is what the
program asked of the object. `WishesOf` reads a dictionary as `types.py:38-51`
documents it, a claim that is not mentioned following the signature. A *reused*
dictionary is one that is spent and says `verify_signature=True` again: only for those
does `DefaultsFollowSignature` allow claims to be skipped that were asked for, and
`DefaultsAsDocumented`, which allows it for none, is violated.

### JwtClaims

A token is encoded from a request (datetimes lose their fraction) or comes from
another program (any JSON in any claim), and is decoded again and again while the
clock advances by fractions of a second. Every check of `_validate_claims` is an
operator that gives the error it raises; `Verdict` is the first of them. Values are
abstracted to what the checks tell apart: the type, and the time or the names.
Times are not negative. The signature is taken to be good.

### KeyPreparation

A key is its name, its type (an HMAC secret, RSA, or the curve), its size and
whether the private half is there; what a program passes as key is a form of it:
text of several kinds, a key object, a `PyJWK`, `None` or something else.
`PrepareKey` gives `"ok"` or the class of the exception. Signatures are perfect: one
*is* the scheme, the key and the input it was made of, so that `Verifies` is an
equation. `FromKey` sends a key through `to_jwk` and the constructor of `PyJWK`.

### JwsPipeline

The state is what changes between calls: the table of handlers (a handler is known
by the name it has in `get_default_algorithms`), the object's
`enforce_minimum_key_length`, and the token in hand. `Encode`, `Register`,
`Unregister` and `Receive` (another program replaces or alters the token) are the
actions. `decode_complete` changes nothing: `Decode(c, t)` is its result, an operator
made of one part per method it calls, and the properties quantify over all
calls in every state, so that a check of `Decode` between any two actions is never
missed. A call reads the table once, so calls are single steps; the steps inside
`register_algorithm` and `unregister_algorithm` are `AlgorithmRegistry`'s. Headers
are what the code looks at: `alg`, `kid`, `crit`, `b64`.

### Base64Uint

A number or a signature is written as text; the text is padded, broken into lines or
cut on its way; the properties read it in every state. Bytes are numbers, characters are the values
of the base64 alphabet, padding and junk. `A2bBase64` is the state machine of
`binascii.a2b_base64` in its lenient mode: `after[k]` is its state after `k`
characters. In the run numbers are small and curves have 8 to 17 bits; the
theorems are about numbers and curves of any size.

### PyJWK, PyJWKSet

A JWK is known by `kty`, `alg`, `crv`, `use`, `kid` and what is wrong with its
parameters. `Load` gives `"ok"` or the exception; `"raw"` is any that is not a
`PyJWTError`. `PyJWKSet` runs the loop; `LoopMeetsReference` says it computes the
`SetErrors` and `UsableKeys` the client module uses. JWKs that are not objects are
left out.

## Runs

| run | bounds | shows |
|---|---|---|
| `JwksClient_one_thread` | 1 thread, 2 kids, 8 kinds of document, 2 versions, 3 ticks | types; denials and refreshes are fresh; `get` never raises; the endpoint is asked only when the cache cannot serve |
| `JwksClient_threads` | 2 threads, 2 kids, both tiers, an LRU tier of 1, a rotation, no ticks | published keys only; `RequestBudget`; `CallsAdvance`; `ImplementsDirectory`; the cache regresses only when fetches overlap |
| `JwksClient_live` | 2 threads, 1 kid, 1 document, a lifespan of 1 and 2 ticks, fair | `BoundedStaleness`, `CallsReturn` |
| `JwksClient_race` | 2 threads | *violated*: `AttributeError` out of `get` |
| `PyJWKSet` | every document of up to 3 of 16 JWKs, one per way to load or fail, with and without the cryptography package | the loop meets its reference; no silent loss |
| `AlgorithmRegistry` | 2 threads, 2 names, every whitelist, 2 handlers and an object that is none | types, `ListAgrees`, `NoReplacement` |
| `JwtOptions` | 1 dictionary, 2 claims | types, `SignatureUnlessAsked`, `ExplicitClaimsHold`, `DefaultsFollowSignature`, `KeyLengthIsTheObjects` |
| `JwtOptions_reuse` | 1 dictionary, 1 claim | *violated*: a reused dictionary verifies the claims it has not denied |
| `JwtClaims` | 6 half-seconds, 36 timed requests and 12 odd ones, 20 foreign payloads in every shape, calls with every set of time checks and every shape of argument | types, `LifetimeKept`, `ExpiredForGood`, `BoundToVerifier`, `WeakeningAccepts` |
| `JwtClaims_errors` | as `JwtClaims`, time claims only | *violated*: `TypeError` and `OverflowError` out of `decode` |
| `JwsPipeline` | 9 keys in 23 forms to sign and 18 to verify, 10 algorithms, 3 names that come and go, every combination of `alg`, `crit`, `b64`, detached; 7 foreign tokens | types, `AcceptedAsSigned`, `RoundTrip`, `JwkPathAgrees`, `VerificationOnlyRefuses`, `RawErrorsAreTheKeys` |
| `Base64Uint` | 15 numbers of up to three bytes, 7 widths, curves of 8, 9, 16 and 17 bits, 2 added characters, any cut | types, `UintsSurvive`, `WidthsAreExact`, `SignaturesSurvive`, `CutSignaturesAreRefused` |

Why these bounds are enough to be interesting: every race in the client is between
two threads around one attribute, so two threads show it; a rotation needs two
documents; expiry needs one lifespan plus a fetch on each side of it; an LRU cache
evicts with one key more than it holds. Keys sit at the minimum length and one byte
or bit below it, numbers on both sides of each byte boundary. Two ticks take an entry
past a lifespan of one between any two accesses of either thread, which is what
`BoundedStaleness` must survive. That fetches overlap is a matter of the order of
requests and answers, not of the clock, and shows without ticks. In every run the
JWK Set cache is on; that `RefreshedIsFresh` holds without it is theorem
`OnlyFreshRefreshes`. Documents are chosen one per way they can
go wrong. Half-seconds are enough for a fraction to be lost. Where an instance
could hide something, the theorem does not: it holds for all values of the
constants. Deadlock is checked except where a run must come to
an end: the constructor of `PyJWKSet` returns, and a text of `Base64Uint` that was
refused or cut has nothing left to happen to it. Symmetry is used for threads (and handlers) in safety runs only;
`JwksClient_live` has none.

**Fairness.** `FairSpec` asks for weak fairness of each thread's own steps
(`Proceed`: a runnable thread is scheduled) and of the end of each wait
(`Network`: an answer, its arrival or an error). The second is an assumption about the
network: `urlopen`'s timeout ends a wait in which nothing arrives, but an endpoint that
goes on sending a byte now and then could keep `read` waiting. Nothing is assumed of
the clock or the arrival of calls.

## Findings

Where a comment, a type or a docstring says something else than the code does, and
TLC refutes it:

1. `JwksClient_race`: `JWKSetCache.get` (`jwk_set_cache.py:19-30`) reads the shared
   attribute again after its `None` check: a failed fetch in another thread makes
   it raise `AttributeError`, though its type says `Optional[PyJWKSet]`.
2. `JwtOptions_reuse`: `_merge_options` writes `False` for every claim it does not
   find into a dictionary that says `verify_signature=False` (`api_jwt.py:80-87`).
   Set to `True` again and passed to `decode`, or to `PyJWT()`, the dictionary
   verifies signatures and no claims, though `types.py:39-51` gives `verify_signature`
   as their default, and `CHANGELOG.rst:297` says that the dictionary is not mutated.
3. `JwtClaims_errors`: a time claim that is null, a list, an object or infinite
   makes `decode` raise `TypeError` or `OverflowError` and not an
   `InvalidTokenError` (`exceptions.py:10`).

The models show other behaviour a user of the library should know of, which no run
is spent on:

* a cached set without usable signing keys makes `get_signing_key` raise for the
  whole lifespan without a refresh (`docs/usage.rst:507` speaks of a `kid` that is
  not found);
* a JWK whose load raises `KeyError`, `ValueError` or `NotImplementedError` refuses
  the whole set (the comment at `api_jwk.py:151` is "skip unusable keys");
* `get_algorithms` lists whitelisted names that have no handler (`api_jws.py:93`);
* `enforce_minimum_key_length` in the options of `decode()` has no effect, though
  `types.py:53` describes it among them: only the object's option counts
  (`KeyLengthIsTheObjects`; `docs/usage.rst:431-434` gives it to the object);
* with a `PyJWK` as key, `algorithms` is checked against the token's header only: the
  signature is verified with the `PyJWK`'s own algorithm (`api_jws.py:347-352`).
  A token whose header says HS256, signed with HS512, is accepted with an HS512
  `PyJWK` and `algorithms=["HS256"]`, though `api_jwt.py:202` documents
  "allowed algorithms" (`AcceptedAsSigned` says which algorithm it is);
* a `PyJWT` built with `verify_signature=False` verifies signatures in `decode()`
  but skips the claims (`types.py:41`);
* a token with a fractional `nbf` is accepted up to a second before it
  (`docs/usage.rst:237`).

* `unregister_algorithm` and `register_algorithm` are documented to be about
  verifying tokens too (`api_jws.py:61`), but a `PyJWK` verifies with the handler
  it was built with, whatever the table says;
* a `PyJWK` built with an explicit algorithm verifies on a curve that
  `prepare_key` would refuse for that algorithm (`api_jws.py:350-352`);
* `encode` accepts headers it will not decode: `crit: ["b64"]` with a `b64` that is
  not false, for `b64` is then removed, and an `alg` that is empty or null, which
  stays in the header though the signature is made with another;
* an RSA private key passes `prepare_key` and then makes `verify` raise
  `AttributeError`, where EC and OKP keys are taken for their public halves;
  malformed keys raise `ValueError` with EC and OKP algorithms and
  `InvalidKeyError` with RSA;
* a caller that allows algorithms of several families lets the token's `alg` choose
  which `prepare_key` refuses the key, and with which exception;
* base64url text that was broken into lines is decoded if the padding, computed
  from the length with the line breaks, happens to suffice.

## Proofs

All theorems have the form `Spec => []P` or `Spec => [][A]_vars`, for all values of
the constants, under the assumptions `HasCryptoAssumption`, `JwksAssumption`,
`RegistryAssumption`, `OptionsAssumption`, `ClaimsAssumption`,
`DocumentsAssumption`, `PipelineAssumption` and `UintAssumption` of the modules
(types of the constants, and a positive lifespan as `PyJWKClient.__init__`
demands). Two theorems about a client used by one thread assume `OneThread`
besides. Each rests on an invariant `IInv` that TLC has checked on the small
instances and whose preservation is proved action by action.

* **JwksClient_proofs.** `IInv` adds to the properties what makes them inductive:
  - `VersionsOK`: documents in hand or cached have been published;
  - `LookupsOK`: a thread about to insert has a key, and denials come last;
  - `TimesOK`: a thread's readings lie between its beginning and now, an entry's
    timestamp is not later than its assignment, and *the entry a thread is about to
    return has not been there for long even if it is not the one it compared*: this is
    why `BoundedStaleness` survives the race in `get`, for an entry is only replaced
    by one stored later;
  - `OrderOK`: no answer has a version newer than the newest so far, and a thread's
    answer is at least as new as any given before it sent its request;
  - `BudgetOK`: a thread that may still send a request has one left.

  Proved: `TypeCorrect`, `OnlyPublishedKeys`, `OnlyFreshDenials`,
  `OnlyFreshRefreshes`, `StalenessIsBounded`, `RequestsAreBounded`,
  `RegressNeedsOverlap`, `CallsGetNearer`. The last gives each location its distance
  from the end of the call (`StepsLeft`): a call takes at most 22 steps of its own,
  and no step of another thread takes it back.

  With `OneThread` (no two threads use the client) what a thread has read of the cache
  is still so at its next step, and `OneThreadOK` says so for each `pc`. It gives
  `OneThreadFetchesWhenNeeded`, which is what the docstring of `PyJWKClient` says of
  requests, and `OneThreadGetReturnsOptional`: the `AttributeError` that the run
  `JwksClient_race` finds takes a second thread.
* **JwksClient_refinement.** `Refinement`: the client implements `KeyDirectory`.
  Initial states map to initial states; a call asks, its last step answers, every
  other step is a stutter. `FailuresOK` is needed beside `IInv`: a thread that is
  about to clear the cache holds a failure to raise.
* **AlgorithmRegistry_proofs.** `Alone` says what a thread that works alone on a
  name knows between its steps; from it follow `RegistryAgrees` and `HandlersStay`.
* **JwtOptions_proofs.** `FilledIn` says what every dictionary holds: what the program
  wrote and, once spent, `False` for the claims it wrote nothing of. `ObjectOK` says
  that the object's options are what was asked of it. They give
  `SignatureIsVerified`, `ExplicitOptionsHold`, `ClaimsFollowSignature` and
  `KeyLengthIsFixed`.
* **JwtClaims_proofs.** The verdict is `Accepted` exactly if all nine checks are
  (`AcceptedIff`), else it is that of one check. With `EncodedOK`, `LastOK` and
  `ExpiredOK` this gives `LifetimesAreKept` for every clock resolution,
  `ExpiryIsFinal`, `TokensAreBound` and `LessIsAccepted`.

* **PyJWKSet_proofs.** What the loop knows at each JWK: none it has passed failed
  fatally (`PassedOK`) and the keys are those that loaded, in order (`KeysOK`); with how it
  can end (`ResultOK`) this gives `SetTypes`, `LoopIsReference` and
  `CryptoLossIsLoud` for documents of any length. `LoadResults` says that every
  JWK whatsoever loads or fails in one of the foreseen ways.
* **JwsPipeline_proofs.** `DecodeSucceeds` and `SignatureAccepted` take a decode
  apart into what it must have found out, `DecodeSucceedsIf` puts one together.
  Properties that are about the code of `Decode` alone hold in every state
  (`TokensAreAsSigned`, `JwkPathIsTheKeys`, `VerificationChangesNothing`,
  `RawErrorsComeFromKeys`). `TokensRoundTrip` needs `MadeOK`: what `encode` checked
  of the key is remembered with the token it made while handlers come and go;
  `VerifierIsPrepared` says that the key is then taken in its other forms, too.
  `PipelineTypes` is `TypeOK`.

* **Base64Uint_proofs.** Encoder and decoders loop over texts of any length. What
  their loops compute is shown by induction: a set of numbers with 0 and every
  successor is `Nat` (`SetInduction`, by the least counterexample), and the values
  of a loop exist as a function (`IterationExists`). From it follow
  - `BytesAreRead`: the big-endian bytes of a number are read as that number;
    `BytesFromIntFacts` and `NumberToBytesFacts` say what is refused;
  - `Decoded`: what `a2b_base64` makes of any text that *carries* the first `L`
    characters of a code, then padding, with junk anywhere between. `count`, which
    numbers the characters that are not junk, is the certificate: the decoder's state
    after `k` characters is a function of `count[k]` (`Progress`);
  - `TracedRead`: what `base64url_decode` makes of it, whose padding counts the junk.

  The invariant says that what was written is what `Next` lets a program write
  (`WrittenOK`) and that the text is `Traced` to its code: some `L` and `count`
  explain its length, the padding, the junk and whether it was cut (`TextOK`). Each
  way of handing a text on preserves that (`TracedPadded`, `TracedJunk`,
  `TracedCut`). It gives `UintTypeCorrect`, `NumbersComeBack`,
  `WidthsComeBack`, `SignaturesComeBack` and `CutSignaturesRefused` for numbers of
  any size, curves of any width and texts of any length. TLC has checked the
  invariant with the number of characters that are not junk for `count`.

Only model-checked: `CallsReturn`, because liveness under fairness is out of the
prover's reach. `CallsGetNearer` is the half of it that is safety: what is left is
that a call in progress always has a step to take. The three violated runs have counterexamples instead of proofs.

## Not modelled, and next

Not modelled because there is nothing to check or it lies outside: the
cryptography itself, HTTP and TLS, `help.py`, deprecated keyword arguments,
logging and warnings, the `typ` header, `compute_hash_digest` (unused by the
package), and `max_cached_keys=None` (an LRU tier without bound; the model has
every finite one).

Left out of modelled parts: tokens with more than three segments (the payload then
holds a dot, which the decoder skips); `b""` as a key, which only the algorithm
`none` tells from `""`; RSA keys too small for their hash; JSON nested too deeply
and text that is not UTF-8, whose exceptions are the JSON module's and the codec's.

The plan, in order:

1. The whole of `PyJWT.decode` as one module: `JwtOptions`, `JwsPipeline` and
   `JwtClaims` composed. They share no state but the caller's dictionary, which
   `JwtOptions` has; what is missing is the order of their errors.
2. `JwsPipeline` with the steps of `AlgorithmRegistry`: a name looked up by one thread
   while another registers it. A decode reads the table once, so that nothing but a
   choice of handlers is to be expected.
3. Proofs: that a key taken through `to_jwk` and `from_jwk` is the key, for every
   key of `KeyPreparation`.
