----------------------------- MODULE JwtOptions -----------------------------
(***************************************************************************)
(* What a PyJWT.decode call verifies, given the options of the object and  *)
(* those of the call (jwt/api_jwt.py, jwt/api_jws.py).                     *)
(*                                                                         *)
(* An options argument is a dictionary the program owns and may pass again *)
(* or edit between two calls; _merge_options writes to it.  The object is  *)
(* the module-level one at first (jwt.decode), then whichever PyJWT the    *)
(* program built last.  Of the options that are merged without any effect  *)
(* on others, enforce_minimum_key_length stands for the rest.              *)
(***************************************************************************)
EXTENDS FiniteSets

CONSTANTS
    Dicts,    \* the program's option dictionaries
    Claims    \* the options verify_exp, verify_nbf...

Signature == "verify_signature"
KeyLength == "enforce_minimum_key_length"

ASSUME OptionsAssumption == Claims \cap {Signature, KeyLength} = {}

Names == Claims \cup {Signature, KeyLength}

\* Dictionaries with any of the options.
Options == UNION {[S -> BOOLEAN] : S \in SUBSET Names}

FullOptions == [Names -> BOOLEAN]

VARIABLES
    dicts,     \* the dictionaries
    options,   \* self.options of the PyJWT object
    sig,       \* self._jws.options
    last,      \* what the last decode verified
    \* history variables
    written,   \* the dictionaries as the program, and only it, wrote them
    spent,     \* the dictionaries that have been passed to a call or an object
               \* while they said verify_signature=False
    object     \* what the program has asked of the object, as types.py documents it

vars == <<dicts, options, sig, last, written, spent, object>>

\* Which claims to verify, and whether to enforce the minimum key length.
\* reused: the dictionary was spent, and says verify_signature=True again.
Wishes == [claims : SUBSET Claims, keyLength : BOOLEAN, reused : BOOLEAN]

TypeOK ==
    /\ dicts \in [Dicts -> Options]
    /\ options \in FullOptions
    /\ sig \in [{Signature, KeyLength} -> BOOLEAN]
    /\ last \in [signature : BOOLEAN, keyLength : BOOLEAN,
                 claims : SUBSET Claims, asked : Options, wishes : Wishes]
    /\ written \in [Dicts -> Options]
    /\ spent \subseteq Dicts
    /\ object \in Wishes

-----------------------------------------------------------------------------

\* d.get(name, default)
Get(d, o, default) == IF o \in DOMAIN d THEN d[o] ELSE default

DefaultOptions == [o \in Names |-> o # KeyLength]

EmptyDict == [o \in {} |-> TRUE]

\* {**base, **d}
Update(base, d) == [o \in DOMAIN base \cup DOMAIN d |-> Get(d, o, base[o])]

\* d with False for the claims it has no entry for.
WithClaimsOff(d) == [o \in DOMAIN d \cup Claims |-> Get(d, o, FALSE)]

\* Mutant: a dictionary without verify_signature is taken to switch it off.
Fill_MissingIsOff(d) ==
    IF Get(d, Signature, FALSE) THEN d ELSE WithClaimsOff(d)

\* Mutant: verify_signature=False overrides what the program has set.
Fill_Overrides(d) ==
    IF Get(d, Signature, TRUE) THEN d
    ELSE [o \in DOMAIN d \cup Claims |-> IF o \in Claims THEN FALSE ELSE d[o]]

\* What _merge_options leaves in the dictionary d it is given.
Fill(d) == IF Get(d, Signature, TRUE) THEN d ELSE WithClaimsOff(d)

DefaultWishes == [claims |-> Claims, keyLength |-> FALSE, reused |-> FALSE]

\* The claims the program asks for when it passes the dictionary d on top of the
\* wishes base: one it has not written about is verified if the signature is
\* (types.py:38-51).
ClaimsOf(d, base) ==
    {c \in Claims :
       Get(written[d], c, Get(written[d], Signature, TRUE) /\ c \in base.claims)}

Reused(d) == d \in spent /\ Get(written[d], Signature, TRUE)

WishesOf(d, base, keyLength) ==
    [claims |-> ClaimsOf(d, base), keyLength |-> keyLength, reused |-> base.reused \/ Reused(d)]

ObjectOf(d) == WishesOf(d, DefaultWishes, Get(written[d], KeyLength, FALSE))

\* d is spent once it is passed on with verify_signature=False.
Spend(d) ==
    spent' = IF Get(written[d], Signature, TRUE) THEN spent ELSE spent \cup {d}

SigOptions(full) == [o \in {Signature, KeyLength} |-> full[o]]

Init ==
    /\ dicts = [d \in Dicts |-> EmptyDict]
    /\ options = DefaultOptions
    /\ sig = SigOptions(DefaultOptions)
    /\ last = [signature |-> TRUE, keyLength |-> FALSE, claims |-> Claims, asked |-> EmptyDict,
               wishes |-> DefaultWishes]
    /\ written = dicts
    /\ spent = {}
    /\ object = DefaultWishes

\* The program starts a dictionary anew.
NewDict(d) ==
    /\ dicts' = [dicts EXCEPT ![d] = EmptyDict]
    /\ written' = [written EXCEPT ![d] = EmptyDict]
    /\ spent' = spent \ {d}
    /\ UNCHANGED <<options, sig, last, object>>

\* The program sets an option in one of its dictionaries.
SetOption(d, o, value) ==
    /\ dicts' = [dicts EXCEPT ![d] = Update(@, [n \in {o} |-> value])]
    /\ written' = [written EXCEPT ![d] = Update(@, [n \in {o} |-> value])]
    /\ UNCHANGED <<options, sig, last, spent, object>>

\* PyJWT()
ConstructDefault ==
    /\ options' = DefaultOptions
    /\ sig' = SigOptions(options')
    /\ object' = DefaultWishes
    /\ UNCHANGED <<dicts, last, written, spent>>

\* Mutant: the defaults are replaced, not updated.
Construct_Replaces(d) ==
    /\ dicts' = [dicts EXCEPT ![d] = Fill(@)]
    /\ options' = dicts'[d]
    /\ sig' = SigOptions(Update(DefaultOptions, dicts'[d]))
    /\ object' = ObjectOf(d)
    /\ Spend(d)
    /\ UNCHANGED <<last, written>>

\* PyJWT(options=d)
Construct(d) ==
    /\ dicts' = [dicts EXCEPT ![d] = Fill(@)]
    /\ options' = Update(DefaultOptions, dicts'[d])
    /\ sig' = SigOptions(options')
    /\ object' = ObjectOf(d)
    /\ Spend(d)
    /\ UNCHANGED <<last, written>>

Verified(signature, full, asked, wishes) ==
    [signature |-> signature,
     keyLength |-> sig[KeyLength],
     claims    |-> {c \in Claims : full[c]},
     asked     |-> asked,
     wishes    |-> wishes]

\* decode(token, ...) without options: those of the object but for
\* verify_signature.
DecodeDefault ==
    /\ last' = Verified(TRUE, options, EmptyDict, object)
    /\ UNCHANGED <<dicts, options, sig, written, spent, object>>

\* Mutant: the call falls back on the object for verify_signature.
Decode_ObjectSignature(d) ==
    /\ dicts' = [dicts EXCEPT ![d] = Fill(@)]
    /\ last' = Verified(Get(dicts[d], Signature, options[Signature]),
                        Update(options, dicts'[d]), written[d], WishesOf(d, object, object.keyLength))
    /\ Spend(d)
    /\ UNCHANGED <<options, sig, written, object>>

\* Mutant: the call's own entry counts for the length of the key.
Decode_KeyLengthOfCall(d) ==
    /\ dicts' = [dicts EXCEPT ![d] = Fill(@)]
    /\ last' = [Verified(Get(dicts[d], Signature, TRUE), Update(options, dicts'[d]),
                         written[d], WishesOf(d, object, object.keyLength))
                EXCEPT !.keyLength = Get(dicts[d], KeyLength, sig[KeyLength])]
    /\ Spend(d)
    /\ UNCHANGED <<options, sig, written, object>>

\* decode(token, ..., options=d).  The PyJWS object is given verify_signature,
\* which overrides its own, and nothing else: it looks enforce_minimum_key_length up in its
\* own options.
Decode(d) ==
    /\ dicts' = [dicts EXCEPT ![d] = Fill(@)]
    /\ last' = Verified(Get(dicts[d], Signature, TRUE), Update(options, dicts'[d]),
                        written[d], WishesOf(d, object, object.keyLength))
    /\ Spend(d)
    /\ UNCHANGED <<options, sig, written, object>>

Next ==
    \/ \E d \in Dicts : NewDict(d)
    \/ \E d \in Dicts, o \in Names, value \in BOOLEAN : SetOption(d, o, value)
    \/ ConstructDefault
    \/ \E d \in Dicts : Construct(d)
    \/ DecodeDefault
    \/ \E d \in Dicts : Decode(d)

Spec == Init /\ [][Next]_vars

-----------------------------------------------------------------------------

\* A decode verifies the signature unless the program itself has written
\* verify_signature=False into the dictionary of that call: neither the object
\* nor what earlier calls left in the dictionary can switch it off
\* (api_jwt.py:240-243, 257-265; api_jws.py:227-233).
SignatureUnlessAsked ==
    last.signature = Get(last.asked, Signature, TRUE)

\* What the program has written about a claim into the dictionary of the call
\* is what the call does, whatever verify_signature says and whatever was
\* filled in since (api_jwt.py:80-88).
ExplicitClaimsHold ==
    \A c \in Claims \cap DOMAIN last.asked : c \in last.claims <=> last.asked[c]

\* A decode verifies exactly the claims its dictionary and the object ask for: a
\* claim the program has said nothing of follows verify_signature.  Only for a
\* dictionary that was passed on with verify_signature=False and then set to True
\* is that not so, and for an object built from one; even then no claim is
\* verified that was not asked for (api_jwt.py:52-65, 75-88; types.py:38-51).
DefaultsFollowSignature ==
    /\ last.claims \subseteq last.wishes.claims
    /\ last.wishes.reused \/ last.claims = last.wishes.claims

\* "Default: verify_signature.  Check that exp (expiration) claim value is in
\* the future" (types.py:40-41): a decode that verifies the signature verifies
\* every claim nobody has asked it to skip, whatever its dictionary was used for.
DefaultsAsDocumented == last.claims = last.wishes.claims

\* A decode enforces the minimum key length if and only if its object was built
\* to: what the dictionary of the object says now, and what that of the call
\* says, are of no account (api_jws.py:362; api_jwt.py:67-73, 259-261).
KeyLengthIsTheObjects == last.keyLength = last.wishes.keyLength

-----------------------------------------------------------------------------
(* What makes the safety properties inductive.                             *)

\* A dictionary is as the program wrote it, or, once spent, has besides an entry
\* for every claim, False where the program wrote none.
FilledIn ==
    \A d \in Dicts :
        dicts[d] = IF d \in spent THEN WithClaimsOff(written[d]) ELSE written[d]

\* The options of the object are what the program wished of it.
ObjectOK ==
    /\ {c \in Claims : options[c]} \subseteq object.claims
    /\ object.reused \/ {c \in Claims : options[c]} = object.claims
    /\ sig[KeyLength] = object.keyLength

IInv ==
    /\ TypeOK
    /\ FilledIn
    /\ ObjectOK
    /\ SignatureUnlessAsked
    /\ ExplicitClaimsHold
    /\ DefaultsFollowSignature
    /\ KeyLengthIsTheObjects
=============================================================================
