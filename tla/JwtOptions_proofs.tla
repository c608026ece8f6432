-------------------------- MODULE JwtOptions_proofs --------------------------
(***************************************************************************)
(* Theorems about JwtOptions, for any number of dictionaries and claims.   *)
(***************************************************************************)
EXTENDS JwtOptions, TLAPS

USE OptionsAssumption DEF OptionsAssumption, Signature, KeyLength

\* A dictionary is an option dictionary if it maps some of the names to
\* Booleans.
LEMMA IsOptions ==
    ASSUME NEW d, NEW S \in SUBSET Names, d \in [S -> BOOLEAN]
    PROVE  d \in Options
BY DEF Options

\* What an option dictionary is.
LEMMA OptionsFacts ==
    ASSUME NEW d \in Options
    PROVE  /\ DOMAIN d \subseteq Names
           /\ d \in [DOMAIN d -> BOOLEAN]
           /\ \A o : Get(d, o, TRUE) \in BOOLEAN /\ Get(d, o, FALSE) \in BOOLEAN
<1>1. PICK S \in SUBSET Names : d \in [S -> BOOLEAN]
  BY DEF Options
<1>2. DOMAIN d \subseteq Names /\ d \in [DOMAIN d -> BOOLEAN]
  BY <1>1
<1>3. ASSUME NEW o
      PROVE  Get(d, o, TRUE) \in BOOLEAN /\ Get(d, o, FALSE) \in BOOLEAN
  BY <1>2 DEF Get
<1> QED BY <1>2, <1>3

\* Updating keeps option dictionaries, and full ones full.
LEMMA UpdateFacts ==
    ASSUME NEW base \in Options, NEW d \in Options
    PROVE  /\ Update(base, d) \in Options
           /\ DOMAIN Update(base, d) = DOMAIN base \cup DOMAIN d
           /\ \A o \in DOMAIN base \cup DOMAIN d : Update(base, d)[o] = Get(d, o, base[o])
           /\ base \in FullOptions => Update(base, d) \in FullOptions
<1>1. Update(base, d) \in [DOMAIN base \cup DOMAIN d -> BOOLEAN]
  BY OptionsFacts DEF Update, Get
<1>2. DOMAIN base \cup DOMAIN d \in SUBSET Names
  BY OptionsFacts
<1>3. Update(base, d) \in Options
  BY <1>1, <1>2, IsOptions
<1>4. ASSUME base \in FullOptions PROVE Update(base, d) \in FullOptions
  <2>1. DOMAIN base \cup DOMAIN d = Names
    BY <1>2, <1>4 DEF FullOptions
  <2> QED BY <1>1, <2>1 DEF FullOptions
<1> QED BY <1>3, <1>4 DEF Update

\* Filling in claims keeps the entries there are, and is done once.
LEMMA OffFacts ==
    ASSUME NEW d \in Options
    PROVE  /\ WithClaimsOff(d) \in Options
           /\ DOMAIN WithClaimsOff(d) = DOMAIN d \cup Claims
           /\ \A o \in DOMAIN d : WithClaimsOff(d)[o] = d[o]
           /\ \A c \in Claims \ DOMAIN d : WithClaimsOff(d)[c] = FALSE
           /\ WithClaimsOff(WithClaimsOff(d)) = WithClaimsOff(d)
<1> DEFINE off == WithClaimsOff(d)
<1>1. off = [o \in DOMAIN d \cup Claims |-> Get(d, o, FALSE)]
  BY DEF WithClaimsOff
<1>2. off \in [DOMAIN d \cup Claims -> BOOLEAN]
  BY <1>1, OptionsFacts
<1>3. DOMAIN d \cup Claims \in SUBSET Names
  BY OptionsFacts DEF Names
<1>4. off \in Options
  BY <1>2, <1>3, IsOptions
<1>5. DOMAIN off = DOMAIN d \cup Claims
  BY <1>1
<1>6. WithClaimsOff(off) = [o \in DOMAIN off \cup Claims |-> Get(off, o, FALSE)]
  BY DEF WithClaimsOff
<1>7. DOMAIN off \cup Claims = DOMAIN off
  BY <1>5
<1>8. \A o \in DOMAIN off : Get(off, o, FALSE) = off[o]
  BY DEF Get
<1>9. WithClaimsOff(off) = [o \in DOMAIN off |-> off[o]]
  BY <1>6, <1>7, <1>8
<1>10. WithClaimsOff(off) = off
  BY <1>2, <1>5, <1>9
<1>11. \A o \in DOMAIN d \cup Claims : off[o] = IF o \in DOMAIN d THEN d[o] ELSE FALSE
  BY <1>1 DEF Get
<1> QED BY <1>4, <1>5, <1>10, <1>11

\* The default options are full, and on but for the key length.
LEMMA DefaultFacts ==
    /\ DefaultOptions \in FullOptions /\ DefaultOptions \in Options
    /\ EmptyDict \in Options /\ DOMAIN EmptyDict = {}
    /\ \A c \in Claims : DefaultOptions[c]
    /\ {c \in Claims : DefaultOptions[c]} = Claims
    /\ SigOptions(DefaultOptions)[KeyLength] = FALSE
    /\ DefaultWishes \in Wishes
<1>1. DefaultOptions \in [Names -> BOOLEAN]
  BY DEF DefaultOptions
<1>2. EmptyDict \in [{} -> BOOLEAN]
  BY DEF EmptyDict
<1>3. DefaultWishes \in Wishes
  BY DEF DefaultWishes, Wishes
<1>4. \A c \in Claims : DefaultOptions[c]
  BY DEF DefaultOptions, Names
<1>5. SigOptions(DefaultOptions)[KeyLength] = FALSE
  BY DEF SigOptions, DefaultOptions, Names
<1> QED BY <1>1, <1>2, <1>3, <1>4, <1>5, IsOptions DEF EmptyDict, FullOptions

\* A full dictionary gives each PyJWS option a value.
LEMMA SigOptionsType ==
    ASSUME NEW full \in FullOptions
    PROVE  SigOptions(full) \in [{Signature, KeyLength} -> BOOLEAN]
BY DEF SigOptions, FullOptions, Names

\* What is found in a dictionary the claims were filled in of.
LEMMA HeldFacts ==
    ASSUME NEW w \in Options
    PROVE  \A base :
              /\ \A c \in Claims :
                    /\ c \in DOMAIN w => Get(WithClaimsOff(w), c, base) = w[c]
                    /\ c \notin DOMAIN w => Get(WithClaimsOff(w), c, base) = FALSE
              /\ \A o \in {Signature, KeyLength} :
                    Get(WithClaimsOff(w), o, base) = Get(w, o, base)
<1>1. ASSUME NEW c \in Claims, NEW base
      PROVE  /\ c \in DOMAIN w => Get(WithClaimsOff(w), c, base) = w[c]
             /\ c \notin DOMAIN w => Get(WithClaimsOff(w), c, base) = FALSE
  BY OffFacts DEF Get
<1>2. ASSUME NEW o \in {Signature, KeyLength}, NEW base
      PROVE  Get(WithClaimsOff(w), o, base) = Get(w, o, base)
  BY OffFacts DEF Get
<1> QED BY <1>1, <1>2

\* The claims that are on, by what the program wrote on top of which wishes.
LEMMA WishesFacts ==
    ASSUME NEW d \in Dicts, NEW base \in Wishes, NEW on, NEW full,
           written[d] \in Options,
           {c \in Claims : on[c]} \subseteq base.claims,
           base.reused \/ {c \in Claims : on[c]} = base.claims,
           \A c \in Claims : on[c] \in BOOLEAN,
           \A c \in Claims :
              full[c] = IF c \in DOMAIN written[d] THEN written[d][c]
                        ELSE IF d \in spent \/ ~Get(written[d], Signature, TRUE) THEN FALSE
                        ELSE on[c]
    PROVE  /\ {c \in Claims : full[c]} \subseteq ClaimsOf(d, base)
           /\ base.reused \/ Reused(d) \/ {c \in Claims : full[c]} = ClaimsOf(d, base)
           /\ \A c \in Claims : full[c] \in BOOLEAN
<1> DEFINE sgn == Get(written[d], Signature, TRUE)
           wish(c) == IF c \in DOMAIN written[d] THEN written[d][c]
                      ELSE sgn /\ c \in base.claims
<1>1. \A c \in Claims \cap DOMAIN written[d] : written[d][c] \in BOOLEAN
  BY OptionsFacts
<1>2. sgn \in BOOLEAN
  BY OptionsFacts
<1>3. ClaimsOf(d, base) = {c \in Claims : wish(c)}
  BY DEF ClaimsOf, Get
<1>4. Reused(d) <=> d \in spent /\ sgn
  BY DEF Reused
<1> HIDE DEF sgn
<1>5. \A c \in Claims : full[c] \in BOOLEAN
  BY <1>1
<1>6. ASSUME NEW c \in Claims, full[c] PROVE wish(c)
  BY <1>2, <1>6 DEF sgn
<1>7. ASSUME ~base.reused, ~Reused(d), NEW c \in Claims, wish(c) PROVE full[c]
  <2>1. CASE c \in DOMAIN written[d]
    BY <1>7, <2>1
  <2>2. CASE c \notin DOMAIN written[d]
    <3>1. sgn /\ c \in base.claims
      BY <1>7, <2>2
    <3>2. on[c]
      BY <1>7, <3>1
    <3>3. d \notin spent
      BY <1>4, <1>7, <3>1
    <3> QED BY <2>2, <3>1, <3>2, <3>3 DEF sgn
  <2> QED BY <2>1, <2>2
<1> QED BY <1>3, <1>5, <1>6, <1>7

-----------------------------------------------------------------------------

\* The module-level object, before any call, satisfies the invariant.
LEMMA InitIInv == Init => IInv
<1> SUFFICES ASSUME Init PROVE IInv
  OBVIOUS
<1> USE DefaultFacts DEF Init
<1>1. TypeOK
  <2>1. SigOptions(DefaultOptions) \in [{Signature, KeyLength} -> BOOLEAN]
    BY SigOptionsType
  <2> QED BY <2>1 DEF TypeOK
<1>2. FilledIn
  BY DEF FilledIn
<1>3. ObjectOK
  BY DEF ObjectOK, DefaultWishes, SigOptions
<1>4. SignatureUnlessAsked /\ ExplicitClaimsHold
  BY DEF SignatureUnlessAsked, ExplicitClaimsHold, Get
<1>5. DefaultsFollowSignature /\ KeyLengthIsTheObjects
  BY DEF DefaultsFollowSignature, KeyLengthIsTheObjects, DefaultWishes
<1> QED BY <1>1, <1>2, <1>3, <1>4, <1>5 DEF IInv

\* What was said of the last decode stays true while it is the last.
LEMMA LastStays ==
    ASSUME IInv, UNCHANGED last
    PROVE  /\ SignatureUnlessAsked' /\ ExplicitClaimsHold'
           /\ DefaultsFollowSignature' /\ KeyLengthIsTheObjects'
BY DEF IInv, SignatureUnlessAsked, ExplicitClaimsHold, DefaultsFollowSignature,
       KeyLengthIsTheObjects

\* And what was said of the object, while it is the object.
LEMMA ObjectStays ==
    ASSUME IInv, UNCHANGED <<options, sig, object>>
    PROVE  ObjectOK'
BY DEF IInv, ObjectOK

\* A new dictionary says nothing, and so does its record.
LEMMA NewDictStep ==
    ASSUME IInv, NEW d \in Dicts, NewDict(d)
    PROVE  IInv'
<1>1. /\ dicts' = [dicts EXCEPT ![d] = EmptyDict]
      /\ written' = [written EXCEPT ![d] = EmptyDict]
      /\ spent' = spent \ {d}
      /\ UNCHANGED <<options, sig, last, object>>
  BY DEF NewDict
<1>t. dicts \in [Dicts -> Options] /\ written \in [Dicts -> Options]
  BY DEF IInv, TypeOK
<1>2. TypeOK'
  BY <1>1, <1>t, DefaultFacts DEF IInv, TypeOK
<1>3. FilledIn'
  BY <1>1, <1>t DEF IInv, FilledIn
<1> QED BY <1>1, <1>2, <1>3, LastStays, ObjectStays DEF IInv

\* Setting an option writes the same entry to the dictionary and to its record.
LEMMA SetOptionStep ==
    ASSUME IInv, NEW d \in Dicts, NEW o \in Names, NEW value \in BOOLEAN, SetOption(d, o, value)
    PROVE  IInv'
<1> DEFINE entry == [n \in {o} |-> value]
<1>e. entry \in Options /\ DOMAIN entry = {o} /\ entry[o] = value
  BY IsOptions
<1>1. /\ dicts' = [dicts EXCEPT ![d] = Update(dicts[d], entry)]
      /\ written' = [written EXCEPT ![d] = Update(written[d], entry)]
      /\ UNCHANGED <<options, sig, last, spent, object>>
  BY DEF SetOption
<1>t. /\ dicts \in [Dicts -> Options] /\ written \in [Dicts -> Options]
      /\ dicts[d] \in Options /\ written[d] \in Options
  BY DEF IInv, TypeOK
<1> HIDE DEF entry
<1>u. ASSUME NEW base \in Options
      PROVE  /\ Update(base, entry) \in Options
             /\ Update(base, entry) =
                   [n \in DOMAIN base \cup {o} |-> IF n = o THEN value ELSE base[n]]
  <2>1. \A n : Get(entry, n, base[n]) = IF n = o THEN value ELSE base[n]
    BY <1>e DEF Get
  <2>2. Update(base, entry) = [n \in DOMAIN base \cup {o} |-> Get(entry, n, base[n])]
    BY <1>e DEF Update
  <2> QED BY <1>e, <2>1, <2>2, UpdateFacts
<1>2. TypeOK'
  BY <1>1, <1>t, <1>u DEF IInv, TypeOK
<1>3. WithClaimsOff(Update(written[d], entry)) = Update(WithClaimsOff(written[d]), entry)
  <2> DEFINE w == written[d]
             wo == Update(w, entry)
             ow == WithClaimsOff(w)
  <2>1. wo \in Options /\ ow \in Options
    BY <1>t, <1>u, OffFacts
  <2>2. wo = [n \in DOMAIN w \cup {o} |-> IF n = o THEN value ELSE w[n]]
    BY <1>t, <1>u
  <2>3. DOMAIN wo = DOMAIN w \cup {o}
    BY <2>2
  <2>4. ow = [n \in DOMAIN w \cup Claims |-> Get(w, n, FALSE)]
    BY DEF WithClaimsOff
  <2>5. DOMAIN ow = DOMAIN w \cup Claims
    BY <2>4
  <2>6. Update(ow, entry) = [n \in DOMAIN ow \cup {o} |-> IF n = o THEN value ELSE ow[n]]
    BY <2>1, <1>u
  <2>7. WithClaimsOff(wo) = [n \in DOMAIN wo \cup Claims |-> Get(wo, n, FALSE)]
    BY DEF WithClaimsOff
  <2>8. DOMAIN wo \cup Claims = DOMAIN ow \cup {o}
    BY <2>3, <2>5
  <2>9. ASSUME NEW n \in DOMAIN ow \cup {o}
        PROVE  Get(wo, n, FALSE) = IF n = o THEN value ELSE ow[n]
    <3>1. CASE n = o
      BY <2>2, <2>3, <3>1 DEF Get
    <3>2. CASE n # o
      BY <2>2, <2>3, <2>4, <2>5, <3>2 DEF Get
    <3> QED BY <3>1, <3>2
  <2> HIDE DEF w, wo, ow
  <2>10. WithClaimsOff(wo) = Update(ow, entry)
    BY <2>6, <2>7, <2>8, <2>9
  <2> QED BY <2>10 DEF w, wo, ow
<1>4. FilledIn'
  BY <1>1, <1>t, <1>3 DEF IInv, FilledIn
<1> QED BY <1>1, <1>2, <1>4, LastStays, ObjectStays DEF IInv

\* What a call leaves in its dictionary is as the invariant says, and what it
\* finds there is what the program wrote but for the claims of a spent one.
LEMMA FillStep ==
    ASSUME IInv, NEW d \in Dicts, dicts' = [dicts EXCEPT ![d] = Fill(dicts[d])],
           UNCHANGED written, Spend(d)
    PROVE  /\ dicts' \in [Dicts -> Options] /\ spent' \subseteq Dicts
           /\ FilledIn'
           /\ \A base : \A c \in Claims :
                 Get(dicts'[d], c, base) =
                    IF c \in DOMAIN written[d] THEN written[d][c]
                    ELSE IF d \in spent \/ ~Get(written[d], Signature, TRUE) THEN FALSE
                    ELSE base
           /\ \A base : \A o \in {Signature, KeyLength} :
                 /\ Get(dicts[d], o, base) = Get(written[d], o, base)
                 /\ Get(dicts'[d], o, base) = Get(written[d], o, base)
<1> DEFINE w == written[d]
<1>t. /\ dicts \in [Dicts -> Options] /\ w \in Options /\ spent \subseteq Dicts
  BY DEF IInv, TypeOK
<1>1. dicts[d] = IF d \in spent THEN WithClaimsOff(w) ELSE w
  BY DEF IInv, FilledIn
<1>2. ASSUME NEW base, NEW o \in {Signature, KeyLength}
      PROVE  Get(dicts[d], o, base) = Get(w, o, base)
  <2>1. Get(WithClaimsOff(w), o, base) = Get(w, o, base)
    BY <1>t, HeldFacts
  <2> QED BY <1>1, <2>1
<1>3. spent' = IF Get(w, Signature, TRUE) THEN spent ELSE spent \cup {d}
  BY DEF Spend
<1>4. Get(w, Signature, TRUE) \in BOOLEAN
  BY <1>t, OptionsFacts
<1>5. dicts'[d] = Fill(dicts[d])
  BY <1>t
<1> HIDE DEF w
<1>6. dicts'[d] = IF d \in spent' THEN WithClaimsOff(w) ELSE w
  <2>1. CASE Get(w, Signature, TRUE)
    BY <1>1, <1>2, <1>3, <1>5, <2>1 DEF Fill
  <2>2. CASE ~Get(w, Signature, TRUE)
    <3>1. dicts'[d] = WithClaimsOff(dicts[d])
      BY <1>2, <1>5, <2>2 DEF Fill
    <3>2. WithClaimsOff(dicts[d]) = WithClaimsOff(w)
      BY <1>t, <1>1, OffFacts
    <3> QED BY <1>3, <2>2, <3>1, <3>2
  <2> QED BY <2>1, <2>2
<1>7. d \in spent' <=> d \in spent \/ ~Get(w, Signature, TRUE)
  BY <1>3, <1>4
<1>8. /\ dicts'[d] \in Options
      /\ \A base : \A c \in Claims :
            Get(dicts'[d], c, base) = IF c \in DOMAIN w THEN w[c]
                                      ELSE IF d \in spent' THEN FALSE ELSE base
      /\ \A base : \A o \in {Signature, KeyLength} : Get(dicts'[d], o, base) = Get(w, o, base)
  <2>1. CASE d \in spent'
    <3>1. dicts'[d] = WithClaimsOff(w)
      BY <1>6, <2>1
    <3>2. WithClaimsOff(w) \in Options
      BY <1>t, OffFacts
    <3>3. ASSUME NEW c \in Claims, NEW base
          PROVE  /\ c \in DOMAIN w => Get(WithClaimsOff(w), c, base) = w[c]
                 /\ c \notin DOMAIN w => Get(WithClaimsOff(w), c, base) = FALSE
      BY <1>t, HeldFacts
    <3>4. ASSUME NEW o \in {Signature, KeyLength}, NEW base
          PROVE  Get(WithClaimsOff(w), o, base) = Get(w, o, base)
      BY <1>t, HeldFacts
    <3> HIDE DEF KeyLength, Signature
    <3> QED BY <2>1, <3>1, <3>2, <3>3, <3>4
  <2>2. CASE d \notin spent'
    BY <1>t, <1>6, <2>2 DEF Get
  <2> QED BY <2>1, <2>2
<1>9. FilledIn'
  <2>1. ASSUME NEW e \in Dicts, e # d
        PROVE  dicts'[e] = IF e \in spent' THEN WithClaimsOff(written[e]) ELSE written[e]
    BY <1>t, <1>3, <2>1 DEF IInv, FilledIn
  <2> QED BY <1>6, <2>1 DEF FilledIn, w
<1>10. dicts' \in [Dicts -> Options] /\ spent' \subseteq Dicts
  BY <1>t, <1>3, <1>5, <1>8
<1>11. ASSUME NEW base, NEW c \in Claims
       PROVE  Get(dicts'[d], c, base) =
                IF c \in DOMAIN w THEN w[c]
                ELSE IF d \in spent \/ ~Get(w, Signature, TRUE) THEN FALSE ELSE base
  <2>1. Get(dicts'[d], c, base) = IF c \in DOMAIN w THEN w[c]
                                  ELSE IF d \in spent' THEN FALSE ELSE base
    BY <1>8
  <2> QED BY <1>7, <2>1
<1> QED BY <1>2, <1>8, <1>9, <1>10, <1>11 DEF w

\* Wishes keep their type.
LEMMA WishesType ==
    ASSUME NEW d \in Dicts, NEW base \in Wishes, NEW keyLength \in BOOLEAN,
           written[d] \in Options
    PROVE  WishesOf(d, base, keyLength) \in Wishes
<1>1. ClaimsOf(d, base) \in SUBSET Claims
  BY DEF ClaimsOf
<1>2. base.reused \/ Reused(d) \in BOOLEAN
  BY DEF Wishes, Reused
<1>3. (base.reused \/ Reused(d)) \in BOOLEAN
  BY OptionsFacts DEF Wishes, Reused
<1> QED BY <1>1, <1>3 DEF WishesOf, Wishes

\* A new object takes its options from the defaults and the dictionary.
LEMMA ConstructStep ==
    ASSUME IInv, ConstructDefault \/ \E d \in Dicts : Construct(d)
    PROVE  IInv'
<1>1. ASSUME ConstructDefault PROVE IInv'
  <2>1. SigOptions(DefaultOptions) \in [{Signature, KeyLength} -> BOOLEAN]
    BY DefaultFacts, SigOptionsType
  <2>2. TypeOK'
    BY <1>1, <2>1, DefaultFacts DEF ConstructDefault, IInv, TypeOK
  <2>3. FilledIn'
    BY <1>1 DEF ConstructDefault, IInv, FilledIn
  <2>4. ObjectOK'
    BY <1>1, DefaultFacts DEF ConstructDefault, ObjectOK, DefaultWishes, SigOptions
  <2> QED BY <1>1, <2>2, <2>3, <2>4, LastStays DEF ConstructDefault, IInv
<1>2. ASSUME NEW d \in Dicts, Construct(d) PROVE IInv'
  <2>1. /\ dicts' = [dicts EXCEPT ![d] = Fill(dicts[d])]
        /\ options' = Update(DefaultOptions, dicts'[d])
        /\ sig' = SigOptions(options')
        /\ object' = WishesOf(d, DefaultWishes, Get(written[d], KeyLength, FALSE))
        /\ Spend(d)
        /\ UNCHANGED <<last, written>>
    BY <1>2 DEF Construct, ObjectOf
  <2>t. written[d] \in Options
    BY DEF IInv, TypeOK
  <2>2. /\ dicts' \in [Dicts -> Options] /\ spent' \subseteq Dicts
        /\ FilledIn'
        /\ \A base : \A c \in Claims :
              Get(dicts'[d], c, base) =
                 IF c \in DOMAIN written[d] THEN written[d][c]
                 ELSE IF d \in spent \/ ~Get(written[d], Signature, TRUE) THEN FALSE
                 ELSE base
        /\ \A base : Get(dicts'[d], KeyLength, base) = Get(written[d], KeyLength, base)
    BY <2>1, FillStep
  <2>3. /\ options' \in FullOptions
        /\ \A o \in Names : options'[o] = Get(dicts'[d], o, DefaultOptions[o])
    <3>1. dicts'[d] \in Options
      BY <2>2
    <3>2. DOMAIN DefaultOptions = Names
      BY DefaultFacts DEF DefaultOptions
    <3>3. DefaultOptions \in FullOptions /\ DefaultOptions \in Options
      BY DefaultFacts
    <3>4. DOMAIN dicts'[d] \subseteq Names
      BY <3>1, OptionsFacts
    <3>5. Update(DefaultOptions, dicts'[d]) \in FullOptions
      BY <3>1, <3>3, UpdateFacts
    <3>6. \A o \in Names : Update(DefaultOptions, dicts'[d])[o]
                              = Get(dicts'[d], o, DefaultOptions[o])
      BY <3>1, <3>2, <3>3, <3>4, UpdateFacts
    <3> QED BY <2>1, <3>5, <3>6
  <2>4. sig' \in [{Signature, KeyLength} -> BOOLEAN]
    BY <2>1, <2>3, SigOptionsType
  <2>5. object' \in Wishes
    BY <2>1, <2>t, OptionsFacts, DefaultFacts, WishesType
  <2>6. TypeOK'
    BY <2>1, <2>2, <2>3, <2>4, <2>5 DEF IInv, TypeOK
  <2>7. sig'[KeyLength] = object'.keyLength
    <3>1. sig'[KeyLength] = Get(dicts'[d], KeyLength, DefaultOptions[KeyLength])
      BY <2>1, <2>3 DEF SigOptions, Names
    <3>2. DefaultOptions[KeyLength] = FALSE
      BY DEF DefaultOptions, Names
    <3> QED BY <2>1, <2>2, <3>1, <3>2 DEF WishesOf
  <2>8. ASSUME NEW c \in Claims
        PROVE  options'[c] = IF c \in DOMAIN written[d] THEN written[d][c]
                             ELSE IF d \in spent \/ ~Get(written[d], Signature, TRUE) THEN FALSE
                             ELSE DefaultOptions[c]
    <3>1. options'[c] = Get(dicts'[d], c, DefaultOptions[c])
      BY <2>3 DEF Names
    <3> QED BY <2>2, <3>1
  <2>9. /\ {c \in Claims : DefaultOptions[c]} = DefaultWishes.claims
        /\ \A c \in Claims : DefaultOptions[c] \in BOOLEAN
    BY DefaultFacts DEF DefaultWishes, DefaultOptions, Names
  <2>10. /\ {c \in Claims : options'[c]} \subseteq ClaimsOf(d, DefaultWishes)
         /\ \/ DefaultWishes.reused \/ Reused(d)
            \/ {c \in Claims : options'[c]} = ClaimsOf(d, DefaultWishes)
    BY <2>t, <2>8, <2>9, DefaultFacts, WishesFacts, ZenonT(60)
  <2>11. ObjectOK'
    BY <2>1, <2>7, <2>10 DEF ObjectOK, WishesOf
  <2> QED BY <2>1, <2>2, <2>6, <2>11, LastStays DEF IInv
<1> QED BY <1>1, <1>2

\* A decode verifies what its dictionary and the object say.
LEMMA DecodeStep ==
    ASSUME IInv, DecodeDefault \/ \E d \in Dicts : Decode(d)
    PROVE  IInv'
<1>t. /\ options \in FullOptions /\ options \in Options
      /\ \A c \in Claims : options[c] \in BOOLEAN
      /\ sig[KeyLength] \in BOOLEAN
      /\ object \in Wishes /\ object.keyLength \in BOOLEAN
  BY IsOptions DEF IInv, TypeOK, FullOptions, Names, Wishes
<1>o. /\ {c \in Claims : options[c]} \subseteq object.claims
      /\ object.reused \/ {c \in Claims : options[c]} = object.claims
      /\ sig[KeyLength] = object.keyLength
  BY DEF IInv, ObjectOK
<1>1. ASSUME DecodeDefault PROVE IInv'
  <2>1. /\ last' = Verified(TRUE, options, EmptyDict, object)
        /\ UNCHANGED <<dicts, options, sig, written, spent, object>>
    BY <1>1 DEF DecodeDefault
  <2>2. TypeOK'
    BY <1>t, <2>1, DefaultFacts DEF IInv, TypeOK, Verified
  <2>3. SignatureUnlessAsked' /\ ExplicitClaimsHold'
    BY <2>1, DefaultFacts DEF SignatureUnlessAsked, ExplicitClaimsHold, Verified, Get
  <2>4. DefaultsFollowSignature' /\ KeyLengthIsTheObjects'
    BY <1>o, <2>1 DEF DefaultsFollowSignature, KeyLengthIsTheObjects, Verified
  <2>5. FilledIn'
    BY <2>1 DEF IInv, FilledIn
  <2> QED BY <2>1, <2>2, <2>3, <2>4, <2>5, ObjectStays DEF IInv
<1>2. ASSUME NEW d \in Dicts, Decode(d) PROVE IInv'
  <2> DEFINE full == Update(options, dicts'[d])
             wishes == WishesOf(d, object, object.keyLength)
  <2>1. /\ dicts' = [dicts EXCEPT ![d] = Fill(dicts[d])]
        /\ last' = Verified(Get(dicts[d], Signature, TRUE), full, written[d], wishes)
        /\ Spend(d)
        /\ UNCHANGED <<options, sig, written, object>>
    BY <1>2 DEF Decode
  <2>t. written[d] \in Options
    BY DEF IInv, TypeOK
  <2>2. /\ dicts' \in [Dicts -> Options] /\ spent' \subseteq Dicts
        /\ FilledIn'
        /\ \A base : \A c \in Claims :
              Get(dicts'[d], c, base) =
                 IF c \in DOMAIN written[d] THEN written[d][c]
                 ELSE IF d \in spent \/ ~Get(written[d], Signature, TRUE) THEN FALSE
                 ELSE base
        /\ Get(dicts[d], Signature, TRUE) = Get(written[d], Signature, TRUE)
    BY <2>1, FillStep
  <2>3. \A c \in Claims :
           full[c] = IF c \in DOMAIN written[d] THEN written[d][c]
                     ELSE IF d \in spent \/ ~Get(written[d], Signature, TRUE) THEN FALSE
                     ELSE options[c]
    <3>1. dicts'[d] \in Options
      BY <2>2
    <3>2. Claims \subseteq DOMAIN options
      BY <1>t DEF FullOptions, Names
    <3>3. ASSUME NEW c \in Claims PROVE full[c] = Get(dicts'[d], c, options[c])
      <4>1. c \in DOMAIN options \cup DOMAIN dicts'[d] /\ options \in Options
        BY <1>t, <3>2
      <4> QED BY <3>1, <4>1, UpdateFacts
    <3> HIDE DEF full
    <3> QED BY <2>2, <3>3
  <2> HIDE DEF full
  <2>4. /\ {c \in Claims : full[c]} \subseteq ClaimsOf(d, object)
        /\ object.reused \/ Reused(d) \/ {c \in Claims : full[c]} = ClaimsOf(d, object)
        /\ \A c \in Claims : full[c] \in BOOLEAN
    <3>1. object \in Wishes /\ \A c \in Claims : options[c] \in BOOLEAN
      BY <1>t
    <3>2. /\ {c \in Claims : options[c]} \subseteq object.claims
          /\ object.reused \/ {c \in Claims : options[c]} = object.claims
      BY <1>o
    <3> QED BY <2>t, <2>3, <3>1, <3>2, WishesFacts, ZenonT(60)
  <2>5. wishes \in Wishes
    BY <1>t, <2>t, WishesType
  <2>w. /\ wishes.claims = ClaimsOf(d, object)
        /\ wishes.reused = (object.reused \/ Reused(d))
        /\ wishes.keyLength = object.keyLength
    BY DEF WishesOf
  <2> HIDE DEF wishes
  <2>6. /\ last'.signature = Get(written[d], Signature, TRUE)
        /\ last'.keyLength = sig[KeyLength]
        /\ last'.claims = {c \in Claims : full[c]}
        /\ last'.asked = written[d]
        /\ last'.wishes = wishes
        /\ last' = [signature |-> Get(written[d], Signature, TRUE), keyLength |-> sig[KeyLength],
                    claims |-> {c \in Claims : full[c]}, asked |-> written[d],
                    wishes |-> wishes]
    BY <2>1, <2>2 DEF Verified
  <2>7. TypeOK'
    <3>1. Get(written[d], Signature, TRUE) \in BOOLEAN
      BY <2>t, OptionsFacts
    <3>2. {c \in Claims : full[c]} \in SUBSET Claims
      OBVIOUS
    <3>3. last' \in [signature : BOOLEAN, keyLength : BOOLEAN, claims : SUBSET Claims,
                     asked : Options, wishes : Wishes]
      BY <1>t, <2>t, <2>5, <2>6, <3>1, <3>2
    <3> QED BY <2>1, <2>2, <3>3 DEF IInv, TypeOK
  <2>8. SignatureUnlessAsked'
    BY <2>6 DEF SignatureUnlessAsked, Get
  <2>9. ExplicitClaimsHold'
    BY <2>3, <2>4, <2>6 DEF ExplicitClaimsHold
  <2>10. DefaultsFollowSignature'
    BY <2>4, <2>6, <2>w DEF DefaultsFollowSignature
  <2>11. KeyLengthIsTheObjects'
    BY <1>o, <2>6, <2>w DEF KeyLengthIsTheObjects
  <2> QED BY <2>1, <2>2, <2>7, <2>8, <2>9, <2>10, <2>11, ObjectStays DEF IInv
<1> QED BY <1>1, <1>2

\* Every step keeps the invariant.
LEMMA IInvStep == IInv /\ [Next]_vars => IInv'
<1>1. ASSUME IInv, UNCHANGED vars PROVE IInv'
  <2>1. TypeOK'
    BY <1>1 DEF vars, IInv, TypeOK
  <2>2. FilledIn'
    BY <1>1 DEF vars, IInv, FilledIn
  <2> QED BY <1>1, <2>1, <2>2, LastStays, ObjectStays DEF IInv, vars
<1> QED BY <1>1, NewDictStep, SetOptionStep, ConstructStep, DecodeStep DEF Next

\* Every reachable state satisfies the inductive invariant.
THEOREM InductiveInvariant == Spec => []IInv
BY InitIInv, IInvStep, PTL DEF Spec

\* The options of the program, the object and the calls keep their types.
THEOREM OptionTypes == Spec => []TypeOK
<1>1. IInv => TypeOK
  BY DEF IInv
<1> QED BY <1>1, InductiveInvariant, PTL

\* No object and no earlier call switches the signature check of a decode off
\* (api_jwt.py:240-243, 259-261).
THEOREM SignatureIsVerified == Spec => []SignatureUnlessAsked
<1>1. IInv => SignatureUnlessAsked
  BY DEF IInv
<1> QED BY <1>1, InductiveInvariant, PTL

\* What the program says of a claim in the dictionary of a call is what the
\* call does (api_jwt.py:80-88).
THEOREM ExplicitOptionsHold == Spec => []ExplicitClaimsHold
<1>1. IInv => ExplicitClaimsHold
  BY DEF IInv
<1> QED BY <1>1, InductiveInvariant, PTL

\* A decode verifies the claims its dictionary and the object ask for, those the
\* program has said nothing of with the signature, but for dictionaries that were
\* passed on with verify_signature=False and then set to True (api_jwt.py:75-88).
THEOREM ClaimsFollowSignature == Spec => []DefaultsFollowSignature
<1>1. IInv => DefaultsFollowSignature
  BY DEF IInv
<1> QED BY <1>1, InductiveInvariant, PTL

\* The key length policy of a decode is the one its object was built with
\* (api_jws.py:362).
THEOREM KeyLengthIsFixed == Spec => []KeyLengthIsTheObjects
<1>1. IInv => KeyLengthIsTheObjects
  BY DEF IInv
<1> QED BY <1>1, InductiveInvariant, PTL
=============================================================================
