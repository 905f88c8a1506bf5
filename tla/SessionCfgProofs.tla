--------------------------- MODULE SessionCfgProofs ---------------------------
(***************************************************************************)
(* Proofs about SessionCfg and BurnCaps, for any discs, plugins and drive  *)
(* settings: the types; that the window never shows a validity that is out *)
(* of date; and that a session that is imported is merged with.            *)
(*                                                                         *)
(* The loop over the flags is nine calls of one step, so that what a step  *)
(* keeps is kept by the loop: each lemma about the loop is nine uses of    *)
(* the lemma about a step.                                                 *)
(***************************************************************************)
EXTENDS SessionCfg, TLAPS

-----------------------------------------------------------------------------
(* The answers of BurnCaps have their types, whatever is asked.            *)

LEMMA FlagsAre ==
  Flag = {"NOGRACE", "MERGE", "MULTI", "APPEND", "BURNPROOF", "NO_TMP_FILES",
          "DUMMY", "BLANK", "FAST_BLANK", "DAO"}
<1>1. DOMAIN FlagOrder = 1 .. 10
  BY DEF FlagOrder
<1>2. Flag = {FlagOrder[k] : k \in {1, 2, 3, 4, 5, 6, 7, 8, 9, 10}}
  <2>1. 1 .. 10 = {1, 2, 3, 4, 5, 6, 7, 8, 9, 10}
    OBVIOUS
  <2> QED
    BY <1>1, <2>1 DEF Flag
<1> QED
  BY <1>2 DEF FlagOrder

LEMMA MasksAreFlags ==
  /\ BurnMask \subseteq Flag /\ ImageMask \subseteq Flag /\ BlankMask \subseteq Flag
  /\ Toggles \subseteq Flag
BY FlagsAre DEF BurnMask, ImageMask, BlankMask, Toggles

Answers == [ok : BOOLEAN, supported : SUBSET Flag, compulsory : SUBSET Flag]

LEMMA NothingIsAnAnswer == Nothing \in Answers
BY DEF Nothing, Answers

LEMMA SupportedType ==
  ASSUME NEW pairs, NEW mask \in SUBSET Flag
  PROVE  /\ Supported(pairs, mask) \subseteq mask
         /\ Supported(pairs, mask) \subseteq Flag /\ Compulsory(pairs, mask) \subseteq Flag
BY DEF Supported, Compulsory

LEMMA DataFlagsType ==
  ASSUME NEW ps, NEW m, NEW flags
  PROVE  DataFlags(ps, m, flags) \subseteq ImageMask
BY DEF DataFlags, Supported

LEMMA FlagsForDiscType ==
  ASSUME NEW m, NEW input, NEW plugins, NEW flags
  PROVE  FlagsForDisc(m, input, plugins, flags) \in Answers
<1>1. ASSUME NEW pairs, NEW data \in SUBSET ImageMask, NEW only
      PROVE  Together(pairs, data, only) \in Answers
  <2>1. Supported(pairs, BurnMask) \cup data \cup {"NO_TMP_FILES"} \in SUBSET Flag
    BY SupportedType, MasksAreFlags, FlagsAre
  <2>2. Compulsory(pairs, BurnMask) \cup (IF only THEN {"NO_TMP_FILES"} ELSE {}) \in SUBSET Flag
    BY SupportedType, MasksAreFlags, FlagsAre
  <2> QED
    BY <2>1, <2>2 DEF Together, Answers
<1>2. ASSUME NEW ways PROVE OnWays(ways, m, input, plugins, flags) \in Answers
  <2> DEFINE data == UNION {DataFlags(IF w = "data" THEN Recorders(m, w, plugins)
                                      ELSE Makers(w, input, plugins), m, flags) : w \in ways}
  <2>1. data \in SUBSET ImageMask
    BY DataFlagsType
  <2> HIDE DEF data
  <2>2. \A pairs, only : Together(pairs, data, only) \in Answers
    BY <1>1, <2>1
  <2> QED
    BY <2>2, NothingIsAnAnswer DEF OnWays, data
<1> QED
  BY <1>2 DEF FlagsForDisc

LEMMA BlankingFlagsType ==
  ASSUME NEW m, NEW plugins, NEW flags
  PROVE  BlankingFlags(m, plugins, flags) \in Answers
<1>1. ASSUME NEW pairs, NEW whole PROVE Erasing(pairs, whole) \in Answers
  <2>1. Supported(pairs, BlankMask) \ (IF whole THEN {"FAST_BLANK"} ELSE {}) \in SUBSET Flag
    BY SupportedType, MasksAreFlags
  <2>2. Compulsory(pairs, BlankMask) \in SUBSET Flag
    BY SupportedType, MasksAreFlags
  <2> QED
    BY <2>1, <2>2, NothingIsAnAnswer DEF Erasing, Answers
<1> QED
  BY <1>1, NothingIsAnAnswer DEF BlankingFlags

LEMMA FlagsForMediumType ==
  ASSUME NEW m, NEW input, NEW plugins, NEW flags
  PROVE  FlagsForMedium(m, input, plugins, flags) \in Answers
<1>1. ASSUME NEW a \in Answers, NEW b \in Answers, NEW c \in Answers
      PROVE  Joined(a, b, c) \in Answers
  BY FlagsAre DEF Joined, Answers
<1>2. ASSUME NEW r \in Answers PROVE Settled(m, flags, r) \in Answers
  <2> DEFINE lost == (IF "BLANK" \in flags THEN ImageMask ELSE {})
             slow == (IF m.kind = "DVDRW" /\ "MULTI" \in flags THEN {"FAST_BLANK"} ELSE {})
             quick == m.kind = "DVDRW" /\ ~("MULTI" \in flags) /\ {"BLANK", "FAST_BLANK"} \subseteq flags
  <2>1. (r.supported \ lost) \ slow \in SUBSET Flag
    BY DEF Answers
  <2>2. (r.compulsory \ lost) \cup (IF quick THEN {"DAO"} ELSE {}) \in SUBSET Flag
    BY FlagsAre DEF Answers
  <2> QED
    BY <2>1, <2>2, NothingIsAnAnswer DEF Settled, Answers
<1> QED
  BY <1>1, <1>2, FlagsForDiscType, BlankingFlagsType, NothingIsAnAnswer DEF FlagsForMedium

\* What the cfg is told, for any disc in the drive.
LEMMA OfferType ==
  ASSUME NEW g, NEW flags
  PROVE  Offer(g, flags) \in Answers
<1>1. ASSUME NEW disc, NEW r \in Answers PROVE ForDrive(disc, r) \in Answers
  <2>1. \A s, t : t \in SUBSET Flag => [r EXCEPT !.supported = @ \ s, !.compulsory = @ \cup t] \in Answers
    BY DEF Answers
  <2>2. \A b : (IF b THEN {"DAO"} ELSE {}) \in SUBSET Flag
    BY FlagsAre
  <2> QED
    BY <2>1, <2>2 DEF ForDrive
<1>2. ASSUME NEW disc, NEW r \in Answers PROVE Answer(disc, r) \in Answers
  <2>1. [r EXCEPT !.supported = @ \cup {"NOGRACE"}] \in Answers
    BY FlagsAre DEF Answers
  <2> QED
    BY <1>1, <2>1, NothingIsAnAnswer DEF Answer
<1>3. \A disc, input, plugins : BurnFlags(disc, input, plugins, flags) \in Answers
  BY <1>2, FlagsForMediumType, NothingIsAnAnswer DEF BurnFlags
<1> QED
  BY <1>3, FlagsAre DEF Offer, Answers

-----------------------------------------------------------------------------
(* The flags of a session are those of its type, however they are set.     *)

Cfgs == [flags : SUBSET Flag, supported : SUBSET Flag, compulsory : SUBSET Flag]

LEMMA AskedIs ==
  ASSUME NEW g, NEW flags \in SUBSET Flag
  PROVE  /\ Asked(g, flags) \in Cfgs /\ Asked(g, flags).flags = flags
         /\ Asked(g, flags).supported = Offer(g, flags).supported
         /\ Asked(g, flags).compulsory = Offer(g, flags).compulsory
BY OfferType DEF Asked, Session, Cfgs, Answers

LEMMA WithIs ==
  ASSUME NEW g, NEW c \in Cfgs, NEW flags \in SUBSET Flag
  PROVE  /\ With(g, c, flags) = Asked(g, c.flags \cup flags)
         /\ With(g, c, flags) \in Cfgs /\ With(g, c, flags).flags = c.flags \cup flags
<1>1. c.flags \cup flags \in SUBSET Flag
  BY DEF Cfgs
<1> QED
  BY <1>1, AskedIs DEF With

LEMMA SetEachIs ==
  ASSUME NEW g, NEW new, NEW c
  PROVE  SetEach(g, new, c)
           = SetFlag(g, new, SetFlag(g, new, SetFlag(g, new, SetFlag(g, new, SetFlag(g, new,
               SetFlag(g, new, SetFlag(g, new, SetFlag(g, new, SetFlag(g, new, c,
                 "MERGE"), "MULTI"), "APPEND"), "BURNPROOF"), "NO_TMP_FILES"),
                 "DUMMY"), "BLANK"), "FAST_BLANK"), "DAO")
BY DEF SetEach, EachFlag

\* A set of settings the first step comes to, and every step stays in, is one
\* the loop comes to.
LEMMA LoopStays ==
  ASSUME NEW g, NEW new, NEW S, \A c \in S : \A f \in Flag : SetFlag(g, new, c, f) \in S,
         NEW c, SetFlag(g, new, c, "MERGE") \in S
  PROVE  SetEach(g, new, c) \in S
<1>0. \A d \in S : /\ SetFlag(g, new, d, "MERGE") \in S /\ SetFlag(g, new, d, "MULTI") \in S
                   /\ SetFlag(g, new, d, "APPEND") \in S /\ SetFlag(g, new, d, "BURNPROOF") \in S
                   /\ SetFlag(g, new, d, "NO_TMP_FILES") \in S /\ SetFlag(g, new, d, "DUMMY") \in S
                   /\ SetFlag(g, new, d, "BLANK") \in S /\ SetFlag(g, new, d, "FAST_BLANK") \in S
                   /\ SetFlag(g, new, d, "DAO") \in S
  BY FlagsAre
<1>1. SetFlag(g, new, SetFlag(g, new, SetFlag(g, new, c, "MERGE"), "MULTI"), "APPEND") \in S
  BY <1>0
<1>2. \A d \in S : SetFlag(g, new, SetFlag(g, new, SetFlag(g, new, d, "BURNPROOF"), "NO_TMP_FILES"),
                    "DUMMY") \in S
  BY <1>0
<1>3. \A d \in S : SetFlag(g, new, SetFlag(g, new, SetFlag(g, new, d, "BLANK"), "FAST_BLANK"), "DAO") \in S
  BY <1>0
<1> QED
  BY <1>1, <1>2, <1>3, SetEachIs

LEMMA SetFlagType ==
  ASSUME NEW g, NEW new, NEW c \in Cfgs, NEW f \in Flag
  PROVE  /\ AddCompulsory(g, c) \in Cfgs /\ AddSupported(g, c, f) \in Cfgs
         /\ SetFlag(g, new, c, f) \in Cfgs
<1>1. \A d \in Cfgs : d.compulsory \in SUBSET Flag /\ {f} \in SUBSET Flag
  BY DEF Cfgs
<1>2. \A d \in Cfgs : AddCompulsory(g, d) \in Cfgs
  BY <1>1, WithIs DEF AddCompulsory
<1>3. \A d \in Cfgs : AddSupported(g, d, f) \in Cfgs
  BY <1>1, WithIs DEF AddSupported
<1> QED
  BY <1>2, <1>3 DEF SetFlag

LEMMA DefaultFlagsType ==
  ASSUME NEW g, NEW c \in Cfgs
  PROVE  DefaultFlags(g, c) \in Cfgs
<1>1. MultiFirst(g, c) \in Cfgs
  BY WithIs, FlagsAre DEF MultiFirst
<1>2. ASSUME NEW d \in Cfgs PROVE BlankFirst(g, d) \in Cfgs
  <2>1. {"BLANK"} \cup (IF g.disc.status = "unformatted" THEN {}
                        ELSE d.supported \cap {"FAST_BLANK"}) \in SUBSET Flag
    BY FlagsAre
  <2> QED
    BY <2>1, WithIs DEF BlankFirst
<1> QED
  BY <1>1, <1>2 DEF DefaultFlags

LEMMA SetFlagsType ==
  ASSUME NEW g, NEW c \in Cfgs, NEW new \in SUBSET Flag
  PROVE  SetFlags(g, c, new) \in Cfgs
<1> DEFINE e == SetEach(g, new, Asked(g, {}))
           d == IF "DAO" \in c.flags THEN AddSupported(g, e, "DAO") ELSE e
<1>1. e \in Cfgs
  <2>1. \A b \in Cfgs : \A f \in Flag : SetFlag(g, new, b, f) \in Cfgs
    BY SetFlagType
  <2>2. Asked(g, {}) \in Cfgs
    BY AskedIs
  <2> QED
    BY <2>1, <2>2, LoopStays, FlagsAre
<1>2. d \in Cfgs
  BY <1>1, SetFlagType, FlagsAre
<1>3. SetFlags(g, c, new) = CASE g.disc = Empty -> c
        [] g.disc # Empty /\ ~Offer(g, {}).ok -> Refused(c, new)
        [] OTHER -> WithGrace(DefaultFlags(g, d))
  BY DEF SetFlags
<1> HIDE DEF d
<1>4. Refused(c, new) \in Cfgs
  BY DEF Refused, Cfgs
<1>5. \A b \in Cfgs : WithGrace(b) \in Cfgs
  BY FlagsAre DEF WithGrace, Cfgs
<1>6. WithGrace(DefaultFlags(g, d)) \in Cfgs
  BY <1>2, <1>5, DefaultFlagsType
<1> QED
  BY <1>3, <1>4, <1>6

LEMMA CheckType ==
  ASSUME NEW g, NEW c \in Cfgs
  PROVE  CheckDriveSettings(g, c) \in Cfgs
BY SetFlagsType DEF CheckDriveSettings, Cfgs

-----------------------------------------------------------------------------
(* The types of the variables.                                             *)

DiscsToo == Discs \cup {File, Empty}
Validities == {"EMPTY", "FILE", "NO_OUTPUT", "NOT_SUPPORTED", "INSUFFICIENT_SPACE", "VALID"}

LEMMA ValidityType == \A g, flags : Validity(g, flags) \in Validities
BY DEF Validity, Validities

LEMMA BoundType ==
  ASSUME NEW flags \in SUBSET Flag, NEW stored \in Stored
  PROVE  Bound(flags, stored) \in SUBSET Flag
BY StoredAssumption, FlagsAre DEF Bound, Unset, Toggles

LEMMA InitType == Init => TypeOK
<1> SUFFICES ASSUME Init PROVE TypeOK
  OBVIOUS
<1>1. 0 \in 0 .. MaxSize
  BY SizeAssumption
<1>2. given \in [disc : Discs \cup {File, Empty}, input : Inputs \cup {"none"},
               size : 0..MaxSize, setup : Setups]
  BY <1>1 DEF Init
<1> QED
  BY <1>2 DEF Init, TypeOK

\* What a handler of the cfg does with settings of the right type.
LEMMA ConfigureType ==
  ASSUME NEW g, NEW c \in Cfgs, cfg \in Cfgs, is_valid \in Validities, Configure(g, c)
  PROVE  cfg' \in Cfgs /\ is_valid' \in Validities
BY ValidityType DEF Configure

LEMMA NextType == TypeOK /\ [Next]_vars => TypeOK'
<1> DEFINE Givens == [disc : DiscsToo, input : Inputs \cup {"none"}, size : 0 .. MaxSize, setup : Setups]
<1> SUFFICES ASSUME TypeOK, [Next]_vars PROVE TypeOK'
  OBVIOUS
<1>0. /\ given \in Givens /\ cfg \in Cfgs /\ is_valid \in Validities
      /\ imported \in {"no", "loaded", "unreadable"} /\ (imported # "no" => given.input = "data")
      /\ disabled \in BOOLEAN /\ pc \in {"edit", "properties", "burning", "closed"}
  BY DEF TypeOK, Cfgs, Validities, DiscsToo
<1>a. ASSUME given' \in Givens, cfg' \in Cfgs, is_valid' \in Validities,
             imported' \in {"no", "loaded", "unreadable"}, imported' # "no" => given'.input = "data",
             disabled' \in BOOLEAN, pc' \in {"edit", "properties", "burning", "closed"}
      PROVE  TypeOK'
  BY <1>a DEF TypeOK, Cfgs, Validities, DiscsToo
<1>b. \A g : CheckDriveSettings(g, cfg) \in Cfgs
  BY <1>0, CheckType
<1>1. ASSUME NEW i \in Inputs, NEW n \in 0 .. MaxSize, TrackAdded(i, n) PROVE TypeOK'
  <2>1. given' \in Givens /\ imported' = "no" /\ Configure(given', CheckDriveSettings(given', cfg))
    BY <1>0, <1>1 DEF TrackAdded, Inputs
  <2>2. cfg' \in Cfgs /\ is_valid' \in Validities
    BY <1>0, <1>b, <2>1, ConfigureType
  <2> QED
    BY <1>0, <1>1, <1>a, <2>1, <2>2 DEF TrackAdded
<1>2. CASE TrackRemoved
  <2>1. given' \in Givens
    <3>1. 0 \in 0 .. MaxSize
      BY SizeAssumption
    <3>2. given' = [given EXCEPT !.input = "none", !.size = 0]
      BY <1>2 DEF TrackRemoved
    <3> QED
      BY <1>0, <3>1, <3>2
  <2>2. imported' = "no" /\ Configure(given', cfg)
    BY <1>2 DEF TrackRemoved
  <2>3. cfg' \in Cfgs /\ is_valid' \in Validities
    BY <1>0, <2>2, ConfigureType
  <2> QED
    BY <1>0, <1>2, <1>a, <2>1, <2>2, <2>3 DEF TrackRemoved
<1>3. ASSUME NEW n \in 0 .. MaxSize, TrackChanged(n) PROVE TypeOK'
  <2>1. /\ given' \in Givens /\ given'.input = given.input
        /\ Configure(given', CheckDriveSettings(given', cfg))
    BY <1>0, <1>3 DEF TrackChanged
  <2>2. cfg' \in Cfgs /\ is_valid' \in Validities
    BY <1>0, <1>b, <2>1, ConfigureType
  <2> QED
    BY <1>0, <1>3, <1>a, <2>1, <2>2 DEF TrackChanged
<1>4. ASSUME NEW setup \in Setups, CapsChanged(setup) PROVE TypeOK'
  <2>1. /\ given' \in Givens /\ given'.input = given.input
        /\ Configure(given', CheckDriveSettings(given', cfg))
    BY <1>0, <1>4 DEF CapsChanged
  <2>2. cfg' \in Cfgs /\ is_valid' \in Validities
    BY <1>0, <1>b, <2>1, ConfigureType
  <2> QED
    BY <1>0, <1>4, <1>a, <2>1, <2>2 DEF CapsChanged
<1>5. ASSUME NEW d \in DiscsToo, OutputChanged(d) PROVE TypeOK'
  <2>1. /\ given' \in Givens /\ imported' = "no"
        /\ Configure(given', CheckDriveSettings(given', cfg))
    BY <1>0, <1>5 DEF OutputChanged
  <2>2. cfg' \in Cfgs /\ is_valid' \in Validities
    BY <1>0, <1>b, <2>1, ConfigureType
  <2> QED
    BY <1>0, <1>5, <1>a, <2>1, <2>2 DEF OutputChanged
<1>6. CASE SessionLoaded \/ SessionRemoved \/ SessionUnreadable
  <2>1. ASSUME NEW loaded \in BOOLEAN PROVE SessionFlags(given, loaded) \in Cfgs
    <3>1. cfg.flags \cup {"MERGE"} \in SUBSET Flag /\ cfg.flags \ {"MERGE"} \in SUBSET Flag
      BY <1>0, FlagsAre DEF Cfgs
    <3>2. /\ SetFlags(given, cfg, cfg.flags \cup {"MERGE"}) \in Cfgs
          /\ SetFlags(given, cfg, cfg.flags \ {"MERGE"}) \in Cfgs
      BY <1>0, <3>1, SetFlagsType
    <3> QED
      BY <1>0, <3>2, CheckType DEF SessionFlags
  <2>2. \E loaded \in BOOLEAN : Configure(given, SessionFlags(given, loaded))
    BY <1>6 DEF SessionLoaded, SessionRemoved, SessionUnreadable
  <2>3. cfg' \in Cfgs /\ is_valid' \in Validities
    BY <1>0, <2>1, <2>2, ConfigureType
  <2>4. /\ UNCHANGED << given, disabled, pc >> /\ imported' \in {"no", "loaded", "unreadable"}
        /\ imported' # "no" => given'.input = "data"
    BY <1>0, <1>6 DEF SessionLoaded, SessionRemoved, SessionUnreadable, Importable
  <2> QED
    BY <1>0, <1>a, <2>3, <2>4
<1>7. ASSUME NEW stored \in Stored, OpenProperties(stored) PROVE TypeOK'
  <2>1. cfg' \in Cfgs
    <3>1. cfg' = [cfg EXCEPT !.flags = Bound(cfg.flags, stored)] /\ Bound(cfg.flags, stored) \in SUBSET Flag
      BY <1>0, <1>7, BoundType DEF OpenProperties, Cfgs
    <3> QED
      BY <1>0, <3>1 DEF Cfgs
  <2> QED
    BY <1>0, <1>7, <1>a, <2>1 DEF OpenProperties
<1>8. ASSUME NEW f \in Toggles, AddFlags(f) PROVE TypeOK'
  <2>1. cfg.flags \cup {f} \in SUBSET Flag
    BY <1>0, MasksAreFlags DEF Cfgs
  <2>2. cfg' \in Cfgs /\ is_valid' \in Validities
    BY <1>0, <1>8, <2>1, SetFlagsType, ValidityType DEF AddFlags
  <2> QED
    BY <1>0, <1>8, <1>a, <2>2 DEF AddFlags
<1>9. ASSUME NEW f \in Toggles, RemoveFlags(f) PROVE TypeOK'
  <2>1. [cfg EXCEPT !.flags = @ \ {f}] \in Cfgs
    BY <1>0 DEF Cfgs
  <2>2. cfg' \in Cfgs /\ is_valid' \in Validities
    BY <1>9, <2>1, DefaultFlagsType, ValidityType DEF RemoveFlags
  <2> QED
    BY <1>0, <1>9, <1>a, <2>2 DEF RemoveFlags
<1>10. CASE CancelProperties \/ Burn \/ BurnEnd \/ UNCHANGED vars
  BY <1>0, <1>10, <1>a DEF CancelProperties, Burn, BurnEnd, vars
<1> QED
  BY <1>1, <1>2, <1>3, <1>4, <1>5, <1>6, <1>7, <1>8, <1>9, <1>10 DEF Next, DiscsToo

(***************************************************************************)
(* The variables have their types, and only a data track has a session     *)
(* imported, whatever the discs, the plugins and the stored settings.      *)
(***************************************************************************)
THEOREM CfgIsTyped == Spec => []TypeOK
<1> QED
  BY InitType, NextType, PTL DEF Spec

-----------------------------------------------------------------------------
(* What the window shows of the session is true of it.                     *)

\* What a validity looks at: the blanking it may try, and imported sessions.
LEMMA SameValidity ==
  ASSUME NEW g, NEW F, NEW G, F \cap ImageMask = G \cap ImageMask,
         \A m, ps : CanBlank(m, ps, F) <=> CanBlank(m, ps, G)
  PROVE  Validity(g, F) = Validity(g, G)
<1>1. Space(g, F) = Space(g, G)
  BY DEF Space
<1>2. \A disc, input, ps : CanBurn(disc, input, ps, F) <=> CanBurn(disc, input, ps, G)
  BY DEF CanBurn
<1> QED
  BY <1>1, <1>2 DEF Validity

\* All of the flags but MULTI that count for blanking are in BlankMask.
Erasable(m, ps, F) == \E p \in ps : Accepts(BlankFlags[p][m], BlankMask, F)
LEMMA CanBlankIs ==
  ASSUME NEW m, NEW ps, NEW F
  PROVE  CanBlank(m, ps, F) <=>
           ~(m.kind = "DVDRW" /\ {"MULTI", "FAST_BLANK"} \subseteq F) /\ Erasable(m, ps, F)
BY DEF CanBlank, Erasable

LEMMA SameErasable ==
  ASSUME NEW F, NEW G, F \cap BlankMask = G \cap BlankMask
  PROVE  \A m, ps : Erasable(m, ps, F) <=> Erasable(m, ps, G)
<1>1. \A pairs : Fitting(pairs, BlankMask, F) = Fitting(pairs, BlankMask, G)
  BY DEF Fitting
<1>2. \A q : q.compulsory \cap BlankMask \subseteq F <=> q.compulsory \cap BlankMask \subseteq G
  OBVIOUS
<1>3. \A pairs : Accepts(pairs, BlankMask, F) <=> Accepts(pairs, BlankMask, G)
  BY <1>1, <1>2 DEF Accepts
<1> QED
  BY <1>3 DEF Erasable

\* What can be burnt with MULTI can be without.
LEMMA ValidWithoutMulti ==
  ASSUME NEW g, g.disc \in DiscsToo, g.size \in Nat, NEW F, Validity(g, F) = "VALID"
  PROVE  Validity(g, F \ {"MULTI"}) = "VALID"
<1> DEFINE G == F \ {"MULTI"}  ps == Active(g.setup, TRUE)
<1>1. \A m, p : CanBlank(m, p, F) => CanBlank(m, p, G)
  <2>1. F \cap BlankMask = G \cap BlankMask
    BY DEF BlankMask
  <2> QED
    BY <2>1, SameErasable, CanBlankIs
<1>2. F \cap ImageMask = G \cap ImageMask
  BY DEF ImageMask
<1> HIDE DEF G
<1>3. /\ g.input # "none" /\ g.size > 0 /\ g.disc # File /\ g.disc # Empty
      /\ CanBurn(g.disc, g.input, ps, F) /\ g.size < Space(g, F)
  <2>1. g.input # "none" /\ g.size # 0 /\ g.size > 0
    <3>1. ~(g.input = "none" \/ g.size = 0)
      <4> SUFFICES ASSUME g.input = "none" \/ g.size = 0 PROVE FALSE
        OBVIOUS
      <4>1. ~(g.input # "none" /\ g.size > 0)
        OBVIOUS
      <4> QED
        BY <4>1 DEF Validity
    <3> QED
      BY <3>1
  <2>2. g.disc # File /\ g.disc # Empty
    BY <2>1 DEF Validity
  <2>3. Validity(g, F) = IF ~CanBurn(g.disc, g.input, ps, F) THEN "NOT_SUPPORTED"
                         ELSE IF g.size < Space(g, F) THEN "VALID" ELSE "INSUFFICIENT_SPACE"
    BY <2>1, <2>2 DEF Validity
  <2> QED
    BY <2>1, <2>2, <2>3
<1>4. CanBurn(g.disc, g.input, ps, G)
  BY <1>1, <1>3 DEF CanBurn
<1>5. g.disc.free \in Nat /\ g.disc.capacity \in Nat /\ g.disc.free <= g.disc.capacity
  BY <1>3, DiscsAssumption DEF DiscsToo
<1>6. g.size < Space(g, G)
  <2>1. Space(g, F) <= Space(g, G) /\ Space(g, F) \in Nat /\ Space(g, G) \in Nat
    <3>1. Space(g, F) = g.disc.free \/ Space(g, G) = g.disc.capacity \/ Space(g, G) = Space(g, F)
      BY <1>1, <1>2 DEF Space
    <3>2. \A K : Space(g, K) \in {g.disc.free, g.disc.capacity}
      BY DEF Space
    <3> QED
      BY <1>5, <3>1, <3>2
  <2> QED
    BY <1>3, <2>1
<1> QED
  BY <1>3, <1>4, <1>6 DEF Validity, G

\* MULTI on a DVD-RW that is to be blanked quickly is the one thing nobody
\* looks at: what is shown is then that of the session without it.
Shows(v, g, F) ==
  \/ v = Validity(g, F)
  \/ {"MULTI", "FAST_BLANK"} \subseteq F /\ v = Validity(g, F \ {"MULTI"})

\* The settings of the drive are bound to flags that can be burnt.
LEMMA BoundIsValid ==
  ASSUME NEW g, g.disc \in DiscsToo, g.size \in Nat, NEW F, NEW stored \in Stored, Shows("VALID", g, F)
  PROVE  Shows("VALID", g, Bound(F, stored))
<1> DEFINE G == Bound(F, stored)  H == G \ {"MULTI"}
<1>1. Validity(g, F \ {"MULTI"}) = "VALID"
  BY ValidWithoutMulti DEF Shows
<1>2. /\ H \cap ImageMask = (F \ {"MULTI"}) \cap ImageMask
      /\ H \cap BlankMask = (F \ {"MULTI"}) \cap BlankMask
  BY StoredAssumption DEF Bound, Toggles, Unset, ImageMask, BlankMask
<1> HIDE DEF G
<1>3. Validity(g, H) = "VALID"
  <2>1. \A m, ps : CanBlank(m, ps, H) <=> CanBlank(m, ps, F \ {"MULTI"})
    BY <1>2, SameErasable, CanBlankIs
  <2> QED
    BY <1>1, <1>2, <2>1, SameValidity
<1>4. CASE "MULTI" \notin G
  <2>1. H = G
    BY <1>4
  <2> QED
    BY <1>3, <2>1 DEF Shows, G
<1>5. CASE "MULTI" \in G /\ "FAST_BLANK" \in G
  BY <1>3, <1>5 DEF Shows, G
<1>6. CASE "FAST_BLANK" \notin G
  <2>1. H \cap ImageMask = G \cap ImageMask /\ H \cap BlankMask = G \cap BlankMask
    BY DEF ImageMask, BlankMask
  <2>2. \A m, ps : CanBlank(m, ps, H) <=> CanBlank(m, ps, G)
    BY <1>6, <2>1, SameErasable, CanBlankIs
  <2>3. Validity(g, G) = "VALID"
    BY <1>3, <2>1, <2>2, SameValidity
  <2> QED
    BY <2>3 DEF Shows, G
<1> QED
  BY <1>4, <1>5, <1>6

ShowsInv == ~disabled => Shows(is_valid, given, cfg.flags)

LEMMA InitShows == Init => ShowsInv
BY DEF Init, ShowsInv, Shows, Validity

LEMMA NextShows == TypeOK /\ ShowsInv /\ [Next]_vars => ShowsInv'
<1> SUFFICES ASSUME TypeOK, ShowsInv, [Next]_vars PROVE ShowsInv'
  OBVIOUS
<1>0. given.disc \in DiscsToo /\ given.size \in Nat /\ cfg \in Cfgs
  BY SizeAssumption DEF TypeOK, DiscsToo, Cfgs
<1>a. ASSUME NEW c, Configure(given', c), UNCHANGED disabled PROVE ShowsInv'
  BY <1>a DEF Configure, ShowsInv, Shows
<1>1. ASSUME NEW i \in Inputs, NEW n \in 0 .. MaxSize, TrackAdded(i, n) PROVE ShowsInv'
  BY <1>1, <1>a DEF TrackAdded
<1>2. CASE TrackRemoved
  BY <1>2, <1>a DEF TrackRemoved
<1>3. ASSUME NEW n \in 0 .. MaxSize, TrackChanged(n) PROVE ShowsInv'
  BY <1>3, <1>a DEF TrackChanged
<1>4. ASSUME NEW setup \in Setups, CapsChanged(setup) PROVE ShowsInv'
  BY <1>4, <1>a DEF CapsChanged
<1>5. ASSUME NEW d \in DiscsToo, OutputChanged(d) PROVE ShowsInv'
  BY <1>5, <1>a DEF OutputChanged
<1>6. CASE SessionLoaded \/ SessionRemoved \/ SessionUnreadable
  <2>1. UNCHANGED << given, disabled >> /\ \E c : Configure(given, c)
    BY <1>6 DEF SessionLoaded, SessionRemoved, SessionUnreadable
  <2> QED
    BY <1>a, <2>1
<1>7. ASSUME NEW stored \in Stored, OpenProperties(stored) PROVE ShowsInv'
  <2>1. /\ is_valid = "VALID" /\ UNCHANGED << given, is_valid, disabled >>
        /\ cfg'.flags = Bound(cfg.flags, stored)
    BY <1>0, <1>7 DEF OpenProperties, Cfgs
  <2> QED
    BY <1>0, <2>1, BoundIsValid DEF ShowsInv
<1>8. ASSUME NEW f \in Toggles, AddFlags(f) \/ RemoveFlags(f) PROVE ShowsInv'
  BY <1>8 DEF AddFlags, RemoveFlags, ShowsInv, Shows
<1>9. CASE Burn
  BY <1>9 DEF Burn, ShowsInv
<1>10. CASE CancelProperties \/ BurnEnd \/ UNCHANGED vars
  BY <1>10 DEF CancelProperties, BurnEnd, vars, ShowsInv, Shows
<1> QED
  BY <1>1, <1>2, <1>3, <1>4, <1>5, <1>6, <1>7, <1>8, <1>9, <1>10 DEF Next, DiscsToo

(***************************************************************************)
(* What the window shows of the session is still true of its disc, tracks, *)
(* plugins and flags, whatever changed last, but for a choice of several   *)
(* sessions bound to a disc that is to be blanked quickly.                 *)
(***************************************************************************)
THEOREM WhatIsShownIsTrue == Spec => []ValidityIsCurrent
<1>1. TypeOK /\ ShowsInv => ValidityIsCurrent
  BY DEF ShowsInv, Shows, ValidityIsCurrent
<1> QED
  BY InitType, NextType, InitShows, NextShows, <1>1, PTL DEF Spec

-----------------------------------------------------------------------------
(* What the tables of BurnCaps say of the discs an imported session is on, *)
(* and of the same discs once they are blank.                              *)

\* The discs with a session that can be followed.
Followed ==
  [kind : CD \cup {"DVDR", "DVDRW"}, status : {"appendable"}] \cup {Medium("DVDRW_PLUS", "closed")}

\* What a recorder cannot do without on them.
Needed(m) ==
  CASE m.kind \in {"CDR", "DVDR"}   -> {"APPEND"}
    [] m.kind \in {"CDRW", "DVDRW"} -> {"MERGE"}
    [] OTHER                        -> {"MULTI"}

LEMMA PluginsAre ==
  Plugins = {"libburn", "growisofs", "dvd_rw_format", "libisofs", "transcode", "wodim"}
BY DEF Plugins, Priority

LEMMA BlankedIs ==
  ASSUME NEW m \in Media
  PROVE  Blanked(m) \in Media /\ Blanked(m).status = "blank" /\ Blanked(m).kind = m.kind
         /\ m = [kind |-> m.kind, status |-> m.status]
BY DEF Media, Blanked, Medium, CD

LEMMA FollowedAreMedia ==
  ASSUME NEW m \in Followed
  PROVE  m \in Media /\ (m.kind # "DVDRW_PLUS" => m.status = "appendable")
         /\ (m.kind = "DVDRW_PLUS" => m.status = "closed")
         /\ Needed(m) \in {{"APPEND"}, {"MERGE"}, {"MULTI"}}
BY DEF Media, Medium, Followed, CD, Needed

\* Every pair of a plugin is a standard one, without a flag or two.
LEMMA PairsAreStandard ==
  ASSUME NEW p \in {"libburn", "growisofs"}, NEW m \in Media, NEW q \in PluginFlags[p][m]
  PROVE  \E s \in StandardFlags(m) :
           /\ s.supported \ {"DUMMY", "DAO"} \subseteq q.supported /\ q.supported \subseteq s.supported
           /\ q.compulsory = s.compulsory
<1>1. q \in LibburnFlags(m) \/ q \in GrowisofsFlags(m)
  BY PluginsAre DEF PluginFlags
<1>2. PICK lost \in SUBSET {"DUMMY", "DAO"} : q \in Without(StandardFlags(m), lost)
  <2>1. q \in Without(StandardFlags(m), {"DUMMY"}) \/ q \in Without(StandardFlags(m), {"DAO"})
          \/ q \in Without(StandardFlags(m), {})
    BY <1>1 DEF LibburnFlags, GrowisofsFlags
  <2> QED
    BY <2>1
<1>3. PICK s \in StandardFlags(m) : q = Pair(s.supported \ lost, s.compulsory)
  BY <1>2 DEF Without
<1> QED
  BY <1>3 DEF Pair

\* The standard pairs of a blank disc and of one that is followed.
LEMMA StandardOfBlank ==
  ASSUME NEW m \in Media, m.status = "blank", NEW s \in StandardFlags(m)
  PROVE  /\ "MERGE" \notin s.supported /\ "APPEND" \notin s.supported
         /\ s.compulsory \subseteq Needed(m)
BY DEF StandardFlags, First, Pair, Media, CD, Needed

LEMMA StandardOfFollowed ==
  ASSUME NEW m \in Followed, NEW s \in StandardFlags(m)
  PROVE  /\ "MERGE" \in s.supported /\ Needed(m) \subseteq s.supported
         /\ s.compulsory = Needed(m)
BY FollowedAreMedia DEF StandardFlags, Further, Pair, Followed, Medium, CD, Needed

\* A blank disc is not merged with, whatever the plugin.
LEMMA PairsOfBlank ==
  ASSUME NEW p \in Plugins, NEW m \in Media, m.status = "blank", NEW q \in PluginFlags[p][m]
  PROVE  /\ "MERGE" \notin q.supported /\ q.compulsory \subseteq Needed(m)
<1>1. CASE p \in {"libburn", "growisofs"}
  <2>1. PICK s \in StandardFlags(m) :
          /\ s.supported \ {"DUMMY", "DAO"} \subseteq q.supported /\ q.supported \subseteq s.supported
          /\ q.compulsory = s.compulsory
    BY <1>1, PairsAreStandard
  <2> QED
    BY <2>1, StandardOfBlank
<1>2. CASE p = "wodim"
  <2>1. q \in WodimFlags(m)
    BY <1>2, PluginsAre DEF PluginFlags
  <2>2. q \in StandardFlags(m) \/ q = Pair(First \ {"MULTI"}, {}) \/ q = Pair({"NOGRACE"}, {})
    BY <2>1 DEF WodimFlags
  <2> QED
    BY <2>2, StandardOfBlank DEF First, Pair
<1>3. CASE p \notin {"libburn", "growisofs", "wodim"}
  <2>1. PluginFlags[p][m] = {}
    BY <1>3, PluginsAre DEF PluginFlags, LibisofsFlags, Medium
  <2> QED
    BY <2>1
<1> QED
  BY <1>1, <1>2, <1>3

\* A disc that is followed is merged with by every plugin that records it.
LEMMA PairsOfFollowed ==
  ASSUME NEW p \in Plugins, NEW m \in Followed, Takes[p][m] # {}, NEW q \in PluginFlags[p][m]
  PROVE  /\ "MERGE" \in q.supported /\ Needed(m) \subseteq q.supported
         /\ q.compulsory = Needed(m)
<1>1. CASE p \in {"libburn", "growisofs"}
  <2>1. PICK s \in StandardFlags(m) :
          /\ s.supported \ {"DUMMY", "DAO"} \subseteq q.supported /\ q.supported \subseteq s.supported
          /\ q.compulsory = s.compulsory
    BY <1>1, FollowedAreMedia, PairsAreStandard
  <2> QED
    BY <2>1, StandardOfFollowed, FollowedAreMedia
<1>2. CASE p = "wodim"
  <2>1. q \in WodimFlags(m)
    BY <1>2, PluginsAre, FollowedAreMedia DEF PluginFlags
  <2>2. m.kind # "DVDRW_PLUS"
    BY <1>2, PluginsAre, FollowedAreMedia DEF Takes, CD, DVD
  <2>3. q \in StandardFlags(m)
    BY <2>1, <2>2, FollowedAreMedia DEF WodimFlags
  <2> QED
    BY <2>3, StandardOfFollowed
<1>3. CASE p \notin {"libburn", "growisofs", "wodim"}
  BY <1>3, PluginsAre, FollowedAreMedia DEF Takes
<1> QED
  BY <1>1, <1>2, <1>3

\* Files are recorded as they are by plugins that have flags for the disc.
LEMMA DataRecorders ==
  ASSUME NEW p \in Plugins, NEW m \in Media
  PROVE  /\ "data" \in Takes[p][m] => PluginFlags[p][m] # {}
         /\ Takes["transcode"][m] = {}
<1>1. Takes["transcode"][m] = {}
  BY PluginsAre DEF Takes
<1>2. ASSUME "data" \in Takes[p][m] PROVE PluginFlags[p][m] # {}
  <2>1. p = "growisofs" /\ m.kind \in DVD /\ (m.status \in {"blank", "appendable"} \/ m.kind = "DVDRW_PLUS")
    BY <1>2, PluginsAre DEF Takes, CD, DVD
  <2>2. StandardFlags(m) # {}
    BY <2>1 DEF StandardFlags, DVD, CD
  <2>3. GrowisofsFlags(m) # {}
    BY <2>1, <2>2 DEF GrowisofsFlags, Without, CD, DVD
  <2> QED
    BY <2>1, <2>3, PluginsAre DEF PluginFlags
<1> QED
  BY <1>1, <1>2

\* Blanking asks for no more than to be quick, and not for what is on the disc.
LEMMA BlankPairs ==
  ASSUME NEW p \in Plugins, NEW m \in Media
  PROVE  /\ BlankFlags[p][Blanked(m)] = BlankFlags[p][m]
         /\ \A q \in BlankFlags[p][m] : q.compulsory \subseteq {"FAST_BLANK"}
BY PluginsAre, BlankedIs DEF BlankFlags, Pair

-----------------------------------------------------------------------------
(* Whether a session can be merged with: some plugins write files after it.*)

CanFollow(g) == Ways(MediumOf(g.disc), "data", Active(g.setup, TRUE), {}) # {}

\* What is not allowed by default is not with flags either.
LEMMA WaysShrink ==
  ASSUME NEW m, NEW input, NEW ps, NEW F
  PROVE  Ways(m, input, ps, F) \subseteq Ways(m, input, ps, {})
<1>1. \A rs, w : LinkAllows(rs, w, m, F) => LinkAllows(rs, w, m, {})
  BY DEF LinkAllows
<1>2. \A rs, w : RecorderAllows(rs, w, m, F) => RecorderAllows(rs, w, m, {})
  BY <1>1 DEF RecorderAllows
<1> QED
  BY <1>1, <1>2 DEF Ways

LEMMA DiscAnswer ==
  ASSUME NEW m, NEW input, NEW ps, NEW F
  PROVE  /\ FlagsForDisc(m, input, ps, F).ok <=> Ways(m, input, ps, F) # {}
         /\ ~FlagsForDisc(m, input, ps, F).ok => FlagsForDisc(m, input, ps, F) = Nothing
         /\ FlagsForDisc(m, input, ps, F).ok \in BOOLEAN
BY DEF FlagsForDisc, OnWays, Together, Nothing

\* Whatever way is gone on a disc that is blank, it is not to merge.
LEMMA BlankNeverMerges ==
  ASSUME NEW m \in Media, m.status = "blank", NEW input, NEW ps \in SUBSET Plugins, NEW F
  PROVE  /\ "MERGE" \in F => ~FlagsForDisc(m, input, ps, F).ok
         /\ "MERGE" \notin FlagsForDisc(m, input, ps, F).supported
<1>1. \A rs \in SUBSET Plugins : \A q \in RecordPairs(rs, m, F) : "MERGE" \notin q.supported
  BY PairsOfBlank DEF RecordPairs, Fitting
<1>2. \A rs \in SUBSET Plugins : "MERGE" \notin DataFlags(rs, m, F)
  BY PairsOfBlank DEF DataFlags, Supported, Fitting
<1>3. \A w : Recorders(m, w, ps) \in SUBSET Plugins /\ Makers(w, input, ps) \in SUBSET Plugins
  BY DEF Recorders, Makers
<1>4. ASSUME "MERGE" \in F PROVE Ways(m, input, ps, F) = {}
  <2>1. \A w : ~RecorderAllows(Recorders(m, w, ps), w, m, F)
    BY <1>1, <1>3, <1>4 DEF RecorderAllows, Supported, BurnMask
  <2> QED
    BY <2>1 DEF Ways
<1>5. "MERGE" \notin FlagsForDisc(m, input, ps, F).supported
  <2> DEFINE W == Ways(m, input, ps, F)
             pairs == UNION {RecordPairs(Recorders(m, w, ps), m, F) : w \in W}
             data == UNION {DataFlags(IF w = "data" THEN Recorders(m, w, ps)
                                      ELSE Makers(w, input, ps), m, F) : w \in W}
  <2>1. "MERGE" \notin Supported(pairs, BurnMask)
    <3>1. \A q \in pairs : "MERGE" \notin q.supported
      BY <1>1, <1>3
    <3> HIDE DEF pairs
    <3> QED
      BY <3>1 DEF Supported
  <2>2. "MERGE" \notin data
    BY <1>2, <1>3
  <2>3. FlagsForDisc(m, input, ps, F) = IF W = {} THEN Nothing ELSE Together(pairs, data, W \subseteq {input})
    BY DEF FlagsForDisc, OnWays
  <2> HIDE DEF W, pairs, data
  <2> QED
    BY <2>1, <2>2, <2>3 DEF Together, Nothing
<1> QED
  BY <1>4, <1>5, DiscAnswer

\* What blanking first adds to what is compulsory.
LEMMA ErasingIs ==
  ASSUME NEW m \in Media, NEW ps \in SUBSET Plugins, NEW F, CanBlank(m, ps, F)
  PROVE  /\ BlankingFlags(Blanked(m), ps, F).supported \subseteq BlankMask
         /\ BlankingFlags(Blanked(m), ps, F).compulsory \subseteq {"FAST_BLANK"}
<1> DEFINE pairs == UNION {Fitting(BlankFlags[p][Blanked(m)], BlankMask, F) : p \in ps}
<1>1. PICK p \in ps : Accepts(BlankFlags[p][m], BlankMask, F)
  BY DEF CanBlank
<1>2. PICK q \in Fitting(BlankFlags[p][Blanked(m)], BlankMask, F) : TRUE
  BY <1>1, BlankPairs DEF Accepts
<1>3. q \in pairs
  BY <1>2
<1>4. \A r \in pairs : r.compulsory \subseteq {"FAST_BLANK"}
  BY BlankPairs DEF Fitting
<1> HIDE DEF pairs
<1>5. /\ Supported(pairs, BlankMask) \subseteq BlankMask
      /\ Compulsory(pairs, BlankMask) \subseteq {"FAST_BLANK"}
  BY <1>3, <1>4 DEF Supported, Compulsory
<1>6. \A whole : /\ Erasing(pairs, whole).supported \subseteq BlankMask
                 /\ Erasing(pairs, whole).compulsory \subseteq {"FAST_BLANK"}
  BY <1>5 DEF Erasing, Nothing
<1> QED
  BY <1>6 DEF BlankingFlags, pairs, Nothing

\* What the drive makes of an answer.
LEMMA OfferIs ==
  ASSUME NEW g, g.disc # File, g.input = "data", NEW F, Offer(g, F).ok
  PROVE  LET r == FlagsForMedium(MediumOf(g.disc), "data", Active(g.setup, TRUE), F) IN
         /\ r.ok
         /\ Offer(g, F).supported \subseteq r.supported \cup {"NOGRACE"}
         /\ Offer(g, F).compulsory \subseteq r.compulsory \cup {"DAO"}
<1> DEFINE r == FlagsForMedium(MediumOf(g.disc), "data", Active(g.setup, TRUE), F)
           x == [r EXCEPT !.supported = @ \cup {"NOGRACE"}]
<1>1. r \in Answers
  BY FlagsForMediumType
<1>2. Offer(g, F) = Answer(g.disc, r)
  BY DEF Offer, BurnFlags, Nothing
<1> HIDE DEF r
<1>3. Offer(g, F) = ForDrive(g.disc, x) /\ r.ok
  BY <1>2 DEF Answer, Nothing
<1>4. x \in Answers /\ x.supported = r.supported \cup {"NOGRACE"} /\ x.compulsory = r.compulsory
  BY <1>1, FlagsAre DEF Answers
<1> HIDE DEF x
<1>5. /\ ForDrive(g.disc, x).supported \subseteq x.supported
      /\ ForDrive(g.disc, x).compulsory \subseteq x.compulsory \cup {"DAO"}
  BY <1>4 DEF ForDrive, Answers
<1> QED
  BY <1>3, <1>4, <1>5 DEF r

\* A disc that can be merged with is one that can be written after its session.
LEMMA MergeMeansFollow ==
  ASSUME NEW g, MediumOf(g.disc) \in Media, g.disc # File, g.input = "data", g.setup \in Setups,
         NEW F, "MERGE" \in (F \cup Offer(g, F).supported \cup Offer(g, F).compulsory),
         Offer(g, F).ok
  PROVE  CanFollow(g)
<1> DEFINE m == MediumOf(g.disc)  ps == Active(g.setup, TRUE)
           d == FlagsForDisc(m, "data", ps, F)
           a == FlagsForDisc(Blanked(m), "data", ps, F)
           e == BlankingFlags(Blanked(m), ps, F)
           r == FlagsForMedium(m, "data", ps, F)
<1>0. ps \in SUBSET Plugins
  BY SetupsAssumption DEF Active
<1>1. d.ok => CanFollow(g)
  <2>1. Ways(m, "data", ps, F) \subseteq Ways(m, "data", ps, {})
    BY WaysShrink
  <2>2. d.ok => Ways(m, "data", ps, F) # {}
    BY DiscAnswer
  <2> QED
    BY <2>1, <2>2 DEF CanFollow
<1>2. a.ok => "MERGE" \notin F
  BY <1>0, BlankNeverMerges, BlankedIs
<1>3. "MERGE" \notin a.supported
  BY <1>0, BlankNeverMerges, BlankedIs
<1>4. CanBlank(m, ps, F) => "MERGE" \notin e.supported /\ "MERGE" \notin e.compulsory
  BY <1>0, ErasingIs DEF BlankMask
<1>5. ~d.ok => d = Nothing
  BY DiscAnswer
<1>6. r = IF CanBlank(m, ps, F) THEN Settled(m, F, Joined(d, a, e))
          ELSE IF "BLANK" \in F THEN Nothing ELSE Settled(m, F, d)
  BY DEF FlagsForMedium
<1> HIDE DEF m, ps, d, a, e, r
<1>7. ASSUME NEW j, Settled(m, F, j).ok
      PROVE  /\ j.ok /\ Settled(m, F, j).supported \subseteq j.supported
             /\ Settled(m, F, j).compulsory \subseteq j.compulsory \cup {"DAO"}
  BY <1>7 DEF Settled, Nothing
<1>8. ASSUME CanBlank(m, ps, F), ~d.ok
      PROVE  LET j == Joined(d, a, e) IN
             j.ok => "MERGE" \notin F /\ "MERGE" \notin j.supported /\ "MERGE" \notin j.compulsory
  BY <1>2, <1>3, <1>4, <1>5, <1>8 DEF Joined, Nothing, ImageMask
<1>9. ASSUME ~d.ok, r.ok
      PROVE  "MERGE" \notin F /\ "MERGE" \notin r.supported /\ "MERGE" \notin r.compulsory
  <2>1. CASE CanBlank(m, ps, F)
    BY <1>6, <1>7, <1>8, <1>9, <2>1
  <2>2. CASE ~CanBlank(m, ps, F)
    BY <1>5, <1>6, <1>7, <1>9, <2>2 DEF Nothing
  <2> QED
    BY <2>1, <2>2
<1>10. r.ok /\ Offer(g, F).supported \subseteq r.supported \cup {"NOGRACE"}
            /\ Offer(g, F).compulsory \subseteq r.compulsory \cup {"DAO"}
  BY OfferIs DEF r, m, ps
<1> QED
  BY <1>1, <1>9, <1>10

-----------------------------------------------------------------------------
(* What can be followed is merged with once what is compulsory is set.     *)

(***************************************************************************)
(* The drives: one that writes an open disc at once can also write it one  *)
(* track at a time.  (A disc for which the drive reports no mode is no     *)
(* exception.)                                                             *)
(***************************************************************************)
MergeableDiscs == \A d \in Discs : d.status = "appendable" /\ "sao" \in d.modes => "tao" \in d.modes

\* The recorders of a way have flags for the disc.
LEMMA WaysHavePairs ==
  ASSUME NEW m \in Media, NEW ps \in SUBSET Plugins, NEW w \in Ways(m, "data", ps, {})
  PROVE  /\ w \in {"image", "data"}
         /\ w = "image" => Makers("image", "data", ps) # {}
         /\ \E p \in Recorders(m, w, ps) : PluginFlags[p][m] # {}
<1>1. /\ w \in Sources /\ Recorders(m, w, ps) # {}
      /\ w # "data" => /\ \E p \in Recorders(m, w, ps) : Unrestricted(p, m)
                       /\ Makers(w, "data", ps) # {}
  BY DEF Ways, RecorderAllows, LinkAllows
<1>2. w # "raw"
  BY <1>1 DEF Makers, MadeOf
<1>3. \A p \in Recorders(m, w, ps) : p \in Plugins /\ w \in Takes[p][m]
  BY DEF Recorders
<1>4. CASE w = "data"
  BY <1>1, <1>3, <1>4, DataRecorders
<1>5. CASE w = "image"
  BY <1>1, <1>3, <1>5, DataRecorders DEF Unrestricted
<1> QED
  BY <1>1, <1>2, <1>4, <1>5 DEF Sources

\* All of the pairs that count without flags; there is one.
LEMMA PairsWithout ==
  ASSUME NEW m \in Media, NEW ps \in SUBSET Plugins, NEW W \in SUBSET Ways(m, "data", ps, {}), W # {}
  PROVE  UNION {RecordPairs(Recorders(m, w, ps), m, {}) : w \in W} # {}
<1>1. PICK w \in W : TRUE
  OBVIOUS
<1>2. PICK p \in Recorders(m, w, ps) : PluginFlags[p][m] # {}
  BY <1>1, WaysHavePairs
<1>3. Fitting(PluginFlags[p][m], BurnMask, {}) = PluginFlags[p][m]
  BY DEF Fitting
<1>4. RecordPairs(Recorders(m, w, ps), m, {}) # {}
  BY <1>2, <1>3 DEF RecordPairs
<1> QED
  BY <1>1, <1>4

\* What is compulsory on a disc without flags is so for one of its pairs.
LEMMA DiscCompulsory ==
  ASSUME NEW m \in Media, NEW ps \in SUBSET Plugins, NEW C,
         \A p \in Plugins : \A w \in Takes[p][m] : \A q \in PluginFlags[p][m] : q.compulsory \subseteq C
  PROVE  FlagsForDisc(m, "data", ps, {}).compulsory \subseteq C \cup {"NO_TMP_FILES"}
<1> DEFINE W == Ways(m, "data", ps, {})
           pairs == UNION {RecordPairs(Recorders(m, w, ps), m, {}) : w \in W}
           data == UNION {DataFlags(IF w = "data" THEN Recorders(m, w, ps)
                                    ELSE Makers(w, "data", ps), m, {}) : w \in W}
<1>1. W # {} => pairs # {}
  BY PairsWithout
<1>2. \A q \in pairs : q.compulsory \subseteq C
  BY DEF RecordPairs, Fitting, Recorders
<1>3. FlagsForDisc(m, "data", ps, {}) = IF W = {} THEN Nothing ELSE Together(pairs, data, W \subseteq {"data"})
  BY DEF FlagsForDisc, OnWays
<1> HIDE DEF W, pairs, data
<1>4. W # {} => Compulsory(pairs, BurnMask) \subseteq C
  BY <1>1, <1>2 DEF Compulsory
<1> QED
  BY <1>3, <1>4 DEF Together, Nothing

\* The flags that are compulsory or come with those.
Bare(m) == Needed(m) \cup {"NO_TMP_FILES", "FAST_BLANK"}

\* With no more than these a disc that can be followed is, and offers MERGE.
LEMMA FollowedWith ==
  ASSUME NEW m \in Followed, NEW ps \in SUBSET Plugins, NEW F \in SUBSET Bare(m),
         Ways(m, "data", ps, {}) # {}
  PROVE  /\ FlagsForDisc(m, "data", ps, F).ok
         /\ "MERGE" \in FlagsForDisc(m, "data", ps, F).supported
<1>0. m \in Media /\ F \cap BurnMask \subseteq Needed(m)
  BY FollowedAreMedia DEF Bare, BurnMask
<1>1. ASSUME NEW w, NEW p \in Recorders(m, w, ps), NEW q \in PluginFlags[p][m]
      PROVE  /\ "MERGE" \in q.supported /\ Needed(m) \subseteq q.supported
             /\ q \in Fitting(PluginFlags[p][m], BurnMask, F)
             /\ q \in Fitting(PluginFlags[p][m], ImageMask, F)
  <2>1. p \in Plugins /\ Takes[p][m] # {}
    BY <1>1 DEF Recorders
  <2>2. "MERGE" \in q.supported /\ Needed(m) \subseteq q.supported
    BY <1>1, <2>1, PairsOfFollowed
  <2> QED
    BY <1>0, <1>1, <2>2 DEF Fitting, ImageMask, BurnMask
<1>2. PICK w \in Ways(m, "data", ps, {}) : TRUE
  OBVIOUS
<1>a. PICK p \in Recorders(m, w, ps) : PluginFlags[p][m] # {}
  BY <1>0, <1>2, WaysHavePairs
<1>3. PICK q \in PluginFlags[p][m] : TRUE
  BY <1>a
<1>4. q \in RecordPairs(Recorders(m, w, ps), m, F) /\ "MERGE" \in q.supported /\ Needed(m) \subseteq q.supported
  BY <1>1, <1>3 DEF RecordPairs
<1>5. F \cap BurnMask \subseteq Supported(RecordPairs(Recorders(m, w, ps), m, F), BurnMask)
  BY <1>0, <1>4 DEF Supported
<1>6. w = "data" => F \cap ImageMask \subseteq DataFlags(Recorders(m, w, ps), m, F)
  <2>1. q \in UNION {Fitting(PluginFlags[x][m], ImageMask, F) : x \in Recorders(m, w, ps)}
    BY <1>1, <1>3
  <2> QED
    BY <1>0, <1>4, <2>1 DEF DataFlags, Supported, ImageMask, BurnMask
<1>7. w = "image" => LinkAllows(Makers("image", "data", ps), "data", m, F)
  <2> SUFFICES ASSUME w = "image" PROVE LinkAllows(Makers("image", "data", ps), "data", m, F)
    OBVIOUS
  <2>1. Makers("image", "data", ps) = {"libisofs"}
    BY <1>0, <1>2, WaysHavePairs DEF Makers, MadeOf
  <2>2. PluginFlags["libisofs"][m] = {Pair({"APPEND", "MERGE"}, {})}
    <3>1. m.status = "appendable" \/ m = Medium("DVDRW_PLUS", "closed")
      BY DEF Followed
    <3> QED
      BY <1>0, <3>1, PluginsAre DEF PluginFlags, LibisofsFlags
  <2>3. Pair({"APPEND", "MERGE"}, {}) \in Fitting(PluginFlags["libisofs"][m], ImageMask, F)
    BY <2>2 DEF Fitting, ImageMask, Pair
  <2>4. ImageMask \subseteq DataFlags({"libisofs"}, m, F)
    BY <2>3 DEF DataFlags, Supported, ImageMask, Pair
  <2> QED
    BY <2>1, <2>4 DEF LinkAllows
<1>8. w \in Ways(m, "data", ps, F)
  <2>1. w \in {"image", "data"}
    BY <1>0, <1>2, WaysHavePairs
  <2>2. LinkAllows(Recorders(m, w, ps), w, m, F)
    <3>1. LinkAllows(Recorders(m, w, ps), w, m, {})
      BY <1>2 DEF Ways, RecorderAllows
    <3> QED
      BY <1>6, <3>1 DEF LinkAllows
  <2> QED
    BY <1>2, <1>5, <1>7, <2>1, <2>2 DEF Ways, RecorderAllows
<1> DEFINE W == Ways(m, "data", ps, F)
           pairs == UNION {RecordPairs(Recorders(m, v, ps), m, F) : v \in W}
           data == UNION {DataFlags(IF v = "data" THEN Recorders(m, v, ps)
                                    ELSE Makers(v, "data", ps), m, F) : v \in W}
<1>9. q \in pairs
  BY <1>4, <1>8
<1>10. FlagsForDisc(m, "data", ps, F) = Together(pairs, data, W \subseteq {"data"})
  BY <1>8 DEF FlagsForDisc, OnWays
<1> HIDE DEF W, pairs, data
<1> QED
  BY <1>4, <1>9, <1>10 DEF Together, Supported, BurnMask

\* The drive lets MERGE be.
LEMMA OfferMerges ==
  ASSUME NEW g, g.disc # File, g.input = "data", g.setup \in Setups,
         MediumOf(g.disc) \in Followed, CanFollow(g),
         NEW F \in SUBSET Bare(MediumOf(g.disc))
  PROVE  "MERGE" \in Offer(g, F).supported
<1> DEFINE m == MediumOf(g.disc)  ps == Active(g.setup, TRUE)
           d == FlagsForDisc(m, "data", ps, F)
           a == FlagsForDisc(Blanked(m), "data", ps, F)
           e == BlankingFlags(Blanked(m), ps, F)
           r == FlagsForMedium(m, "data", ps, F)
           x == [r EXCEPT !.supported = @ \cup {"NOGRACE"}]
<1>0. ps \in SUBSET Plugins
  BY SetupsAssumption DEF Active
<1>1. "BLANK" \notin F /\ "DUMMY" \notin F /\ "BURNPROOF" \notin F
  BY FollowedAreMedia DEF Bare
<1>2. d.ok /\ "MERGE" \in d.supported
  BY <1>0, FollowedWith DEF CanFollow
<1>3. r = Settled(m, F, IF CanBlank(m, ps, F) THEN Joined(d, a, e) ELSE d)
  BY <1>1 DEF FlagsForMedium
<1>4. r \in Answers
  BY FlagsForMediumType
<1>5. Offer(g, F) = Answer(g.disc, r)
  BY <1>1 DEF Offer, BurnFlags, CheckFlagsForDrive
<1> HIDE DEF m, ps, d, a, e, r
<1>6. LET j == IF CanBlank(m, ps, F) THEN Joined(d, a, e) ELSE d IN j.ok /\ "MERGE" \in j.supported
  BY <1>2 DEF Joined
<1>7. r.ok /\ "MERGE" \in r.supported
  BY <1>1, <1>3, <1>6 DEF Settled
<1>8. x \in Answers /\ "MERGE" \in x.supported
  BY <1>4, <1>7, FlagsAre DEF Answers
<1>9. Offer(g, F) = ForDrive(g.disc, x)
  BY <1>5, <1>7 DEF Answer
<1> HIDE DEF x
<1> QED
  BY <1>8, <1>9 DEF ForDrive, Answers

LEMMA CompulsoryIsBare ==
  ASSUME NEW g, g.disc \in Discs, g.disc # File, g.input = "data", g.setup \in Setups,
         MediumOf(g.disc) \in Followed, CanFollow(g), MergeableDiscs
  PROVE  Offer(g, {}).compulsory \subseteq Bare(MediumOf(g.disc))
<1> DEFINE m == MediumOf(g.disc)  ps == Active(g.setup, TRUE)
           d == FlagsForDisc(m, "data", ps, {})
           a == FlagsForDisc(Blanked(m), "data", ps, {})
           e == BlankingFlags(Blanked(m), ps, {})
           r == FlagsForMedium(m, "data", ps, {})
           x == [r EXCEPT !.supported = @ \cup {"NOGRACE"}]
<1>0. ps \in SUBSET Plugins /\ m \in Media /\ Blanked(m) \in Media /\ Needed(Blanked(m)) = Needed(m)
  BY SetupsAssumption, FollowedAreMedia, BlankedIs DEF Active, Needed
<1>1. d.compulsory \subseteq Needed(m) \cup {"NO_TMP_FILES"}
  <2>1. \A p \in Plugins : \A w \in Takes[p][m] : \A q \in PluginFlags[p][m] : q.compulsory \subseteq Needed(m)
    BY PairsOfFollowed
  <2> QED
    BY <1>0, <2>1, DiscCompulsory
<1>2. a.compulsory \subseteq Needed(m) \cup {"NO_TMP_FILES"}
  <2>1. \A p \in Plugins : \A w \in Takes[p][Blanked(m)] : \A q \in PluginFlags[p][Blanked(m)] :
          q.compulsory \subseteq Needed(m)
    BY <1>0, PairsOfBlank, BlankedIs
  <2> QED
    BY <1>0, <2>1, DiscCompulsory
<1>3. CanBlank(m, ps, {}) => e.compulsory \subseteq {"FAST_BLANK"}
  BY <1>0, ErasingIs
<1>4. r = Settled(m, {}, IF CanBlank(m, ps, {}) THEN Joined(d, a, e) ELSE d)
  BY DEF FlagsForMedium
<1>5. r \in Answers
  BY FlagsForMediumType
<1>6. d.ok
  BY DiscAnswer DEF CanFollow
<1>7. Offer(g, {}) = Answer(g.disc, r)
  BY DEF Offer, BurnFlags, CheckFlagsForDrive
<1>8. g.disc.kind # "DVDRW_PLUS" => ("sao" \in g.disc.modes => "tao" \in g.disc.modes)
  BY FollowedAreMedia DEF MergeableDiscs, MediumOf, Medium
<1>9. Bare(MediumOf(g.disc)) = Needed(m) \cup {"NO_TMP_FILES", "FAST_BLANK"}
  BY DEF Bare
<1> HIDE DEF m, ps, d, a, e, r
<1>10. LET j == IF CanBlank(m, ps, {}) THEN Joined(d, a, e) ELSE d IN
       j.compulsory \subseteq Needed(m) \cup {"NO_TMP_FILES", "FAST_BLANK"}
  BY <1>1, <1>2, <1>3, <1>6 DEF Joined
<1>11. r.compulsory \subseteq Needed(m) \cup {"NO_TMP_FILES", "FAST_BLANK"}
  BY <1>4, <1>10 DEF Settled, Nothing
<1>12. x \in Answers /\ x.compulsory = r.compulsory
  BY <1>5, FlagsAre DEF Answers
<1>13. Offer(g, {}) = ForDrive(g.disc, x) \/ Offer(g, {}) = Nothing
  BY <1>7 DEF Answer
<1> HIDE DEF x
<1>14. ForDrive(g.disc, x).compulsory = x.compulsory
  BY <1>8, <1>12 DEF ForDrive, Answers
<1> QED
  BY <1>9, <1>11, <1>12, <1>13, <1>14 DEF Nothing

\* Thus MERGE is supported by the time the loop over the flags asks for it.
LEMMA FollowOffersMerge ==
  ASSUME NEW g, g.disc \in Discs, g.disc # File, g.input = "data", g.setup \in Setups,
         MediumOf(g.disc) \in Followed, CanFollow(g), MergeableDiscs
  PROVE  "MERGE" \in AddCompulsory(g, Asked(g, {})).supported
<1> DEFINE C == Offer(g, {}).compulsory
<1>1. C \in SUBSET Flag /\ C \in SUBSET Bare(MediumOf(g.disc))
  BY OfferType, CompulsoryIsBare DEF Answers
<1>2. /\ Asked(g, {}) \in Cfgs /\ Asked(g, {}).flags = {} /\ Asked(g, {}).compulsory = C
      /\ Asked(g, {}).supported = Offer(g, {}).supported
  BY AskedIs
<1>3. "MERGE" \in Offer(g, C).supported
  BY <1>1, OfferMerges
<1>4. CASE C = {}
  BY <1>2, <1>3, <1>4 DEF AddCompulsory
<1>5. CASE C # {}
  <2>1. ~(C \subseteq {})
    BY <1>5
  <2>2. AddCompulsory(g, Asked(g, {})) = With(g, Asked(g, {}), C)
    BY <1>2, <2>1 DEF AddCompulsory
  <2>3. With(g, Asked(g, {}), C) = Asked(g, C)
    BY <1>2 DEF With
  <2> QED
    BY <1>1, <1>3, <2>2, <2>3, AskedIs
<1> QED
  BY <1>4, <1>5

-----------------------------------------------------------------------------
(* How the flags of a session are set: MERGE comes in where the disc can   *)
(* be followed, and there it does not get lost.                            *)

LEMMA RefusedOffersNothing ==
  ASSUME NEW g, NEW F, ~Offer(g, F).ok
  PROVE  Offer(g, F).supported = {} /\ Offer(g, F).compulsory = {}
<1>1. ASSUME NEW r \in Answers PROVE Answer(g.disc, r) = Nothing \/ Answer(g.disc, r).ok
  <2>1. \A s : s \in SUBSET Flag => [r EXCEPT !.supported = s] \in Answers
    BY DEF Answers
  <2>2. [r EXCEPT !.supported = @ \cup {"NOGRACE"}] \in Answers
        /\ [r EXCEPT !.supported = @ \cup {"NOGRACE"}].ok = r.ok
    BY FlagsAre DEF Answers
  <2>3. \A x \in Answers : ForDrive(g.disc, x).ok = x.ok
    BY DEF ForDrive, Answers
  <2> QED
    BY <2>2, <2>3 DEF Answer
<1>2. Offer(g, F) = Nothing
  BY <1>1, FlagsForMediumType DEF Offer, BurnFlags
<1> QED
  BY <1>2 DEF Nothing

\* The disc in the drive and the tracks, as long as a session is imported.
Imports(g) ==
  /\ g.disc \in Discs /\ g.disc \notin {File, Empty} /\ MediumOf(g.disc) \in Followed
  /\ g.input = "data" /\ g.setup \in Setups

LEMMA DefaultsKeep ==
  ASSUME NEW g, NEW c \in Cfgs
  PROVE  /\ DefaultFlags(g, c) \in Cfgs /\ WithGrace(c) \in Cfgs
         /\ "MERGE" \in DefaultFlags(g, c).flags <=> "MERGE" \in c.flags
         /\ "MERGE" \in WithGrace(c).flags <=> "MERGE" \in c.flags
<1>1. /\ MultiFirst(g, c) \in Cfgs
      /\ "MERGE" \in MultiFirst(g, c).flags <=> "MERGE" \in c.flags
  <2>1. {"MULTI"} \in SUBSET Flag
    BY FlagsAre
  <2>2. With(g, c, {"MULTI"}) \in Cfgs /\ With(g, c, {"MULTI"}).flags = c.flags \cup {"MULTI"}
    <3>1. c.flags \cup {"MULTI"} \in SUBSET Flag
      BY <2>1 DEF Cfgs
    <3> QED
      BY <3>1, AskedIs DEF With
  <2> QED
    BY <2>2 DEF MultiFirst
<1>2. ASSUME NEW d \in Cfgs
      PROVE  "MERGE" \in BlankFirst(g, d).flags <=> "MERGE" \in d.flags
  <2> DEFINE more == {"BLANK"} \cup (IF g.disc.status = "unformatted" THEN {}
                                     ELSE d.supported \cap {"FAST_BLANK"})
  <2>1. more \in SUBSET Flag /\ "MERGE" \notin more
    BY FlagsAre
  <2> HIDE DEF more
  <2>2. BlankFirst(g, d) = IF "BLANK" \notin d.supported THEN d ELSE With(g, d, more)
    BY DEF BlankFirst, more
  <2>3. With(g, d, more).flags = d.flags \cup more
    <3>1. d.flags \cup more \in SUBSET Flag
      BY <2>1 DEF Cfgs
    <3> QED
      BY <3>1, AskedIs DEF With
  <2> QED
    BY <2>1, <2>2, <2>3
<1>3. WithGrace(c) \in Cfgs /\ ("MERGE" \in WithGrace(c).flags <=> "MERGE" \in c.flags)
  BY FlagsAre DEF WithGrace, Cfgs
<1> QED
  <2>1. DefaultFlags(g, c) \in Cfgs
    BY DefaultFlagsType
  <2>2. "MERGE" \in DefaultFlags(g, c).flags <=> "MERGE" \in c.flags
    BY <1>1, <1>2 DEF DefaultFlags
  <2> QED
    BY <1>3, <2>1, <2>2

\* MERGE comes into the flags of a session only where it can be done.
LEMMA MergeComesToFollow ==
  ASSUME NEW g, Imports(g), Offer(g, {}).ok, NEW c \in Cfgs, NEW new \in SUBSET Flag,
         "MERGE" \in SetFlags(g, c, new).flags
  PROVE  CanFollow(g)
<1> DEFINE S == {d \in Cfgs : d = Asked(g, d.flags) /\ ("MERGE" \in d.flags => CanFollow(g))}
           e == SetEach(g, new, Asked(g, {}))
           o == IF "DAO" \in c.flags THEN AddSupported(g, e, "DAO") ELSE e
<1>1. ASSUME NEW d \in S, NEW more \in SUBSET Flag,
             "MERGE" \in more => "MERGE" \in d.supported \cup d.compulsory
      PROVE  With(g, d, more) \in S
  <2>0. d \in Cfgs /\ d.flags \in SUBSET Flag
    BY DEF Cfgs
  <2>1. With(g, d, more) \in Cfgs /\ With(g, d, more).flags = d.flags \cup more
        /\ With(g, d, more) = Asked(g, d.flags \cup more)
    <3>1. d.flags \cup more \in SUBSET Flag
      BY <2>0
    <3> QED
      BY <3>1, AskedIs DEF With
  <2>2. d.supported = Offer(g, d.flags).supported /\ d.compulsory = Offer(g, d.flags).compulsory
    <3>1. d = Asked(g, d.flags)
      OBVIOUS
    <3> QED
      BY <2>0, <3>1, AskedIs
  <2>3. "MERGE" \in d.supported \cup d.compulsory => CanFollow(g)
    <3>1. MediumOf(g.disc) \in Media
      BY FollowedAreMedia DEF Imports
    <3> QED
      BY <2>2, <3>1, MergeMeansFollow, RefusedOffersNothing DEF Imports
  <2> QED
    BY <1>1, <2>1, <2>3
<1>2. ASSUME NEW d \in S, NEW f \in Flag
      PROVE  AddCompulsory(g, d) \in S /\ AddSupported(g, d, f) \in S
  <2>1. d.compulsory \in SUBSET Flag /\ {f} \in SUBSET Flag
    BY DEF Cfgs
  <2> HIDE DEF S
  <2> QED
    BY <1>1, <2>1 DEF AddCompulsory, AddSupported
<1>3. Asked(g, {}) \in S
  BY AskedIs
<1> HIDE DEF S
<1>4. \A d \in S : \A f \in Flag : SetFlag(g, new, d, f) \in S
  BY <1>2 DEF SetFlag
<1>5. e \in S
  BY <1>3, <1>4, LoopStays, FlagsAre
<1> HIDE DEF e
<1>6. o \in S
  BY <1>2, <1>5, FlagsAre
<1>7. SetFlags(g, c, new) = WithGrace(DefaultFlags(g, o))
  BY DEF SetFlags, Imports, e
<1> HIDE DEF o
<1>8. o \in Cfgs /\ ("MERGE" \in o.flags => CanFollow(g))
  BY <1>6 DEF S
<1> QED
  BY <1>7, <1>8, DefaultsKeep

\* It does not get lost when it is among the flags to set.
LEMMA MergeStays ==
  ASSUME NEW g, Imports(g), MergeableDiscs, Offer(g, {}).ok => CanFollow(g),
         NEW c \in Cfgs, NEW new \in SUBSET Flag, "MERGE" \in new
  PROVE  "MERGE" \in SetFlags(g, c, new).flags
<1> DEFINE S == {d \in Cfgs : "MERGE" \in d.flags}
           e == SetEach(g, new, Asked(g, {}))
           o == IF "DAO" \in c.flags THEN AddSupported(g, e, "DAO") ELSE e
<1>1. ASSUME ~Offer(g, {}).ok PROVE "MERGE" \in SetFlags(g, c, new).flags
  BY <1>1 DEF SetFlags, Refused, Imports
<1>2. ASSUME NEW d \in S, NEW f \in Flag
      PROVE  AddCompulsory(g, d) \in S /\ AddSupported(g, d, f) \in S
  <2>1. d.compulsory \in SUBSET Flag /\ {f} \in SUBSET Flag
    BY DEF Cfgs
  <2>2. ASSUME NEW more \in SUBSET Flag PROVE With(g, d, more) \in S
    <3>1. d \in Cfgs /\ "MERGE" \in d.flags
      OBVIOUS
    <3>2. With(g, d, more) \in Cfgs /\ With(g, d, more).flags = d.flags \cup more
      <4>1. d.flags \cup more \in SUBSET Flag
        BY <3>1 DEF Cfgs
      <4> QED
        BY <4>1, AskedIs DEF With
    <3> QED
      BY <3>1, <3>2
  <2> HIDE DEF S
  <2> QED
    BY <2>1, <2>2 DEF AddCompulsory, AddSupported
<1>3. \A d \in S : \A f \in Flag : SetFlag(g, new, d, f) \in S
  <2> HIDE DEF S
  <2> QED
    BY <1>2 DEF SetFlag
<1>4. ASSUME Offer(g, {}).ok PROVE SetFlag(g, new, Asked(g, {}), "MERGE") \in S
  <2> DEFINE a == AddCompulsory(g, Asked(g, {}))
  <2>1. a \in Cfgs
    BY AskedIs, SetFlagType, FlagsAre
  <2>2. "MERGE" \in a.supported
    BY <1>4, FollowOffersMerge DEF Imports
  <2> HIDE DEF a
  <2>3. AddSupported(g, a, "MERGE") = With(g, a, {"MERGE"})
    BY <2>2 DEF AddSupported
  <2>4. With(g, a, {"MERGE"}) \in S
    <3>1. {"MERGE"} \in SUBSET Flag
      BY FlagsAre
    <3>2. With(g, a, {"MERGE"}) \in Cfgs /\ With(g, a, {"MERGE"}).flags = a.flags \cup {"MERGE"}
      <4>1. a.flags \cup {"MERGE"} \in SUBSET Flag
        BY <2>1, <3>1 DEF Cfgs
      <4> QED
        BY <4>1, AskedIs DEF With
    <3> QED
      BY <3>2
  <2> QED
    BY <2>3, <2>4 DEF SetFlag, a
<1>5. ASSUME Offer(g, {}).ok PROVE "MERGE" \in SetFlags(g, c, new).flags
  <2> HIDE DEF S
  <2>1. e \in S
    BY <1>3, <1>4, <1>5, LoopStays
  <2> HIDE DEF e
  <2>2. o \in S
    BY <1>2, <2>1, FlagsAre
  <2>3. SetFlags(g, c, new) = WithGrace(DefaultFlags(g, o))
    BY <1>5 DEF SetFlags, Imports, e
  <2> HIDE DEF o
  <2>4. o \in Cfgs /\ "MERGE" \in o.flags
    BY <2>2 DEF S
  <2> QED
    BY <2>3, <2>4, DefaultsKeep
<1> QED
  BY <1>1, <1>5

-----------------------------------------------------------------------------
(* A session that is imported is merged with.                              *)

(***************************************************************************)
(* While a session is imported its disc is in the drive, and MERGE is      *)
(* among the flags only where it can be done (or nothing can be recorded). *)
(***************************************************************************)
MergeInv ==
  imported = "loaded" =>
    /\ Imports(given)
    /\ ~disabled /\ "MERGE" \in cfg.flags /\ Offer(given, {}).ok => CanFollow(given)

\* Only discs with a session that can be followed are imported.
LEMMA ImportableIsFollowed ==
  ASSUME NEW g, g.disc \in DiscsToo, g.setup \in Setups, Importable(g)
  PROVE  Imports(g)
<1> DEFINE m == MediumOf(g.disc)
<1>1. g.disc \in Discs /\ m \in Media /\ m.status \in {"appendable", "closed"}
  BY DiscsAssumption DEF DiscsToo, Importable, MediumOf, Medium
<1>2. PICK p \in Plugins : Takes[p][m] # {}
  BY SetupsAssumption DEF Importable, Active
<1> HIDE DEF m
<1>3. m.status = "closed" => m.kind = "DVDRW_PLUS"
  BY <1>1, <1>2 DEF Takes, CD, DVD, Media
<1>4. m \in Followed
  BY <1>1, <1>3 DEF Media, Followed, Medium
<1> QED
  BY <1>1, <1>4 DEF Imports, Importable, m

\* The settings of a session that is loaded are set from flags with MERGE.
LEMMA LoadedIs ==
  ASSUME NEW g, cfg \in Cfgs
  PROVE  \E c \in Cfgs : SessionFlags(g, TRUE) = SetFlags(g, c, c.flags)
<1>1. cfg.flags \cup {"MERGE"} \in SUBSET Flag
  BY FlagsAre DEF Cfgs
<1>2. SetFlags(g, cfg, cfg.flags \cup {"MERGE"}) \in Cfgs
  BY <1>1, SetFlagsType
<1> QED
  BY <1>2 DEF SessionFlags, CheckDriveSettings

LEMMA SameOffer ==
  ASSUME NEW g, NEW h, g.disc = h.disc, g.input = h.input, g.setup = h.setup
  PROVE  /\ \A F : Offer(g, F) = Offer(h, F)
         /\ CanFollow(g) <=> CanFollow(h)
         /\ Imports(g) <=> Imports(h)
BY DEF Offer, CanFollow, Imports

LEMMA InitMerges == Init => MergeInv
BY DEF Init, MergeInv

LEMMA NextMerges == TypeOK /\ MergeInv /\ [Next]_vars => MergeInv'
<1> SUFFICES ASSUME TypeOK, MergeInv, [Next]_vars, imported' = "loaded" PROVE MergeInv'
  BY DEF MergeInv
<1>0. /\ given.disc \in DiscsToo /\ given.setup \in Setups /\ cfg \in Cfgs /\ cfg.flags \in SUBSET Flag
      /\ imported # "no" => given.input = "data"
  BY DEF TypeOK, DiscsToo, Cfgs
<1>a. ASSUME Imports(given'), NEW c \in Cfgs, NEW new \in SUBSET Flag,
             ~disabled => cfg' = SetFlags(given', c, new), UNCHANGED disabled
      PROVE  MergeInv'
  <2>1. ~disabled /\ "MERGE" \in cfg'.flags /\ Offer(given', {}).ok => CanFollow(given')
    BY <1>a, MergeComesToFollow
  <2> QED
    BY <1>a, <2>1 DEF MergeInv
<1>b. ASSUME imported = "loaded", UNCHANGED << given, disabled >>,
             "MERGE" \in cfg'.flags => "MERGE" \in cfg.flags
      PROVE  MergeInv'
  BY <1>b DEF MergeInv
<1>1. ASSUME NEW i \in Inputs, NEW n \in 0 .. MaxSize, TrackAdded(i, n) PROVE MergeInv'
  BY <1>0, <1>1 DEF TrackAdded
<1>2. CASE TrackRemoved
  BY <1>2 DEF TrackRemoved
<1>3. ASSUME NEW n \in 0 .. MaxSize, TrackChanged(n) PROVE MergeInv'
  <2>1. given'.disc = given.disc /\ given'.input = given.input /\ given'.setup = given.setup
        /\ imported = "loaded" /\ Configure(given', CheckDriveSettings(given', cfg)) /\ UNCHANGED disabled
    BY <1>3 DEF TrackChanged, TypeOK
  <2>2. Imports(given')
    BY <2>1 DEF MergeInv, Imports
  <2> QED
    BY <1>0, <1>a, <2>1, <2>2 DEF Configure, CheckDriveSettings
<1>4. ASSUME NEW setup \in Setups, CapsChanged(setup) PROVE MergeInv'
  <2>1. given'.disc = given.disc /\ given'.input = given.input /\ given'.setup = setup
        /\ imported = "loaded" /\ Configure(given', CheckDriveSettings(given', cfg)) /\ UNCHANGED disabled
    BY <1>4 DEF CapsChanged, TypeOK
  <2>2. Imports(given')
    BY <2>1 DEF MergeInv, Imports
  <2> QED
    BY <1>0, <1>a, <2>1, <2>2 DEF Configure, CheckDriveSettings
<1>5. ASSUME NEW d \in DiscsToo, OutputChanged(d) PROVE MergeInv'
  BY <1>5 DEF OutputChanged
<1>6. CASE SessionLoaded
  <2>1. Imports(given) /\ UNCHANGED << given, disabled >> /\ Configure(given, SessionFlags(given, TRUE))
    BY <1>0, <1>6, ImportableIsFollowed DEF SessionLoaded
  <2>2. PICK c \in Cfgs : SessionFlags(given, TRUE) = SetFlags(given, c, c.flags)
    BY <1>0, LoadedIs
  <2>3. c.flags \in SUBSET Flag
    BY DEF Cfgs
  <2> QED
    BY <1>a, <2>1, <2>2, <2>3 DEF Configure
<1>7. CASE SessionRemoved \/ SessionUnreadable
  BY <1>7 DEF SessionRemoved, SessionUnreadable
<1>8. ASSUME NEW stored \in Stored, OpenProperties(stored) PROVE MergeInv'
  <2>1. "MERGE" \notin stored
    BY StoredAssumption DEF Toggles, Unset
  <2>2. cfg'.flags = Bound(cfg.flags, stored)
    BY <1>0, <1>8 DEF OpenProperties, Cfgs
  <2>3. "MERGE" \in cfg'.flags => "MERGE" \in cfg.flags
    BY <2>1, <2>2 DEF Bound
  <2> QED
    BY <1>8, <1>b, <2>3 DEF OpenProperties
<1>9. ASSUME NEW f \in Toggles, AddFlags(f) PROVE MergeInv'
  <2>1. cfg.flags \cup {f} \in SUBSET Flag
    BY <1>0, MasksAreFlags
  <2>2. Imports(given')
    BY <1>9 DEF AddFlags, MergeInv
  <2> QED
    BY <1>0, <1>9, <1>a, <2>1, <2>2 DEF AddFlags
<1>10. ASSUME NEW f \in Toggles, RemoveFlags(f) PROVE MergeInv'
  <2>1. [cfg EXCEPT !.flags = @ \ {f}] \in Cfgs /\ [cfg EXCEPT !.flags = @ \ {f}].flags = cfg.flags \ {f}
    BY <1>0 DEF Cfgs
  <2>2. "MERGE" \in cfg'.flags => "MERGE" \in cfg.flags
    BY <1>10, <2>1, DefaultsKeep DEF RemoveFlags
  <2> QED
    BY <1>10, <1>b, <2>2 DEF RemoveFlags
<1>11. CASE Burn
  BY <1>11 DEF Burn, MergeInv
<1>12. CASE CancelProperties \/ BurnEnd \/ UNCHANGED vars
  BY <1>12, <1>b DEF CancelProperties, BurnEnd, vars
<1> QED
  BY <1>1, <1>2, <1>3, <1>4, <1>5, <1>6, <1>7, <1>8, <1>9, <1>10, <1>11, <1>12 DEF Next, DiscsToo

\* What is recorded of a session with MERGE is merged: no plugin records a
\* blank disc with it, so that nothing blanks the disc first.
LEMMA RunMerges ==
  ASSUME NEW g, MediumOf(g.disc) \in Media, g.setup \in Setups, NEW flags, "MERGE" \in flags,
         Run(g, flags).does = "record"
  PROVE  "MERGE" \in Run(g, flags).flags /\ Run(g, flags).task.blanking = "none"
<1> DEFINE kept == Consistent(g, flags)
           task == NewTask(g.disc, g.input, g.setup, kept)
           m == MediumOf(g.disc)
           ps == Active(g.setup, FALSE)
           less == kept \ {"BLANK"}
           direct == FindBestLink(m, g.input, ps, kept)
           after == FindBestLink(Blanked(m), g.input, ps, less)
<1>1. /\ Run(g, flags).flags = kept /\ Run(g, flags).task = task
      /\ Outcome(g, flags, kept, task) = "record"
  BY DEF Run, RunWith
<1>2. Blanked(m) \in Media /\ Blanked(m).status = "blank" /\ ps \in SUBSET Plugins
  BY BlankedIs, SetupsAssumption DEF Active
<1>3. \/ task = NoChain \/ task = direct
      \/ after # NoChain
  BY DEF NewTask, OrBlank
<1> HIDE DEF kept, task
<1>4. "MERGE" \in kept /\ task # NoChain
  BY <1>1 DEF Outcome
<1>5. after = NoChain
  <2>1. \A w : FindRecorders(Blanked(m), w, ps, less) = {}
    <3>1. \A p \in ps : ~Accepts(PluginFlags[p][Blanked(m)], BurnMask, less)
      <4>1. "MERGE" \in less \cap BurnMask
        BY <1>4 DEF BurnMask
      <4> HIDE DEF m, ps, less
      <4> QED
        BY <1>2, <4>1, PairsOfBlank DEF Accepts, Fitting
    <3> QED
      BY <3>1 DEF FindRecorders, Recorders
  <2>2. Candidates(Blanked(m), g.input, ps, less) = {}
    BY <2>1 DEF Candidates
  <2> QED
    BY <2>2 DEF FindBestLink, BestLink
<1>6. direct.blanking = "none"
  BY DEF FindBestLink, BestLink, NoChain
<1> QED
  BY <1>1, <1>3, <1>4, <1>5, <1>6

\* A chain of tasks is there only while it burns.
ChainInv == pc # "burning" => chain = Idle

LEMMA InitChain == Init => ChainInv
BY DEF Init, ChainInv

LEMMA NextChain == ChainInv /\ [Next]_vars => ChainInv'
<1> SUFFICES ASSUME ChainInv, [Next]_vars PROVE ChainInv'
  OBVIOUS
<1>1. CASE Burn
  BY <1>1 DEF Burn, ChainInv
<1>2. CASE BurnEnd
  BY <1>2 DEF BurnEnd, ChainInv
<1>3. CASE UNCHANGED << pc, chain >>
  BY <1>3 DEF ChainInv
<1>4. ASSUME UNCHANGED chain, pc # "burning" PROVE ChainInv'
  BY <1>4 DEF ChainInv
<1>5. ASSUME NEW i \in Inputs, NEW n \in 0 .. MaxSize, TrackAdded(i, n) PROVE ChainInv'
  BY <1>3, <1>5 DEF TrackAdded
<1>6. ASSUME NEW n \in 0 .. MaxSize, TrackChanged(n) PROVE ChainInv'
  BY <1>3, <1>6 DEF TrackChanged
<1>7. ASSUME NEW setup \in Setups, CapsChanged(setup) PROVE ChainInv'
  BY <1>3, <1>7 DEF CapsChanged
<1>8. ASSUME NEW d \in DiscsToo, OutputChanged(d) PROVE ChainInv'
  <2>1. UNCHANGED chain /\ (pc = "burning" => pc' = pc)
    BY <1>8 DEF OutputChanged
  <2> QED
    BY <2>1 DEF ChainInv
<1>9. CASE TrackRemoved \/ SessionLoaded \/ SessionRemoved \/ SessionUnreadable
  BY <1>3, <1>9 DEF TrackRemoved, SessionLoaded, SessionRemoved, SessionUnreadable
<1>10. ASSUME NEW stored \in Stored, OpenProperties(stored) PROVE ChainInv'
  BY <1>4, <1>10 DEF OpenProperties
<1>11. CASE CancelProperties
  BY <1>4, <1>11 DEF CancelProperties
<1>12. ASSUME NEW f \in Toggles, AddFlags(f) \/ RemoveFlags(f) PROVE ChainInv'
  BY <1>3, <1>12 DEF AddFlags, RemoveFlags
<1>13. CASE UNCHANGED vars
  BY <1>3, <1>13 DEF vars
<1> QED
  BY <1>1, <1>2, <1>5, <1>6, <1>7, <1>8, <1>9, <1>10, <1>11, <1>12, <1>13 DEF Next, DiscsToo

\* A step of the window keeps to it.
LEMMA StepMerges ==
  ASSUME TypeOK, MergeInv, ChainInv, MergeableDiscs, [Next]_vars,
         imported' = "loaded", Mergeable, given'.setup = given.setup, ~disabled
  PROVE  /\ "MERGE" \in cfg'.flags
         /\ (chain'.does = "record" /\ pc' # pc) =>
              ("MERGE" \in chain'.flags /\ chain'.task.blanking = "none")
<1>0. /\ given.disc \in DiscsToo /\ given.setup \in Setups /\ cfg \in Cfgs /\ cfg.flags \in SUBSET Flag
      /\ imported # "no" => given.input = "data"
      /\ imported \in {"no", "loaded", "unreadable"}
  BY DEF TypeOK, DiscsToo, Cfgs
<1>a. ASSUME imported = "loaded"
      PROVE  /\ "MERGE" \in cfg.flags /\ Imports(given)
             /\ Offer(given, {}).ok => CanFollow(given)
  BY <1>a DEF Mergeable, MergeInv
<1>1. ASSUME NEW i \in Inputs, NEW n \in 0 .. MaxSize, TrackAdded(i, n) PROVE FALSE
  BY <1>0, <1>1 DEF TrackAdded
<1>2. CASE TrackRemoved
  BY <1>2 DEF TrackRemoved
<1>3. ASSUME NEW n \in 0 .. MaxSize, TrackChanged(n) PROVE "MERGE" \in cfg'.flags /\ pc' = pc
  <2>1. given'.disc = given.disc /\ given'.input = given.input
        /\ imported = "loaded" /\ cfg' = SetFlags(given', cfg, cfg.flags) /\ pc' = pc
    BY <1>3 DEF TrackChanged, TypeOK, Configure, CheckDriveSettings
  <2>2. Imports(given') /\ (Offer(given', {}).ok => CanFollow(given'))
    BY <1>a, <2>1, SameOffer
  <2> QED
    BY <1>0, <1>a, <2>1, <2>2, MergeStays
<1>4. ASSUME NEW setup \in Setups, CapsChanged(setup) PROVE FALSE
  BY <1>4 DEF CapsChanged, TypeOK
<1>5. ASSUME NEW d \in DiscsToo, OutputChanged(d) PROVE FALSE
  BY <1>5 DEF OutputChanged
<1>6. ASSUME SessionLoaded PROVE "MERGE" \in cfg'.flags /\ pc' = pc
  <2> DEFINE c == IF "MERGE" \in cfg.flags THEN cfg
                  ELSE SetFlags(given, cfg, cfg.flags \cup {"MERGE"})
  <2>1. Imports(given)
    BY <1>0, <1>6, ImportableIsFollowed DEF SessionLoaded
  <2>2. CanFollow(given)
    <3>1. Offer(given, {"MERGE"}).ok /\ MediumOf(given.disc) \in Media
      BY <1>6, <2>1, FollowedAreMedia DEF SessionLoaded, Mergeable, Imports
    <3> QED
      BY <2>1, <3>1, MergeMeansFollow DEF Imports
  <2>3. c \in Cfgs /\ "MERGE" \in c.flags
    <3>1. cfg.flags \cup {"MERGE"} \in SUBSET Flag
      BY <1>0, FlagsAre
    <3> QED
      BY <1>0, <2>1, <2>2, <3>1, SetFlagsType, MergeStays
  <2>4. cfg' = SetFlags(given, c, c.flags) /\ pc' = pc
    BY <1>6 DEF SessionLoaded, Configure, SessionFlags, CheckDriveSettings
  <2> HIDE DEF c
  <2>5. c.flags \in SUBSET Flag
    BY <2>3 DEF Cfgs
  <2> QED
    BY <2>1, <2>2, <2>3, <2>4, <2>5, MergeStays
<1>7. CASE SessionRemoved \/ SessionUnreadable
  BY <1>7 DEF SessionRemoved, SessionUnreadable
<1>8. ASSUME NEW stored \in Stored, OpenProperties(stored)
      PROVE  "MERGE" \in cfg'.flags /\ chain'.does = "nothing"
  <2>1. imported = "loaded" /\ cfg'.flags = Bound(cfg.flags, stored) /\ chain' = Idle
    BY <1>0, <1>8 DEF OpenProperties, Cfgs, ChainInv
  <2>2. chain'.does = "nothing"
    BY <2>1 DEF Idle
  <2> QED
    BY <1>a, <2>1, <2>2 DEF Bound, Toggles
<1>9. ASSUME NEW f \in Toggles, AddFlags(f) PROVE "MERGE" \in cfg'.flags /\ pc' = pc
  <2>1. cfg.flags \cup {f} \in SUBSET Flag
    BY <1>0, MasksAreFlags
  <2>2. imported = "loaded" /\ cfg' = SetFlags(given, cfg, cfg.flags \cup {f}) /\ pc' = pc
    BY <1>9 DEF AddFlags
  <2> QED
    BY <1>0, <1>a, <2>1, <2>2, MergeStays
<1>10. ASSUME NEW f \in Toggles, RemoveFlags(f) PROVE "MERGE" \in cfg'.flags /\ pc' = pc
  <2>1. [cfg EXCEPT !.flags = @ \ {f}] \in Cfgs /\ [cfg EXCEPT !.flags = @ \ {f}].flags = cfg.flags \ {f}
    BY <1>0 DEF Cfgs
  <2>2. imported = "loaded" /\ pc' = pc /\ f # "MERGE"
        /\ cfg' = DefaultFlags(given, [cfg EXCEPT !.flags = @ \ {f}])
    BY <1>10 DEF RemoveFlags, Toggles
  <2> QED
    BY <1>a, <2>1, <2>2, DefaultsKeep
<1>11. CASE Burn
  <2>1. imported = "loaded" /\ cfg' = cfg /\ chain' = Run(given, cfg.flags)
    BY <1>11 DEF Burn
  <2>2. MediumOf(given.disc) \in Media
    BY <1>a, <2>1, FollowedAreMedia DEF Imports
  <2> QED
    BY <1>0, <1>a, <2>1, <2>2, RunMerges
<1>12. CASE CancelProperties \/ UNCHANGED vars
  <2>1. imported = "loaded" /\ cfg' = cfg /\ (pc' # pc => chain' = Idle)
    BY <1>12 DEF CancelProperties, vars, ChainInv
  <2>2. pc' # pc => chain'.does = "nothing"
    BY <2>1 DEF Idle
  <2> QED
    BY <1>a, <2>1, <2>2
<1>13. CASE BurnEnd
  <2>1. imported = "loaded" /\ cfg' = cfg /\ chain'.does = "nothing"
    BY <1>13 DEF BurnEnd, Idle
  <2> QED
    BY <1>a, <2>1
<1> QED
  BY <1>1, <1>2, <1>3, <1>4, <1>5, <1>6, <1>7, <1>8, <1>9, <1>10, <1>11, <1>12, <1>13 DEF Next, DiscsToo

(***************************************************************************)
(* A session that is loaded from a disc that allows it is merged with it,  *)
(* stays so whatever is set, and the recording does it, as long as the     *)
(* plugins do not change: for any discs the drives can write that way.     *)
(***************************************************************************)
THEOREM MergeIsKept == MergeableDiscs => (Spec => MergeKeeps)
<1> SUFFICES ASSUME MergeableDiscs PROVE Spec => MergeKeeps
  OBVIOUS
<1>1. TypeOK /\ MergeInv /\ ChainInv /\ [Next]_vars =>
        [imported' = "loaded" /\ Mergeable /\ given'.setup = given.setup /\ ~disabled =>
           /\ "MERGE" \in cfg'.flags
           /\ (chain'.does = "record" /\ pc' # pc) =>
                ("MERGE" \in chain'.flags /\ chain'.task.blanking = "none")]_vars
  BY StepMerges
<1> QED
  BY InitType, NextType, InitMerges, NextMerges, InitChain, NextChain, <1>1, PTL DEF Spec, MergeKeeps
=============================================================================
