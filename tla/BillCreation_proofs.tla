------------------------ MODULE BillCreation_proofs ------------------------
(***************************************************************************)
(* Theorems about BillCreation, for any payers, amounts and entries.       *)
(*                                                                         *)
(* The form, the server and the progress page take the same sums, which is *)
(* enough for the first two theorems. For the others, what a sum over the  *)
(* payers amounts to is worked out from its definition first.              *)
(***************************************************************************)
EXTENDS BillCreation, TLAPS, FiniteSetTheorems, SequenceTheorems, WellFoundedInduction

-----------------------------------------------------------------------------
(* The form and the server agree.                                          *)

\* Nothing of the division depends on the rule for the remainder.
LEMMA RuleDoesNotMove ==
    ASSUME NEW d, NEW j, NEW k
    PROVE  LET a == InputWith(d, j)
               b == InputWith(d, k)
           IN /\ PayersOf(a) = PayersOf(b)
              /\ HasBase(a) <=> HasBase(b)
              /\ HasEntries(a) <=> HasEntries(b)
              /\ \A p : FloorUnits(a, p) = FloorUnits(b, p)
              /\ RemainderUnits(a) = RemainderUnits(b)
<1> DEFINE a == InputWith(d, j)
           b == InputWith(d, k)
<1>1. /\ a.total = b.total /\ a.funded = b.funded /\ a.payers = b.payers
      /\ a.strategy = b.strategy /\ a.entry = b.entry
  BY DEF InputWith
<1> HIDE DEF a, b
<1>2. PayersOf(a) = PayersOf(b) /\ Entries(a) = Entries(b)
  BY <1>1 DEF PayersOf, Entries
<1>3. Denominator(a) = Denominator(b) /\ Distributable(a) = Distributable(b)
  BY <1>1, <1>2 DEF Denominator, Distributable
<1>4. (HasBase(a) <=> HasBase(b)) /\ (HasEntries(a) <=> HasEntries(b))
  BY <1>1, <1>2 DEF HasBase, HasEntries
<1>5. \A p : FloorUnits(a, p) = FloorUnits(b, p)
  BY <1>1, <1>3 DEF FloorUnits, Weight
<1>6. RemainderUnits(a) = RemainderUnits(b)
  BY <1>1, <1>2, <1>3, <1>5 DEF RemainderUnits
<1> QED
  BY <1>2, <1>4, <1>5, <1>6 DEF a, b

\* Where no unit is left over, the rule does not decide whether an input allocates.
LEMMA NoRuleIsNeeded ==
    ASSUME NEW d, NEW k,
           Allocates(InputWith(d, k)), RemainderUnits(InputWith(d, k)) = 0
    PROVE  Allocates(InputWith(d, "none"))
<1> DEFINE a == InputWith(d, k)
           b == InputWith(d, "none")
<1>1. /\ PayersOf(a) = PayersOf(b) /\ RemainderUnits(b) = 0
      /\ HasBase(b) /\ HasEntries(b)
      /\ \A p : FloorUnits(a, p) = FloorUnits(b, p)
  BY RuleDoesNotMove DEF Allocates
<1>2. a.funded = b.funded /\ a.total = b.total /\ b.rule.kind = "none"
  BY DEF InputWith
<1>3. a.funded \in Int
  BY DEF Allocates, HasBase
<1>4. HasBase(a) /\ IsFinal(a) /\ RemainderUnits(a) = 0
  BY DEF Allocates
<1> HIDE DEF a, b
<1>5. \A p : Increment(a, p) = 0 /\ Increment(b, p) = 0
  BY <1>1, <1>4 DEF Increment
<1>6. Obligations(a) = Obligations(b)
  BY <1>1, <1>5 DEF Obligations, Obligation
<1>7. FinalFunded(a) = FinalFunded(b)
  BY <1>2, <1>3, <1>4 DEF FinalFunded
<1>8. IsFinal(b)
  BY <1>1, <1>2, <1>4, <1>6, <1>7 DEF IsFinal
<1>9. RuleFits(b)
  BY <1>1 DEF RuleFits
<1> QED
  BY <1>1, <1>8, <1>9 DEF Allocates, b

\* What a direct draft never carries: a funded part, or the creator's rule.
DirectIsPlain(d) == d.mode = "direct" => d.funded = 0 /\ d.kind # "creator"

\* A draft whose review may be sent is one the server accepts.
LEMMA ReadyIsAccepted ==
    ASSUME NEW d, d.mode \in Modes, DetailsReady(d), SplitReady(d), DirectIsPlain(d),
           Network = "testnet"
    PROVE  Accepts(ActiveInput(d), "testnet")
<1> DEFINE i == ActiveInput(d)
<1>1. i.mode = d.mode /\ i.mode \in {"representative", "direct"}
  BY DEF ActiveInput, DetailsReady, Modes
<1>2. /\ FormInput(d).funded = d.funded /\ FormInput(d).rule.kind = EffectiveKind(d)
      /\ FormInput(d).strategy = d.strategy
      /\ InputWith(d, "none").funded = d.funded
      /\ InputWith(d, "none").rule.kind = "none"
  BY DEF FormInput, InputWith
<1>3. d.mode = "direct" => d.funded = 0 /\ EffectiveKind(d) # "creator"
  BY DEF DirectIsPlain, EffectiveKind
<1>4. CASE HasRemainder(d)
  <2>1. i.split = FormInput(d)
    BY <1>4 DEF ActiveInput
  <2> QED
    BY <1>1, <1>2, <1>3, <2>1 DEF Accepts, SplitReady
<1>5. CASE ~HasRemainder(d)
  <2>1. i.split = InputWith(d, "none")
    BY <1>5 DEF ActiveInput
  <2>2. RemainderUnits(FormInput(d)) = 0
    <3>1. CASE d.strategy = "custom"
      BY <3>1, <1>2 DEF RemainderUnits
    <3>2. CASE d.strategy # "custom"
      BY <3>2, <1>5 DEF HasRemainder, SplitReady
    <3> QED BY <3>1, <3>2
  <2>3. Allocates(InputWith(d, "none"))
    BY <2>2, NoRuleIsNeeded DEF SplitReady, FormInput
  <2> QED
    BY <1>1, <1>2, <1>3, <2>1, <2>3 DEF Accepts
<1> QED
  BY <1>4, <1>5

-----------------------------------------------------------------------------
(* The draft that was sent is one the button allowed to send.              *)

IsPlain(d) ==
    /\ d = [mode |-> d.mode, total |-> d.total, funded |-> d.funded,
            payers |-> d.payers, strategy |-> d.strategy, entry |-> d.entry,
            kind |-> d.kind, who |-> d.who, increments |-> d.increments]
    /\ d.mode \in Modes
    /\ DirectIsPlain(d)

SendsReadyDrafts ==
    /\ IsPlain(draft)
    /\ pending # None =>
        /\ pending.mode \in Modes
        /\ DetailsReady(pending) /\ SplitReady(pending) /\ DirectIsPlain(pending)
        /\ review = None
        /\ error # "refused"

LEMMA NewDraftsArePlain == \A s : IsPlain(NewDraft(s))
<1> TAKE s
<1> DEFINE strategy == IF Network = "mainnet" THEN "equal" ELSE "custom"
           entry == [p \in Payers |-> Blank(strategy)]
<1>1. NewDraft(s) =
        [mode |-> "unset", total |-> 0, funded |-> 0, payers |-> s,
         strategy |-> strategy, entry |-> entry,
         kind |-> "none", who |-> None, increments |-> NoIncrements]
  BY DEF NewDraft
<1> HIDE DEF strategy, entry
<1> QED
  BY <1>1 DEF IsPlain, DirectIsPlain, Modes

LEMMA SendsReadyDraftsInit == Init => SendsReadyDrafts
  BY NewDraftsArePlain DEF Init, SendsReadyDrafts

\* Edits change the draft only, and leave a draft that is direct plain.
LEMMA EditsKeepDrafts ==
    ASSUME SendsReadyDrafts, EditDraft
    PROVE  SendsReadyDrafts'
<1> DEFINE Same == UNCHANGED <<pending, review, error, bill, paid>>
<1> DEFINE Plain == IsPlain(draft')
<1> USE DEF SendsReadyDrafts, IsPlain, DirectIsPlain, Modes, Edit, RuleKinds
<1>1. ASSUME NEW m \in Modes \ {"unset"}, SetMode(m) PROVE Same /\ Plain
  BY <1>1 DEF SetMode
<1>2. ASSUME NEW t \in Totals, SetTotal(t) PROVE Same /\ Plain
  BY <1>2 DEF SetTotal
<1>3. ASSUME NEW u \in Shares, SetFunded(u) PROVE Same /\ Plain
  BY <1>3 DEF SetFunded
<1>4. ASSUME NEW s \in Strategies, SelectStrategy(s) PROVE Same /\ Plain
  BY <1>4 DEF SelectStrategy
<1>5. ASSUME NEW p \in Payers, NEW v, SetEntry(p, v) PROVE Same /\ Plain
  BY <1>5 DEF SetEntry
<1>6. ASSUME NEW p \in Payers, AddPayer(p) \/ RemovePayer(p) \/ SelectWho(p)
      PROVE  Same /\ Plain
  BY <1>6 DEF AddPayer, RemovePayer, SelectWho
<1>7. ASSUME NEW p \in Payers, NEW u \in Extra, SetIncrement(p, u) PROVE Same /\ Plain
  BY <1>7 DEF SetIncrement
<1>8. ASSUME NEW k \in RuleKinds, SelectRule(k) PROVE Same /\ Plain
  BY <1>8 DEF SelectRule, Controls
<1>9. Same /\ Plain
  BY <1>1, <1>2, <1>3, <1>4, <1>5, <1>6, <1>7, <1>8 DEF EditDraft
<1> QED
  BY <1>9 DEF DetailsReady

LEMMA SendsReadyDraftsStep ==
    ASSUME SendsReadyDrafts, [Next]_vars
    PROVE  SendsReadyDrafts'
<1>1. CASE EditDraft
  BY <1>1, EditsKeepDrafts
<1>2. ASSUME NEW s \in FirstPayers, Discard(s) PROVE SendsReadyDrafts'
  BY <1>2, NewDraftsArePlain DEF Discard, SendsReadyDrafts
<1>3. CASE SubmitReview
  BY <1>3 DEF SubmitReview, Editing, SendsReadyDrafts, IsPlain
<1>4. CASE AnswerReview
  BY <1>4 DEF AnswerReview, SendsReadyDrafts
<1>5. CASE Reload
  BY <1>5 DEF Reload, Restored, SendsReadyDrafts, IsPlain, DirectIsPlain, Modes
<1>6. CASE BackToDraft
  BY <1>6 DEF BackToDraft, SendsReadyDrafts
<1>7. CASE Confirm
  <2>1. pending = None /\ pending' = None
    BY <1>7 DEF Confirm, SendsReadyDrafts
  <2>2. UNCHANGED draft \/ \E s : draft' = NewDraft(s)
    BY <1>7 DEF Confirm
  <2> QED
    BY <2>1, <2>2, NewDraftsArePlain DEF SendsReadyDrafts
<1>8. ASSUME NEW p \in Payers, PaySlot(p) PROVE SendsReadyDrafts'
  BY <1>8 DEF PaySlot, SendsReadyDrafts
<1>9. CASE UNCHANGED vars
  BY <1>9 DEF vars, SendsReadyDrafts
<1> QED
  BY <1>1, <1>2, <1>3, <1>4, <1>5, <1>6, <1>7, <1>8, <1>9 DEF Next

\* On Testnet no review of a draft the form calls exact is refused, whatever the
\* amounts, the entries and the way the draft came about.
THEOREM ReviewsAreAccepted ==
    ASSUME Network = "testnet"
    PROVE  Spec => ExactDraftsAreAccepted
<1>1. Init => SendsReadyDrafts
  BY SendsReadyDraftsInit
<1>2. SendsReadyDrafts /\ [Next]_vars => SendsReadyDrafts'
  BY SendsReadyDraftsStep
<1>3. SendsReadyDrafts /\ [Next]_vars
        => [pending # None /\ pending' = None => error' # "refused"]_vars
  <2> SUFFICES ASSUME SendsReadyDrafts, [Next]_vars, pending # None, pending' = None
               PROVE  error' # "refused"
    OBVIOUS
  <2>1. CASE AnswerReview
    BY <2>1, ReadyIsAccepted DEF AnswerReview, SendsReadyDrafts
  <2>2. CASE Reload
    BY <2>2 DEF Reload, SendsReadyDrafts
  <2>3. CASE EditDraft
    <3>1. pending' = pending
      BY <2>3 DEF EditDraft, SetMode, SetTotal, SetFunded, SelectStrategy, SetEntry,
                  AddPayer, RemovePayer, SelectWho, SetIncrement, SelectRule, Edit
    <3> QED BY <3>1
  <2>4. CASE \E s \in FirstPayers : Discard(s)
    BY <2>4 DEF Discard
  <2>5. CASE SubmitReview \/ BackToDraft \/ Confirm
    BY <2>5 DEF SubmitReview, BackToDraft, Confirm, SendsReadyDrafts
  <2>6. CASE (\E p \in Payers : PaySlot(p)) \/ UNCHANGED vars
    BY <2>6 DEF PaySlot, vars
  <2> QED
    BY <2>1, <2>2, <2>3, <2>4, <2>5, <2>6 DEF Next
<1> QED
  BY <1>1, <1>2, <1>3, PTL DEF Spec, ExactDraftsAreAccepted

-----------------------------------------------------------------------------
(* What is stored adds up.                                                 *)

\* The rows of an accepted input add up by the sums of the progress page.
LEMMA AcceptedAddsUp ==
    ASSUME NEW i, Accepts(i, Network), bill' = Stored(i)
    PROVE  RowsAddUp'
<1> DEFINE a == i.split
<1>1. FinalFunded(a) + SumFunction(Obligations(a)) = a.total
  BY DEF Accepts, Allocates, IsFinal
<1>2. i.mode = "direct" => FinalFunded(a) = 0
  BY DEF Accepts, FinalFunded
<1>3. /\ bill'.mode = i.mode /\ bill'.funded = FinalFunded(a)
      /\ bill'.total = a.total /\ bill'.owed = Obligations(a)
  BY DEF Stored, FrozenFunded
<1>4. Owed(DOMAIN bill.owed)' = SumFunction(Obligations(a))
  <2>1. [p \in DOMAIN bill'.owed |-> bill'.owed[p]] = Obligations(a)
    BY <1>3 DEF Obligations
  <2> QED BY <2>1 DEF Owed
<1> QED
  BY <1>1, <1>2, <1>3, <1>4 DEF RowsAddUp

\* The progress page of every Bill that was ever stored is available, for any entries,
\* rule and mode.
THEOREM FrozenBillsAddUp == Spec => []ProgressIsAvailable
<1>1. Init => ProgressIsAvailable
  BY DEF Init, ProgressIsAvailable
<1>2. ASSUME ProgressIsAvailable, [Next]_vars PROVE ProgressIsAvailable'
  <2>1. CASE Confirm
    <3>1. CASE bill' = bill
      BY <3>1, <1>2 DEF ProgressIsAvailable, RowsAddUp, Owed
    <3>2. CASE bill' # bill
      <4>1. Accepts(ActiveInput(draft), Network) /\ bill' = Stored(ActiveInput(draft))
        BY <2>1, <3>2 DEF Confirm
      <4> QED BY <4>1, AcceptedAddsUp DEF ProgressIsAvailable
    <3> QED BY <3>1, <3>2
  <2>2. CASE ~Confirm
    <3>1. bill' = bill
      BY <1>2, <2>2 DEF Next, vars, EditDraft, SetMode, SetTotal, SetFunded,
            SelectStrategy, SetEntry, AddPayer, RemovePayer, SelectWho, SetIncrement,
            SelectRule, Edit, Discard, SubmitReview, AnswerReview, Reload,
            BackToDraft, PaySlot
    <3> QED BY <3>1, <1>2 DEF ProgressIsAvailable, RowsAddUp, Owed
  <2> QED BY <2>1, <2>2
<1> QED
  BY <1>1, <1>2, PTL DEF Spec
-----------------------------------------------------------------------------
(* Sums.                                                                   *)

\* A set of numbers has a least one, and a family of subsets of a finite set one that no
\* element can be taken from.
LEMMA LeastNumber ==
    ASSUME NEW T, T \subseteq Nat, T # {}
    PROVE  \E n \in T : \A m \in T : n <= m
  <1>1. \E n \in T : \A m \in T : <<m, n>> \notin OpToRel(<, Nat)
    BY NatLessThanWellFounded, WFMin
  <1>2. PICK n \in T : \A m \in T : <<m, n>> \notin OpToRel(<, Nat)
    BY <1>1
  <1>3. ASSUME NEW m \in T PROVE n <= m
    <2>1. m \in Nat /\ n \in Nat /\ <<m, n>> \notin OpToRel(<, Nat)
      BY <1>2
    <2> QED  BY <2>1 DEF OpToRel
  <1> QED  BY <1>2, <1>3

LEMMA LeastSet ==
    ASSUME NEW S, IsFiniteSet(S), NEW B, B \subseteq SUBSET S, B # {}
    PROVE  \E s \in B : IsFiniteSet(s) /\ \A x \in s : s \ {x} \notin B
  <1>1. IsWellFoundedOn(StrictSubsetOrdering(S), SUBSET S)
    BY FS_StrictSubsetOrderingWellFounded, FS_FiniteSubsetsOfFinite
  <1>2. PICK s \in B : \A t \in B : <<t, s>> \notin StrictSubsetOrdering(S)
    BY <1>1, WFMin
  <1>3. IsFiniteSet(s)
    BY FS_Subset
  <1>4. ASSUME NEW x \in s, s \ {x} \in B PROVE FALSE
    <2>1. <<s \ {x}, s>> \in StrictSubsetOrdering(S)
      BY <1>4 DEF StrictSubsetOrdering
    <2> QED  BY <1>2, <1>4, <2>1
  <1> QED  BY <1>2, <1>3, <1>4

First(s) == CHOOSE x \in s : TRUE

Iterates(g, f, D) ==
    g = [s \in D |-> IF s = {} THEN 0 ELSE f[First(s)] + g[s \ {First(s)}]]

\* SumFunction folds over the first element of what is left.
LEMMA SumIsIterated ==
    ASSUME NEW f
    PROVE  SumFunction(f) = (CHOOSE g : Iterates(g, f, SUBSET DOMAIN f))[DOMAIN f]
  BY DEF SumFunction, SumFunctionOnSet, FoldFunctionOnSet, MapThenFoldSet, Iterates, First

LEMMA FirstIsIn == \A s : s # {} => First(s) \in s
  BY DEF First

\* Built up by the number of elements.
LEMMA IterateExists ==
    ASSUME NEW S, IsFiniteSet(S), NEW f
    PROVE  \E g : Iterates(g, f, SUBSET S)
  <1> DEFINE Level(n) == {s \in SUBSET S : Cardinality(s) <= n}
             T == {n \in Nat : ~\E g : Iterates(g, f, Level(n))}
  <1>1. SUFFICES T = {}
    <2>1. Cardinality(S) \in Nat /\ Level(Cardinality(S)) = SUBSET S
      BY FS_CardinalityType, FS_Subset
    <2> QED  BY <2>1
  <1>2. SUFFICES ASSUME T # {} PROVE FALSE
    OBVIOUS
  <1>3. PICK n \in T : \A m \in T : n <= m
    <2>1. T \subseteq Nat
      OBVIOUS
    <2> HIDE DEF T
    <2> QED  BY <2>1, <1>2, LeastNumber, Zenon
  <1>4. \A s \in SUBSET S : IsFiniteSet(s) /\ Cardinality(s) \in Nat
    BY FS_Subset, FS_CardinalityType
  <1>5. CASE n = 0
    <2> DEFINE g == [s \in Level(0) |-> 0]
    <2>1. \A s \in Level(0) : s = {}
      BY <1>4, FS_EmptySet
    <2>2. g = [s \in Level(0) |-> IF s = {} THEN 0 ELSE f[First(s)] + g[s \ {First(s)}]]
      BY <2>1
    <2>3. Iterates(g, f, Level(0))
      BY <2>2 DEF Iterates
    <2> QED  BY <2>3, <1>3, <1>5
  <1>6. CASE n # 0
    <2>1. n \in Nat /\ n - 1 \in Nat /\ n - 1 \notin T
      <3>1. n \in Nat
        OBVIOUS
      <3> HIDE DEF T
      <3> QED  BY <3>1, <1>3, <1>6
    <2>2. PICK h : Iterates(h, f, Level(n - 1))
      BY <2>1
    <2> DEFINE g == [s \in Level(n) |-> IF s = {} THEN 0 ELSE f[First(s)] + h[s \ {First(s)}]]
    <2>3. ASSUME NEW s \in Level(n), s # {}
          PROVE  s \ {First(s)} \in Level(n - 1) /\ s \ {First(s)} \in Level(n)
      BY <2>1, <2>3, <1>4, FirstIsIn, FS_RemoveElement
    <2>4. ASSUME NEW t, t \in Level(n - 1), t \in Level(n) PROVE g[t] = h[t]
      BY <2>2, <2>4 DEF Iterates
    <2>5. ASSUME NEW s \in Level(n)
          PROVE  g[s] = IF s = {} THEN 0 ELSE f[First(s)] + g[s \ {First(s)}]
      <3>1. g[s] = IF s = {} THEN 0 ELSE f[First(s)] + h[s \ {First(s)}]
        OBVIOUS
      <3>2. s # {} => g[s \ {First(s)}] = h[s \ {First(s)}]
        BY <2>3, <2>4
      <3> HIDE DEF g
      <3> QED  BY <3>1, <3>2
    <2>6. g = [s \in Level(n) |-> g[s]]
      OBVIOUS
    <2>7. Iterates(g, f, Level(n))
      <3> HIDE DEF g
      <3> QED  BY <2>5, <2>6 DEF Iterates
    <2> QED  BY <2>7, <1>3
  <1> QED  BY <1>5, <1>6

\* An iterate is determined by what it is iterated over.
LEMMA IteratesAgree ==
    ASSUME NEW S, IsFiniteSet(S), NEW T \in SUBSET S, NEW e, NEW f, \A x \in T : e[x] = f[x],
           NEW g, Iterates(g, e, SUBSET T), NEW h, Iterates(h, f, SUBSET S)
    PROVE  g[T] = h[T]
  <1> DEFINE B == {s \in SUBSET T : g[s] # h[s]}
  <1>1. SUFFICES B = {}
    OBVIOUS
  <1>2. SUFFICES ASSUME B # {} PROVE FALSE
    OBVIOUS
  <1>3. PICK s \in B : \A x \in s : s \ {x} \notin B
    <2>1. B \subseteq SUBSET S
      OBVIOUS
    <2> HIDE DEF B
    <2> QED  BY <2>1, <1>2, LeastSet, Zenon
  <1>4. /\ g[s] = IF s = {} THEN 0 ELSE e[First(s)] + g[s \ {First(s)}]
        /\ h[s] = IF s = {} THEN 0 ELSE f[First(s)] + h[s \ {First(s)}]
    BY <1>3 DEF Iterates
  <1> QED  BY <1>3, <1>4, FirstIsIn

\* The sum of f over a part of its domain.
Part(f, S) == SumFunction([x \in S |-> f[x]])

LEMMA PartSteps ==
    ASSUME NEW f
    PROVE  /\ Part(f, {}) = 0
           /\ \A S : IsFiniteSet(S) /\ S # {} =>
                 Part(f, S) = f[First(S)] + Part(f, S \ {First(S)})
  <1> DEFINE On(S) == [x \in S |-> f[x]]
             G(S) == CHOOSE g : Iterates(g, On(S), SUBSET S)
  <1>1. ASSUME NEW S, IsFiniteSet(S) PROVE Iterates(G(S), On(S), SUBSET S) /\ Part(f, S) = G(S)[S]
    <2>1. DOMAIN On(S) = S
      OBVIOUS
    <2> HIDE DEF On
    <2>2. SumFunction(On(S)) = G(S)[S]
      BY <2>1, SumIsIterated
    <2>3. Iterates(G(S), On(S), SUBSET S)
      BY <1>1, IterateExists
    <2> QED  BY <2>2, <2>3 DEF Part, On
  <1>2. IsFiniteSet({}) 
    BY FS_EmptySet
  <1>3. Part(f, {}) = 0
    <2> HIDE DEF G
    <2> QED  BY <1>1, <1>2 DEF Iterates
  <1>4. ASSUME NEW S, IsFiniteSet(S), S # {}
        PROVE  Part(f, S) = f[First(S)] + Part(f, S \ {First(S)})
    <2> DEFINE T == S \ {First(S)}
    <2>1. First(S) \in S /\ IsFiniteSet(T) /\ T \in SUBSET S
      BY <1>4, FirstIsIn, FS_RemoveElement
    <2>2. \A x \in T : On(T)[x] = On(S)[x]
      OBVIOUS
    <2>3. Iterates(G(S), On(S), SUBSET S) /\ Part(f, S) = G(S)[S]
      BY <1>1, <1>4
    <2>4. Iterates(G(T), On(T), SUBSET T) /\ Part(f, T) = G(T)[T]
      BY <1>1, <2>1
    <2>5. On(S)[First(S)] = f[First(S)]
      BY <2>1
    <2> HIDE DEF On, G, T
    <2>6. G(T)[T] = G(S)[T]
      BY <1>4, <2>1, <2>2, <2>3, <2>4, IteratesAgree
    <2>7. G(S)[S] = On(S)[First(S)] + G(S)[T]
      BY <2>3, <1>4 DEF Iterates, T
    <2> QED  BY <2>3, <2>4, <2>5, <2>6, <2>7 DEF T
  <1> QED  BY <1>3, <1>4


\* What is false of a part of S only if it is false of that part without its first
\* element is true of S.
LEMMA PartInduction ==
    ASSUME NEW S, IsFiniteSet(S), NEW B \in SUBSET SUBSET S, {} \notin B,
           ASSUME NEW s \in SUBSET S, s # {}, IsFiniteSet(s), First(s) \in s,
                  s \ {First(s)} \in SUBSET S, s \ {First(s)} \notin B
           PROVE  s \notin B
    PROVE  S \notin B
  <1>1. SUFFICES ASSUME B # {} PROVE FALSE
    OBVIOUS
  <1>2. PICK s \in B : IsFiniteSet(s) /\ \A x \in s : s \ {x} \notin B
    BY <1>1, LeastSet, Zenon
  <1>3. s # {} /\ First(s) \in s
    BY <1>2, FirstIsIn
  <1>4. s \ {First(s)} \in SUBSET S /\ s \ {First(s)} \notin B
    BY <1>2, <1>3
  <1> QED  BY <1>2, <1>3, <1>4

\* Sums of naturals.
LEMMA SumIsNatural ==
    ASSUME NEW S, IsFiniteSet(S), NEW e, \A x \in S : e[x] \in Nat
    PROVE  Part(e, S) \in Nat
  <1> DEFINE B == {s \in SUBSET S : ~(Part(e, s) \in Nat)}
  <1>1. {} \notin B
    BY PartSteps
  <1>2. ASSUME NEW s \in SUBSET S, s # {}, IsFiniteSet(s), First(s) \in s,
               s \ {First(s)} \in SUBSET S, s \ {First(s)} \notin B
        PROVE  s \notin B
    <2> DEFINE x == First(s)
               t == s \ {x}
    <2>1. x \in S /\ \A f : Part(f, s) = f[x] + Part(f, t)
      BY <1>2, PartSteps
    <2>2. Part(e, t) \in Nat
      BY <1>2
    <2>3. Part(e, s) \in Nat
      <3> HIDE DEF x, t
      <3> QED  BY <2>1, <2>2
    <2> QED  BY <2>3
  <1>3. B \in SUBSET SUBSET S
    OBVIOUS
  <1>4. S \notin B
    <2> HIDE DEF B
    <2> QED  BY <1>1, <1>2, <1>3, PartInduction
  <1> QED  BY <1>4

\* Sums of sums.
LEMMA SumsAdd ==
    ASSUME NEW S, IsFiniteSet(S), NEW d, NEW e, NEW h,
           \A x \in S : d[x] \in Int /\ e[x] \in Int /\ h[x] = d[x] + e[x]
    PROVE  Part(d, S) \in Int /\ Part(e, S) \in Int /\ Part(h, S) = Part(d, S) + Part(e, S)
  <1> DEFINE B == {s \in SUBSET S : ~(Part(d, s) \in Int /\ Part(e, s) \in Int
                                      /\ Part(h, s) = Part(d, s) + Part(e, s))}
  <1>1. {} \notin B
    BY PartSteps
  <1>2. ASSUME NEW s \in SUBSET S, s # {}, IsFiniteSet(s), First(s) \in s,
               s \ {First(s)} \in SUBSET S, s \ {First(s)} \notin B
        PROVE  s \notin B
    <2> DEFINE x == First(s)
               t == s \ {x}
    <2>1. x \in S /\ \A f : Part(f, s) = f[x] + Part(f, t)
      BY <1>2, PartSteps
    <2>2. Part(d, t) \in Int /\ Part(e, t) \in Int /\ Part(h, t) = Part(d, t) + Part(e, t)
      BY <1>2
    <2>3. Part(d, s) \in Int /\ Part(e, s) \in Int /\ Part(h, s) = Part(d, s) + Part(e, s)
      <3> HIDE DEF x, t
      <3> QED  BY <2>1, <2>2
    <2> QED  BY <2>3
  <1>3. B \in SUBSET SUBSET S
    OBVIOUS
  <1>4. S \notin B
    <2> HIDE DEF B
    <2> QED  BY <1>1, <1>2, <1>3, PartInduction
  <1> QED  BY <1>4

\* A common factor.
LEMMA SumsScale ==
    ASSUME NEW S, IsFiniteSet(S), NEW e, NEW h, NEW k \in Int,
           \A x \in S : e[x] \in Int /\ h[x] = k * e[x]
    PROVE  Part(e, S) \in Int /\ Part(h, S) = k * Part(e, S)
  <1> DEFINE B == {s \in SUBSET S : ~(Part(e, s) \in Int /\ Part(h, s) = k * Part(e, s))}
  <1>1. {} \notin B
    BY PartSteps
  <1>2. ASSUME NEW s \in SUBSET S, s # {}, IsFiniteSet(s), First(s) \in s,
               s \ {First(s)} \in SUBSET S, s \ {First(s)} \notin B
        PROVE  s \notin B
    <2> DEFINE x == First(s)
               t == s \ {x}
    <2>1. x \in S /\ \A f : Part(f, s) = f[x] + Part(f, t)
      BY <1>2, PartSteps
    <2>2. Part(e, t) \in Int /\ Part(h, t) = k * Part(e, t)
      BY <1>2
    <2>3. Part(e, s) \in Int /\ Part(h, s) = k * Part(e, s)
      <3> HIDE DEF x, t
      <3> QED  BY <2>1, <2>2
    <2> QED  BY <2>3
  <1>3. B \in SUBSET SUBSET S
    OBVIOUS
  <1>4. S \notin B
    <2> HIDE DEF B
    <2> QED  BY <1>1, <1>2, <1>3, PartInduction
  <1> QED  BY <1>4

\* Sums compare as the numbers do.
LEMMA SumsCompare ==
    ASSUME NEW S, IsFiniteSet(S), NEW d, NEW e,
           \A x \in S : d[x] \in Int /\ e[x] \in Int /\ d[x] <= e[x]
    PROVE  Part(d, S) \in Int /\ Part(e, S) \in Int /\ Part(d, S) <= Part(e, S)
  <1> DEFINE B == {s \in SUBSET S : ~(Part(d, s) \in Int /\ Part(e, s) \in Int /\ Part(d, s) <= Part(e, s))}
  <1>1. {} \notin B
    BY PartSteps
  <1>2. ASSUME NEW s \in SUBSET S, s # {}, IsFiniteSet(s), First(s) \in s,
               s \ {First(s)} \in SUBSET S, s \ {First(s)} \notin B
        PROVE  s \notin B
    <2> DEFINE x == First(s)
               t == s \ {x}
    <2>1. x \in S /\ \A f : Part(f, s) = f[x] + Part(f, t)
      BY <1>2, PartSteps
    <2>2. Part(d, t) \in Int /\ Part(e, t) \in Int /\ Part(d, t) <= Part(e, t)
      BY <1>2
    <2>3. Part(d, s) \in Int /\ Part(e, s) \in Int /\ Part(d, s) <= Part(e, s)
      <3> HIDE DEF x, t
      <3> QED  BY <2>1, <2>2
    <2> QED  BY <2>3
  <1>3. B \in SUBSET SUBSET S
    OBVIOUS
  <1>4. S \notin B
    <2> HIDE DEF B
    <2> QED  BY <1>1, <1>2, <1>3, PartInduction
  <1> QED  BY <1>4

\* Strictly, where there is a number.
LEMMA SumsCompareStrictly ==
    ASSUME NEW S, IsFiniteSet(S), NEW d, NEW e,
           \A x \in S : d[x] \in Int /\ e[x] \in Int /\ d[x] < e[x]
    PROVE  Part(d, S) \in Int /\ Part(e, S) \in Int /\ (S # {} => Part(d, S) < Part(e, S))
  <1> DEFINE B == {s \in SUBSET S : ~(Part(d, s) \in Int /\ Part(e, s) \in Int
                                       /\ (s # {} => Part(d, s) < Part(e, s)))}
  <1>1. {} \notin B
    BY PartSteps
  <1>2. ASSUME NEW s \in SUBSET S, s # {}, IsFiniteSet(s), First(s) \in s,
               s \ {First(s)} \in SUBSET S, s \ {First(s)} \notin B
        PROVE  s \notin B
    <2> DEFINE x == First(s)
               t == s \ {x}
    <2>1. x \in S /\ \A f : Part(f, s) = f[x] + Part(f, t)
      BY <1>2, PartSteps
    <2>2. Part(d, t) \in Int /\ Part(e, t) \in Int /\ (t # {} => Part(d, t) < Part(e, t))
      BY <1>2
    <2>3. Part(d, s) \in Int /\ Part(e, s) \in Int /\ (s # {} => Part(d, s) < Part(e, s))
      <3> HIDE DEF x, t
      <3> QED  BY <2>1, <2>2, PartSteps
    <2> QED  BY <2>3
  <1>3. B \in SUBSET SUBSET S
    OBVIOUS
  <1>4. S \notin B
    <2> HIDE DEF B
    <2> QED  BY <1>1, <1>2, <1>3, PartInduction
  <1> QED  BY <1>4

\* The sum of ones is their number.
LEMMA SumOfOnes ==
    ASSUME NEW S, IsFiniteSet(S), NEW e, \A x \in S : e[x] = 1
    PROVE  Part(e, S) = Cardinality(S)
  <1> DEFINE B == {s \in SUBSET S : ~(Part(e, s) = Cardinality(s))}
  <1>1. {} \notin B
    BY PartSteps, FS_EmptySet
  <1>2. ASSUME NEW s \in SUBSET S, s # {}, IsFiniteSet(s), First(s) \in s,
               s \ {First(s)} \in SUBSET S, s \ {First(s)} \notin B
        PROVE  s \notin B
    <2> DEFINE x == First(s)
               t == s \ {x}
    <2>1. x \in S /\ \A f : Part(f, s) = f[x] + Part(f, t)
      BY <1>2, PartSteps
    <2>2. Part(e, t) = Cardinality(t)
      BY <1>2
    <2>3. Part(e, s) = Cardinality(s)
      <3>1. Cardinality(s) \in Nat /\ Cardinality(t) = Cardinality(s) - 1
        BY <1>2, FS_RemoveElement, FS_CardinalityType
      <3> HIDE DEF x, t
      <3> QED  BY <2>1, <2>2, <3>1
    <2> QED  BY <2>3
  <1>3. B \in SUBSET SUBSET S
    OBVIOUS
  <1>4. S \notin B
    <2> HIDE DEF B
    <2> QED  BY <1>1, <1>2, <1>3, PartInduction
  <1> QED  BY <1>4

\* One number is not zero.
LEMMA SumOfOne ==
    ASSUME NEW S, IsFiniteSet(S), NEW e, NEW r \in Int, NEW w,
           \A x \in S : e[x] = IF x = w THEN r ELSE 0
    PROVE  Part(e, S) = IF w \in S THEN r ELSE 0
  <1> DEFINE B == {s \in SUBSET S : ~(Part(e, s) = IF w \in s THEN r ELSE 0)}
  <1>1. {} \notin B
    BY PartSteps
  <1>2. ASSUME NEW s \in SUBSET S, s # {}, IsFiniteSet(s), First(s) \in s,
               s \ {First(s)} \in SUBSET S, s \ {First(s)} \notin B
        PROVE  s \notin B
    <2> DEFINE x == First(s)
               t == s \ {x}
    <2>1. x \in S /\ \A f : Part(f, s) = f[x] + Part(f, t)
      BY <1>2, PartSteps
    <2>2. Part(e, t) = IF w \in t THEN r ELSE 0
      BY <1>2
    <2>3. Part(e, s) = IF w \in s THEN r ELSE 0
      <3> HIDE DEF x
      <3>1. x = w => w \notin t
        OBVIOUS
      <3>2. x # w => (w \in t <=> w \in s)
        OBVIOUS
      <3> HIDE DEF t
      <3>3. x = w => w \in s
        BY <1>2 DEF x
      <3> QED  BY <2>1, <2>2, <3>1, <3>2, <3>3
    <2> QED  BY <2>3
  <1>3. B \in SUBSET SUBSET S
    OBVIOUS
  <1>4. S \notin B
    <2> HIDE DEF B
    <2> QED  BY <1>1, <1>2, <1>3, PartInduction
  <1> QED  BY <1>4

-----------------------------------------------------------------------------
(* The division.                                                           *)

\* What the engine is given of a draft of the form.
IsInput(a) ==
    /\ a.total \in Nat /\ a.funded \in Nat
    /\ a.payers \in Seq(Payers) /\ a.payers # << >>
    /\ a.strategy \in Strategies /\ a.entry \in [Payers -> Nat]
    /\ a.rule.kind \in RuleKinds \cup {"none"} /\ a.rule.who \in Payers \cup {None}
    /\ a.rule.increments \in [Payers -> Nat]

LEMMA PayersAreFinite ==
    ASSUME NEW a, IsInput(a)
    PROVE  /\ PayersOf(a) \subseteq Payers /\ IsFiniteSet(PayersOf(a)) /\ a.payers[1] \in PayersOf(a)
           /\ Cardinality(PayersOf(a)) \in Nat \ {0}
  <1> DEFINE s == a.payers
             P == PayersOf(a)
  <1>1. s \in Seq(Payers) /\ DOMAIN s = 1..Len(s) /\ Len(s) \in Nat /\ Len(s) > 0
    BY DEF IsInput
  <1>2. P = {s[i] : i \in 1..Len(s)}
    BY <1>1 DEF PayersOf, Range
  <1>3. P \subseteq Payers /\ s[1] \in P
    BY <1>1, <1>2
  <1>4. s \in Surjection(1..Len(s), P)
    BY <1>1, <1>2 DEF Surjection
  <1>5. IsFiniteSet(1..Len(s))
    BY <1>1, FS_Interval
  <1>6. IsFiniteSet(P)
    BY <1>4, <1>5, FS_Surjection
  <1>7. Cardinality(P) \in Nat /\ Cardinality(P) # 0
    BY <1>3, <1>6, FS_CardinalityType, FS_EmptySet
  <1> QED  BY <1>3, <1>6, <1>7

LEMMA Quotient ==
    ASSUME NEW n \in Nat, NEW d \in Nat, d > 0
    PROVE  /\ n \div d \in Nat
           /\ d * (n \div d) <= n /\ n < d * (n \div d + 1)
  OBVIOUS

LEMMA CommonFactor ==
    ASSUME NEW m \in Int, NEW n \in Int, NEW d \in Nat, d > 0
    PROVE  /\ d * m <= d * n => m <= n
           /\ d * m < d * n => m < n
  OBVIOUS

\* What the payers' parts, their floors and what they are given of the remainder are.
Weights(a) == [p \in PayersOf(a) |-> Weight(a, p)]
Floors(a) == [p \in PayersOf(a) |-> FloorUnits(a, p)]
Increments(a) == [p \in PayersOf(a) |-> Increment(a, p)]

\* Each floor is the exact share rounded down.
LEMMA FloorsAreExact ==
    ASSUME NEW a, IsInput(a), HasBase(a), HasEntries(a), a.strategy # "custom"
    PROVE  /\ Distributable(a) \in Nat /\ Denominator(a) \in Nat \ {0}
           /\ Part(Weights(a), PayersOf(a)) = Denominator(a)
           /\ \A p \in PayersOf(a) :
                 /\ Weight(a, p) \in Nat /\ FloorUnits(a, p) \in Nat
                 /\ Denominator(a) * FloorUnits(a, p) <= Distributable(a) * Weight(a, p)
                 /\ Distributable(a) * Weight(a, p) < Denominator(a) * (FloorUnits(a, p) + 1)
  <1> DEFINE P == PayersOf(a)
             w == Weights(a)
             n == Denominator(a)
             d == Distributable(a)
  <1>1. d \in Nat
    BY DEF IsInput, HasBase, Distributable
  <1>2. P \subseteq Payers /\ IsFiniteSet(P) /\ P # {} /\ Cardinality(P) \in Nat \ {0}
    BY PayersAreFinite
  <1>3. \A p \in P : Weight(a, p) \in Nat
    BY <1>2 DEF Weight, IsInput
  <1>4. ASSUME a.strategy = "equal" PROVE n \in Nat \ {0} /\ Part(w, P) = n
    <2>1. n = Cardinality(P)
      BY <1>4 DEF Denominator
    <2>2. \A p \in P : w[p] = 1
      BY <1>4 DEF Weight, Weights
    <2> HIDE DEF w, P
    <2>3. Part(w, P) = Cardinality(P)
      BY <2>2, <1>2, SumOfOnes
    <2> QED  BY <1>2, <2>1, <2>3
  <1>5. ASSUME a.strategy # "equal" PROVE n \in Nat \ {0} /\ Part(w, P) = n
    <2>1. n = SumFunction(Entries(a))
      BY <1>5 DEF Denominator, HasEntries, IsInput, Strategies
    <2>2. w = Entries(a) /\ w = [p \in P |-> w[p]]
      BY <1>5 DEF Weight, Weights, Entries
    <2>3. \A p \in P : w[p] \in Nat /\ w[p] > 0
      BY <1>3, <1>5 DEF HasEntries, Weight, Weights
    <2> HIDE DEF w, P
    <2>4. SumFunction(w) = Part(w, P)
      BY <2>2 DEF Part
    <2> DEFINE z == [p \in P |-> 0]
    <2>5. Part(w, P) \in Nat
      BY <1>2, <2>3, SumIsNatural
    <2>6. Part(w, P) > 0
      <3>1. \A p \in P : 0 * w[p] = z[p] /\ z[p] = 0 /\ z[p] < w[p] /\ w[p] \in Int
        BY <2>3
      <3> HIDE DEF z
      <3>2. Part(z, P) = 0 * Part(w, P)
        BY <1>2, <3>1, SumsScale
      <3>3. Part(z, P) < Part(w, P)
        BY <1>2, <3>1, SumsCompareStrictly
      <3> QED  BY <2>5, <3>2, <3>3
    <2> QED  BY <2>1, <2>2, <2>4, <2>5, <2>6
  <1>6. n \in Nat \ {0} /\ Part(w, P) = n
    BY <1>2, <1>4, <1>5
  <1>7. ASSUME NEW p \in P
        PROVE  /\ FloorUnits(a, p) \in Nat
               /\ n * FloorUnits(a, p) <= d * Weight(a, p)
               /\ d * Weight(a, p) < n * (FloorUnits(a, p) + 1)
    <2>1. FloorUnits(a, p) = (d * Weight(a, p)) \div n
      BY DEF FloorUnits
    <2>2. d * Weight(a, p) \in Nat
      BY <1>1, <1>3
    <2> HIDE DEF d, n
    <2> QED  BY <1>6, <2>1, <2>2, Quotient
  <1> QED  BY <1>1, <1>3, <1>6, <1>7

\* The floors and the remainder are what there is to distribute, and less than one unit
\* per payer is left over.
LEMMA FloorsAndRemainder ==
    ASSUME NEW a, IsInput(a), HasBase(a), HasEntries(a)
    PROVE  /\ \A p \in PayersOf(a) : FloorUnits(a, p) \in Nat
           /\ RemainderUnits(a) \in Nat
           /\ a.strategy # "custom" => RemainderUnits(a) < Cardinality(PayersOf(a))
           /\ SumFunction(Floors(a)) \in Nat
           /\ SumFunction(Floors(a)) + RemainderUnits(a) = Distributable(a)
  <1> DEFINE P == PayersOf(a)
             f == Floors(a)
  <1>1. P \subseteq Payers /\ IsFiniteSet(P) /\ P # {} /\ Cardinality(P) \in Nat \ {0}
    BY PayersAreFinite
  <1>2. \A p \in P : FloorUnits(a, p) \in Nat
    BY <1>1, FloorsAreExact DEF FloorUnits, IsInput
  <1>3. f = [p \in P |-> FloorUnits(a, p)] /\ \A p \in P : f[p] = FloorUnits(a, p)
    BY DEF Floors
  <1>4. SumFunction(f) = Part(f, P)
    BY <1>3 DEF Part
  <1>5. Part(f, P) \in Nat
    <2> HIDE DEF f, P
    <2> QED  BY <1>1, <1>2, <1>3, SumIsNatural
  <1>6. CASE a.strategy = "custom"
    <2>1. f = Entries(a)
      BY <1>6, <1>3 DEF Entries, FloorUnits
    <2>2. RemainderUnits(a) = 0
      BY <1>6 DEF RemainderUnits
    <2>3. a.funded + SumFunction(f) = a.total
      BY <2>1, <1>6 DEF HasEntries
    <2> QED  BY <1>2, <1>4, <1>5, <1>6, <2>2, <2>3 DEF Distributable, IsInput
  <1>7. CASE a.strategy # "custom"
    <2> DEFINE n == Denominator(a)
               d == Distributable(a)
               w == Weights(a)
               low == [p \in P |-> n * f[p]]
               exact == [p \in P |-> d * w[p]]
               next == [p \in P |-> f[p] + 1]
               high == [p \in P |-> n * next[p]]
               one == [p \in P |-> 1]
    <2>1. /\ d \in Nat /\ n \in Nat \ {0} /\ Part(w, P) = n
          /\ \A p \in P : w[p] \in Nat /\ n * f[p] <= d * w[p] /\ d * w[p] < n * (f[p] + 1)
      BY <1>3, <1>7, FloorsAreExact DEF Weights
    <2>2. RemainderUnits(a) = d - SumFunction(f)
      BY <1>7, <1>3 DEF RemainderUnits
    <2>3. /\ \A p \in P : low[p] = n * f[p] /\ exact[p] = d * w[p] /\ next[p] = f[p] + 1
          /\ \A p \in P : high[p] = n * next[p] /\ one[p] = 1
      OBVIOUS
    <2> HIDE DEF n, d, w, low, exact, next, high, one, f, P
    <2>4. \A p \in P : f[p] \in Int /\ n * f[p] \in Int /\ d * w[p] \in Int /\ n * (f[p] + 1) \in Int
      BY <1>2, <1>3, <2>1
    <2>5. Part(low, P) = n * Part(f, P) /\ Part(exact, P) = d * Part(w, P)
      <3>1. \A p \in P : f[p] \in Int /\ low[p] = n * f[p]
        BY <2>3, <2>4
      <3>2. \A p \in P : w[p] \in Int /\ exact[p] = d * w[p]
        BY <2>1, <2>3
      <3>3. n \in Int /\ d \in Int
        BY <2>1
      <3>4. Part(low, P) = n * Part(f, P)
        BY <1>1, <3>1, <3>3, SumsScale
      <3>5. Part(exact, P) = d * Part(w, P)
        BY <1>1, <3>2, <3>3, SumsScale
      <3> QED  BY <3>4, <3>5
    <2>6. Part(one, P) = Cardinality(P) /\ Part(next, P) = Part(f, P) + Cardinality(P)
      BY <1>1, <2>3, <2>4, SumOfOnes, SumsAdd
    <2>7. Part(high, P) = n * Part(next, P)
      BY <1>1, <2>1, <2>3, <2>4, SumsScale
    <2>8. Part(exact, P) < Part(high, P)
      BY <1>1, <2>1, <2>3, <2>4, SumsCompareStrictly
    <2>9. Part(low, P) <= Part(exact, P)
      BY <1>1, <2>1, <2>3, <2>4, SumsCompare
    <2>10. n * Part(f, P) <= n * d /\ n * d < n * (Part(f, P) + Cardinality(P))
      BY <2>1, <2>5, <2>6, <2>7, <2>8, <2>9
    <2>11. Part(f, P) <= d /\ d < Part(f, P) + Cardinality(P)
      BY <1>1, <1>5, <2>1, <2>10, CommonFactor
    <2> QED  BY <1>1, <1>2, <1>4, <1>5, <2>1, <2>2, <2>11 DEF f, P, d
  <1> QED  BY <1>6, <1>7

\* What the rule adds is the remainder, unless the recipient takes it.
LEMMA IncrementsAddUp ==
    ASSUME NEW a, IsInput(a), Allocates(a)
    PROVE  /\ \A p \in PayersOf(a) : Increment(a, p) \in Nat
           /\ SumFunction(Increments(a)) = IF a.rule.kind = "creator" THEN 0 ELSE RemainderUnits(a)
  <1> DEFINE P == PayersOf(a)
             k == a.rule.kind
             r == RemainderUnits(a)
             g == Increments(a)
  <1>1. P \subseteq Payers /\ IsFiniteSet(P) /\ a.payers[1] \in P
    BY PayersAreFinite
  <1>2. r \in Nat
    BY FloorsAndRemainder DEF Allocates
  <1>3. k \in RuleKinds \cup {"none"} /\ a.rule.increments \in [Payers -> Nat]
    BY DEF IsInput
  <1>4. \/ r = 0
        \/ k \in {"creator", "first_participant"}
        \/ k = "selected_participant" /\ a.rule.who \in P
        \/ k = "manual" /\ r = SumFunction([p \in P |-> a.rule.increments[p]])
    BY DEF Allocates, RuleFits
  <1> DEFINE Taker(p) == \/ k = "first_participant" /\ p = a.payers[1]
                         \/ k = "selected_participant" /\ p = a.rule.who
  <1>5. ASSUME NEW p
        PROVE  Increment(a, p) = IF r # 0 /\ k = "manual" THEN a.rule.increments[p]
                                 ELSE IF r # 0 /\ Taker(p) THEN r ELSE 0
    <2>1. k = "manual" => ~Taker(p)
      OBVIOUS
    <2> QED  BY <2>1, Zenon DEF Increment
  <1>6. \A p \in P : Increment(a, p) \in Nat
    BY <1>1, <1>2, <1>3, <1>5
  <1>7. g = [p \in P |-> Increment(a, p)] /\ \A p \in P : g[p] = Increment(a, p)
    BY DEF Increments
  <1>8. SumFunction(g) = Part(g, P)
    BY <1>7 DEF Part
  <1>9. Part(g, P) = IF k = "creator" THEN 0 ELSE r
    <2>1. ASSUME NEW w, NEW v \in Int, \A p \in P : Increment(a, p) = IF p = w THEN v ELSE 0
          PROVE  Part(g, P) = IF w \in P THEN v ELSE 0
      <3>1. \A p \in P : g[p] = IF p = w THEN v ELSE 0
        BY <1>7, <2>1
      <3> HIDE DEF g, P
      <3> QED  BY <1>1, <3>1, SumOfOne
    <2>2. CASE r = 0 \/ k \in {"creator", "none"}
      <3>1. \A p \in P : Increment(a, p) = IF p = a.payers[1] THEN 0 ELSE 0
        BY <1>5, <2>2
      <3>2. Part(g, P) = IF a.payers[1] \in P THEN 0 ELSE 0
        BY <2>1, <3>1
      <3> QED  BY <1>4, <2>2, <3>2
    <2>3. CASE r # 0 /\ k = "manual"
      <3>1. g = [p \in P |-> a.rule.increments[p]]
        BY <1>5, <1>7, <2>3
      <3> QED  BY <1>4, <1>8, <2>3, <3>1
    <2>4. CASE r # 0 /\ k = "first_participant"
      <3>1. \A p \in P : Increment(a, p) = IF p = a.payers[1] THEN r ELSE 0
        BY <1>5, <2>4
      <3>2. r \in Int
        BY <1>2
      <3>3. Part(g, P) = IF a.payers[1] \in P THEN r ELSE 0
        BY <2>1, <3>1, <3>2
      <3> QED  BY <1>1, <2>4, <3>3
    <2>5. CASE r # 0 /\ k = "selected_participant"
      <3>1. \A p \in P : Increment(a, p) = IF p = a.rule.who THEN r ELSE 0
        BY <1>5, <2>5
      <3>2. r \in Int
        BY <1>2
      <3>3. Part(g, P) = IF a.rule.who \in P THEN r ELSE 0
        BY <2>1, <3>1, <3>2
      <3> QED  BY <1>4, <2>5, <3>3
    <2> QED  BY <1>3, <2>2, <2>3, <2>4, <2>5 DEF RuleKinds
  <1> QED  BY <1>6, <1>8, <1>9

-----------------------------------------------------------------------------
(* What is stored.                                                         *)

\* The rows, one by one.
LEMMA StoredRows ==
    ASSUME NEW i, IsInput(i.split), Allocates(i.split), NEW b, b = Stored(i)
    PROVE  LET a == i.split
               P == PayersOf(a)
           IN /\ b.mode = i.mode /\ b.total = a.total /\ b.funded = FinalFunded(a)
              /\ b.owed = Obligations(a) /\ DOMAIN b.owed = P /\ DOMAIN b.share = P
              /\ b.strategy = a.strategy /\ b.remainder = RemainderUnits(a)
              /\ b.weights = IF a.strategy \in Weighted THEN Denominator(a) ELSE 0
              /\ b.rule = RemainderIdentity(a)
              /\ \A p \in P :
                    /\ b.owed[p] = Obligation(a, p) /\ b.owed[p] > 0
                    /\ b.share[p].input = IF a.strategy = "equal" THEN 0 ELSE a.entry[p]
                    /\ b.share[p].base = FloorUnits(a, p)
                    /\ b.share[p].increment = Increment(a, p)
                    /\ b.share[p].final = Obligation(a, p)
                    /\ Obligation(a, p) = FloorUnits(a, p) + Increment(a, p)
                    /\ FloorUnits(a, p) \in Nat /\ Increment(a, p) \in Nat
  <1> DEFINE a == i.split
             P == PayersOf(a)
             row(p) == [input |-> IF a.strategy = "equal" THEN 0 ELSE a.entry[p],
                        base |-> Obligation(a, p) - RecordedIncrement(a, p),
                        increment |-> RecordedIncrement(a, p),
                        final |-> Obligation(a, p)]
  <1>1. /\ b.mode = i.mode /\ b.total = a.total /\ b.funded = FinalFunded(a)
        /\ b.owed = Obligations(a)
        /\ b.strategy = a.strategy /\ b.remainder = RemainderUnits(a)
        /\ b.weights = IF a.strategy \in Weighted THEN Denominator(a) ELSE 0
        /\ b.rule = RemainderIdentity(a)
        /\ b.share = [p \in P |-> row(p)]
    BY DEF Stored, FrozenFunded
  <1>2. b.owed = [p \in P |-> Obligation(a, p)]
    BY <1>1 DEF Obligations
  <1>3. ASSUME NEW p \in P
        PROVE  /\ b.owed[p] = Obligation(a, p) /\ b.owed[p] > 0
               /\ b.share[p].input = IF a.strategy = "equal" THEN 0 ELSE a.entry[p]
               /\ b.share[p].base = FloorUnits(a, p)
               /\ b.share[p].increment = Increment(a, p)
               /\ b.share[p].final = Obligation(a, p)
               /\ Obligation(a, p) = FloorUnits(a, p) + Increment(a, p)
               /\ FloorUnits(a, p) \in Nat /\ Increment(a, p) \in Nat
    <2>1. FloorUnits(a, p) \in Nat /\ Increment(a, p) \in Nat
      BY FloorsAndRemainder, IncrementsAddUp DEF Allocates
    <2>2. Obligation(a, p) = FloorUnits(a, p) + Increment(a, p)
      BY DEF Obligation
    <2>3. b.owed[p] = Obligation(a, p) /\ Obligations(a)[p] > 0
      BY <1>2 DEF Allocates, IsFinal
    <2>4. b.share[p] = row(p)
      BY <1>1
    <2>5. /\ row(p).base = Obligation(a, p) - Increment(a, p) /\ row(p).increment = Increment(a, p)
          /\ row(p).final = Obligation(a, p)
          /\ row(p).input = IF a.strategy = "equal" THEN 0 ELSE a.entry[p]
      BY DEF RecordedIncrement
    <2> HIDE DEF row
    <2> QED  BY <1>1, <2>1, <2>2, <2>3, <2>4, <2>5
  <1> QED  BY <1>1, <1>2, <1>3

\* The rule that is kept.
LEMMA RuleIsKept ==
    ASSUME NEW a, IsInput(a), Allocates(a), NEW rule, rule = RemainderIdentity(a)
    PROVE  /\ RemainderUnits(a) = 0 <=> rule.kind = "none"
           /\ RemainderUnits(a) # 0 => rule.kind = a.rule.kind
           /\ rule.who # None <=> rule.kind \in {"first_participant", "selected_participant"}
  <1>1. /\ a.payers[1] # None /\ PayersOf(a) \subseteq Payers
    BY PayersAreFinite, ConstantsOK
  <1>2. CASE RemainderUnits(a) = 0
    <2>1. rule = [kind |-> "none", who |-> None]
      BY <1>2, Zenon DEF RemainderIdentity
    <2> QED  BY <1>2, <2>1
  <1>3. CASE RemainderUnits(a) # 0
    <2>1. \/ a.rule.kind \in {"creator", "first_participant", "manual"}
          \/ a.rule.kind = "selected_participant" /\ a.rule.who \in PayersOf(a)
      BY <1>3 DEF Allocates, RuleFits
    <2>2. CASE a.rule.kind \in {"creator", "manual"}
      <3>1. rule = [kind |-> a.rule.kind, who |-> None]
        BY <1>3, <2>2, Zenon DEF RemainderIdentity
      <3> QED  BY <1>3, <2>2, <3>1
    <2>3. CASE a.rule.kind = "first_participant"
      <3>1. rule = [kind |-> a.rule.kind, who |-> a.payers[1]]
        BY <1>3, <2>3, Zenon DEF RemainderIdentity
      <3> QED  BY <1>1, <1>3, <2>3, <3>1
    <2>4. CASE a.rule.kind = "selected_participant" /\ a.rule.who \in PayersOf(a)
      <3>1. rule = [kind |-> a.rule.kind, who |-> a.rule.who]
        BY <1>3, <2>4, Zenon DEF RemainderIdentity
      <3> QED  BY <1>1, <1>3, <2>4, <3>1, ConstantsOK
    <2> QED  BY <2>1, <2>2, <2>3, <2>4
  <1> QED  BY <1>2, <1>3

\* The tables take what the server accepts.
LEMMA AcceptedIsStorable ==
    ASSUME NEW i, IsInput(i.split), Accepts(i, Network), NEW b, b = Stored(i)
    PROVE  Storable(b)
  <1> DEFINE a == i.split
             P == PayersOf(a)
  <1>1. Allocates(a)
    BY DEF Accepts
  <1>2. b.strategy \in Weighted <=> b.weights # 0
    <2>1. /\ b.strategy = a.strategy
          /\ b.weights = IF a.strategy \in Weighted THEN Denominator(a) ELSE 0
      BY <1>1, StoredRows
    <2>2. a.strategy \in Weighted => Denominator(a) \in Nat \ {0}
      BY <1>1, FloorsAreExact DEF Allocates, Weighted
    <2> QED  BY <2>1, <2>2
  <1>3. b.remainder = RemainderUnits(a) /\ b.rule = RemainderIdentity(a) /\ RemainderUnits(a) \in Nat
    BY <1>1, StoredRows, FloorsAndRemainder DEF Allocates
  <1>4. /\ b.remainder = 0 <=> b.rule.kind = "none"
        /\ b.rule.who # None <=> b.rule.kind \in {"first_participant", "selected_participant"}
    BY <1>1, <1>3, RuleIsKept
  <1>5. \A p \in DOMAIN b.share :
            b.share[p].base >= 0 /\ b.share[p].increment >= 0 /\ b.share[p].final > 0
    BY <1>1, StoredRows
  <1>6. b.mode = "direct" => b.funded = 0
    <2>1. b.mode = i.mode /\ b.funded = FinalFunded(a)
      BY <1>1, StoredRows
    <2> QED  BY <2>1 DEF Accepts, FinalFunded
  <1> QED  BY <1>2, <1>3, <1>4, <1>5, <1>6 DEF Storable

-----------------------------------------------------------------------------
(* The Bill is what was stored of a draft of the form.                     *)

Drafts ==
    [mode : Modes, total : Nat, funded : Nat, payers : Seq(Payers), strategy : Strategies,
     entry : [Payers -> Nat], kind : RuleKinds \cup {"none"}, who : Payers \cup {None},
     increments : [Payers -> Nat]]

IsDraft(d) == d \in Drafts /\ Len(d.payers) >= 2

FormInv ==
    /\ IsDraft(draft)
    /\ error # "storage"
    /\ bill # None =>
          \E d : /\ IsDraft(d) /\ Accepts(ActiveInput(d), Network)
                 /\ bill = Stored(ActiveInput(d))

\* What a draft makes of itself for the engine is an input of it.
LEMMA InputsOfDrafts ==
    ASSUME NEW d, IsDraft(d)
    PROVE  IsInput(ActiveInput(d).split)
  <1>1. EffectiveKind(d) \in RuleKinds \cup {"none"}
    <2>1. EffectiveKind(d) \in {"first_participant", "none", d.kind}
      BY Zenon DEF EffectiveKind
    <2> QED  BY <2>1 DEF IsDraft, Drafts, RuleKinds
  <1>2. ASSUME NEW k \in RuleKinds \cup {"none"} PROVE IsInput(InputWith(d, k))
    <2> DEFINE a == InputWith(d, k)
    <2>1. /\ a.total = d.total /\ a.funded = d.funded /\ a.payers = d.payers
          /\ a.strategy = d.strategy /\ a.entry = d.entry /\ a.rule.kind = k
          /\ a.rule.who = d.who /\ a.rule.increments = d.increments
      BY DEF InputWith
    <2>2. /\ d.total \in Nat /\ d.funded \in Nat /\ d.payers \in Seq(Payers)
          /\ d.strategy \in Strategies /\ d.entry \in [Payers -> Nat]
          /\ d.who \in Payers \cup {None} /\ d.increments \in [Payers -> Nat]
      BY DEF IsDraft, Drafts
    <2>3. d.payers # << >>
      BY DEF IsDraft
    <2> HIDE DEF a
    <2>4. IsInput(a)
      BY <2>1, <2>2, <2>3 DEF IsInput
    <2> QED  BY <2>4 DEF a
  <1>3. ActiveInput(d).split \in {FormInput(d), InputWith(d, "none")}
    BY DEF ActiveInput
  <1> QED  BY <1>1, <1>2, <1>3 DEF FormInput

LEMMA NewDraftsAreDrafts ==
    ASSUME NEW s \in Seq(Payers), Len(s) >= 2
    PROVE  IsDraft(NewDraft(s))
  <1> DEFINE d == NewDraft(s)
             strategy == IF Network = "mainnet" THEN "equal" ELSE "custom"
  <1>1. /\ Blank(strategy) \in Nat /\ strategy \in Strategies
    BY DEF Blank, Strategies
  <1>2. d = [mode |-> "unset", total |-> 0, funded |-> 0, payers |-> s, strategy |-> strategy,
             entry |-> [p \in Payers |-> Blank(strategy)], kind |-> "none", who |-> None,
             increments |-> NoIncrements]
    BY DEF NewDraft
  <1> HIDE DEF d, strategy
  <1>3. d \in Drafts /\ d.payers = s
    BY <1>1, <1>2 DEF Drafts, Modes, NoIncrements
  <1> QED  BY <1>3 DEF IsDraft, d

LEMMA FirstPayersArePayers ==
    ASSUME NEW s \in FirstPayers
    PROVE  IsDraft(NewDraft(s))
  <1>1. s \in [1..2 -> Payers]
    BY DEF FirstPayers
  <1>2. s \in Seq(Payers) /\ Len(s) = 2
    <2>1. s = [i \in 1..2 |-> s[i]] /\ \A i \in 1..2 : s[i] \in Payers
      BY <1>1
    <2>2. [i \in 1..2 |-> s[i]] \in Seq(Payers) /\ Len([i \in 1..2 |-> s[i]]) = 2
      BY <2>1
    <2> QED  BY <2>1, <2>2
  <1> QED  BY <1>2, NewDraftsAreDrafts

LEMMA ShorterSequence ==
    ASSUME NEW s \in Seq(Payers), Len(s) > 2, NEW i \in DOMAIN s
    PROVE  /\ SubSeq(s, 1, i - 1) \o SubSeq(s, i + 1, Len(s)) \in Seq(Payers)
           /\ Len(SubSeq(s, 1, i - 1) \o SubSeq(s, i + 1, Len(s))) >= 2
  OBVIOUS

\* Every setter of the form leaves a draft.
LEMMA EditsMakeDrafts ==
    ASSUME IsDraft(draft), EditDraft
    PROVE  IsDraft(draft') /\ UNCHANGED <<error, bill>>
  <1> DEFINE Good == IsDraft(draft') /\ UNCHANGED <<error, bill>>
  <1> USE DEF Edit, IsDraft, Drafts
  <1>1. ASSUME NEW m \in Modes \ {"unset"}, SetMode(m) PROVE Good
    BY <1>1 DEF SetMode, RuleKinds
  <1>2. ASSUME NEW t \in Totals, SetTotal(t) PROVE Good
    BY <1>2, ConstantsOK DEF SetTotal
  <1>3. ASSUME NEW u \in Shares, SetFunded(u) PROVE Good
    BY <1>3, ConstantsOK DEF SetFunded
  <1>4. ASSUME NEW s \in Strategies, SelectStrategy(s) PROVE Good
    BY <1>4 DEF SelectStrategy, Blank, NoIncrements
  <1>5. ASSUME NEW p \in Payers, NEW v \in Values[draft.strategy], SetEntry(p, v) PROVE Good
    <2>1. v \in Nat
      BY ConstantsOK
    <2> QED  BY <1>5, <2>1 DEF SetEntry
  <1>6. ASSUME NEW p \in Payers, AddPayer(p) PROVE Good
    <2> DEFINE s == Append(draft.payers, p)
    <2>1. s \in Seq(Payers) /\ Len(s) >= 2
      <3>1. draft.payers \in Seq(Payers) /\ Len(draft.payers) >= 2
        OBVIOUS
      <3> QED  BY <3>1
    <2>2. draft' = [draft EXCEPT !.payers = s] /\ UNCHANGED <<error, bill>>
      BY <1>6 DEF AddPayer
    <2> HIDE DEF s
    <2> QED  BY <2>1, <2>2
  <1>7. ASSUME NEW p \in Payers, RemovePayer(p) PROVE Good
    <2>1. PICK i \in DOMAIN draft.payers :
            /\ Len(draft.payers) > 2
            /\ Edit([draft EXCEPT
                !.payers = SubSeq(@, 1, i - 1) \o SubSeq(@, i + 1, Len(@)),
                !.entry[p] = Blank(draft.strategy), !.increments[p] = 0,
                !.who = IF @ = p THEN None ELSE @])
      BY <1>7 DEF RemovePayer
    <2> DEFINE s == SubSeq(draft.payers, 1, i - 1) \o SubSeq(draft.payers, i + 1, Len(draft.payers))
    <2>2. s \in Seq(Payers) /\ Len(s) >= 2
      <3>1. draft.payers \in Seq(Payers)
        OBVIOUS
      <3> QED  BY <2>1, <3>1, ShorterSequence
    <2> DEFINE e == [draft.entry EXCEPT ![p] = Blank(draft.strategy)]
               n == [draft.increments EXCEPT ![p] = 0]
               w == IF draft.who = p THEN None ELSE draft.who
    <2>3. draft' = [draft EXCEPT !.payers = s, !.entry = e, !.increments = n, !.who = w]
      BY <2>1
    <2>4. e \in [Payers -> Nat] /\ n \in [Payers -> Nat] /\ w \in Payers \cup {None}
      BY DEF Blank
    <2>5. UNCHANGED <<error, bill>>
      BY <2>1
    <2> HIDE DEF s, e, n, w
    <2> QED  BY <2>2, <2>3, <2>4, <2>5
  <1>8. ASSUME NEW p \in Payers, SelectWho(p) PROVE Good
    BY <1>8 DEF SelectWho
  <1>9. ASSUME NEW p \in Payers, NEW u \in Extra, SetIncrement(p, u) PROVE Good
    BY <1>9, ConstantsOK DEF SetIncrement
  <1>10. ASSUME NEW k \in RuleKinds, SelectRule(k) PROVE Good
    BY <1>10 DEF SelectRule
  <1> HIDE DEF Good
  <1>11. Good
    BY <1>1, <1>2, <1>3, <1>4, <1>5, <1>6, <1>7, <1>8, <1>9, <1>10, Zenon DEF EditDraft
  <1> QED  BY <1>11 DEF Good

LEMMA FormInvStep ==
    ASSUME FormInv, [Next]_vars
    PROVE  FormInv'
  <1> USE DEF FormInv
  <1>1. CASE EditDraft
    BY <1>1, EditsMakeDrafts
  <1>2. ASSUME NEW s \in FirstPayers, Discard(s) PROVE FormInv'
    BY <1>2, FirstPayersArePayers DEF Discard
  <1>3. CASE SubmitReview \/ AnswerReview \/ BackToDraft
    BY <1>3 DEF SubmitReview, AnswerReview, BackToDraft
  <1>4. CASE Reload
    <2>1. IsDraft(Restored(draft))
      BY DEF Restored, IsDraft, Drafts
    <2> QED  BY <1>4, <2>1 DEF Reload
  <1>5. CASE Confirm
    <2> DEFINE i == ActiveInput(draft)
    <2>1. Accepts(i, Network) => Storable(Stored(i))
      BY InputsOfDrafts, AcceptedIsStorable
    <2>2. CASE Accepts(i, Network)
      <3>1. error' = "none" /\ bill' = Stored(i) /\ draft' = NewDraft(SubSeq(draft.payers, 1, 2))
        BY <1>5, <2>1, <2>2 DEF Confirm
      <3>2. draft.payers \in Seq(Payers) /\ Len(draft.payers) >= 2
        BY DEF IsDraft, Drafts
      <3> DEFINE s == SubSeq(draft.payers, 1, 2)
      <3>3. s \in Seq(Payers) /\ Len(s) >= 2
        BY <3>2
      <3>4. draft' = NewDraft(s)
        BY <3>1
      <3> HIDE DEF s
      <3>5. IsDraft(draft')
        BY <3>3, <3>4, NewDraftsAreDrafts
      <3> QED  BY <2>2, <3>1, <3>5
    <2>3. CASE ~Accepts(i, Network)
      <3>1. error' = "refused" /\ UNCHANGED <<bill, draft>>
        BY <1>5, <2>3 DEF Confirm
      <3> QED  BY <3>1
    <2> QED  BY <2>2, <2>3
  <1>6. ASSUME NEW p \in Payers, PaySlot(p) PROVE FormInv'
    BY <1>6 DEF PaySlot
  <1>7. CASE UNCHANGED vars
    BY <1>7 DEF vars
  <1> QED  BY <1>1, <1>2, <1>3, <1>4, <1>5, <1>6, <1>7 DEF Next

\* Whatever was edited, reviewed, restored and confirmed in between, the stored Bill is what
\* the server accepted of some draft of the form, and no accepted Bill failed on the CHECKs
\* of the tables.
THEOREM BillsComeFromDrafts == Spec => []FormInv
  <1>1. Init => FormInv
    BY FirstPayersArePayers DEF Init, FormInv
  <1>2. FormInv /\ [Next]_vars => FormInv'
    BY FormInvStep
  <1> QED  BY <1>1, <1>2, PTL DEF Spec

\* For any draft, strategy and rule the batch of createPublishedBill loses nothing between
\* the tables: base and increment of every participant make what its slot owes, the bases
\* and the remainder what was distributed, the increments the remainder.
THEOREM RecordsExplainBills == Spec => []RecordsExplainTheBill
  <1>1. ASSUME FormInv PROVE RecordsExplainTheBill
    <2>1. SUFFICES ASSUME bill # None
                   PROVE  LET total(f) == SumFunction([p \in DOMAIN bill.share |-> bill.share[p][f]])
                              byCreator == bill.rule.kind = "creator"
                          IN  /\ DOMAIN bill.share = DOMAIN bill.owed
                              /\ \A p \in DOMAIN bill.owed :
                                   /\ bill.share[p].base + bill.share[p].increment = bill.share[p].final
                                   /\ bill.share[p].final = bill.owed[p]
                              /\ total("increment") = IF byCreator THEN 0 ELSE bill.remainder
                              /\ total("base") + bill.remainder + bill.funded
                                   = bill.total + (IF byCreator THEN bill.remainder ELSE 0)
      BY <1>1 DEF FormInv, RecordsExplainTheBill
    <2>2. PICK d : /\ IsDraft(d) /\ Accepts(ActiveInput(d), Network)
                   /\ bill = Stored(ActiveInput(d))
      BY <1>1, <2>1 DEF FormInv
    <2> DEFINE i == ActiveInput(d)
               a == i.split
               P == PayersOf(a)
               r == RemainderUnits(a)
    <2>3. IsInput(a) /\ Allocates(a)
      BY <2>2, InputsOfDrafts DEF Accepts
    <2>4. /\ bill.total = a.total /\ bill.funded = FinalFunded(a)
          /\ DOMAIN bill.owed = P /\ DOMAIN bill.share = P
          /\ bill.remainder = r /\ bill.rule = RemainderIdentity(a)
          /\ \A p \in P :
                /\ bill.owed[p] = Obligation(a, p)
                /\ bill.share[p].base = FloorUnits(a, p)
                /\ bill.share[p].increment = Increment(a, p)
                /\ bill.share[p].final = Obligation(a, p)
                /\ Obligation(a, p) = FloorUnits(a, p) + Increment(a, p)
      BY <2>2, <2>3, StoredRows
    <2>5. /\ r \in Nat /\ SumFunction(Floors(a)) \in Nat
          /\ SumFunction(Floors(a)) + r = a.total - a.funded
          /\ SumFunction(Increments(a)) = IF a.rule.kind = "creator" THEN 0 ELSE r
      BY <2>3, FloorsAndRemainder, IncrementsAddUp DEF Allocates, Distributable
    <2>6. /\ r = 0 <=> bill.rule.kind = "none"
          /\ r # 0 => bill.rule.kind = a.rule.kind
      BY <2>3, <2>4, RuleIsKept
    <2>7. a.total \in Nat /\ a.funded \in Nat
          /\ FinalFunded(a) = IF a.rule.kind = "creator" THEN a.funded + r ELSE a.funded
      BY <2>3 DEF IsInput, FinalFunded
    <2>8. [p \in DOMAIN bill.share |-> bill.share[p]["base"]] = Floors(a)
      BY <2>4 DEF Floors
    <2>9. [p \in DOMAIN bill.share |-> bill.share[p]["increment"]] = Increments(a)
      BY <2>4 DEF Increments
    <2> HIDE DEF r, P, a, i
    <2>10. SumFunction(Floors(a)) + bill.remainder + bill.funded
                = bill.total + (IF bill.rule.kind = "creator" THEN bill.remainder ELSE 0)
      BY <2>4, <2>5, <2>6, <2>7
    <2>11. SumFunction(Increments(a)) = IF bill.rule.kind = "creator" THEN 0 ELSE bill.remainder
      BY <2>4, <2>5, <2>6
    <2> QED  BY <2>4, <2>8, <2>9, <2>10, <2>11
  <1> QED  BY <1>1, BillsComeFromDrafts, PTL

\* For any amounts, weights and percentages the recorded base of a payer is the exact share
\* rounded down, and the recorded remainder is less than one unit per payer.
THEOREM SplitsAreFair == Spec => []SplitIsFair
  <1>1. ASSUME FormInv PROVE SplitIsFair
    <2> DEFINE equal == bill.strategy = "equal"
               m == Cardinality(DOMAIN bill.share)
               parts == IF equal THEN m ELSE bill.weights
               given == SumFunction([p \in DOMAIN bill.share |-> bill.share[p].base])
                           + bill.remainder
               exact(p) == given * (IF equal THEN 1 ELSE bill.share[p].input)
    <2>1. SUFFICES ASSUME bill # None, bill.strategy # "custom"
                   PROVE  /\ bill.remainder < m
                          /\ \A p \in DOMAIN bill.share :
                                /\ bill.share[p].base * parts <= exact(p)
                                /\ exact(p) < (bill.share[p].base + 1) * parts
      BY DEF SplitIsFair
    <2>2. PICK d : /\ IsDraft(d) /\ Accepts(ActiveInput(d), Network)
                   /\ bill = Stored(ActiveInput(d))
      BY <1>1, <2>1 DEF FormInv
    <2> DEFINE i == ActiveInput(d)
               a == i.split
               P == PayersOf(a)
    <2>3. IsInput(a) /\ Allocates(a)
      BY <2>2, InputsOfDrafts DEF Accepts
    <2>4. /\ bill.strategy = a.strategy /\ DOMAIN bill.share = P
          /\ bill.remainder = RemainderUnits(a)
          /\ bill.weights = IF a.strategy \in Weighted THEN Denominator(a) ELSE 0
          /\ \A p \in P : /\ bill.share[p].base = FloorUnits(a, p)
                          /\ bill.share[p].input = IF a.strategy = "equal" THEN 0 ELSE a.entry[p]
      BY <2>2, <2>3, StoredRows
    <2>5. /\ Distributable(a) \in Nat /\ Denominator(a) \in Nat \ {0}
          /\ \A p \in P :
                /\ Weight(a, p) \in Nat /\ FloorUnits(a, p) \in Nat
                /\ Denominator(a) * FloorUnits(a, p) <= Distributable(a) * Weight(a, p)
                /\ Distributable(a) * Weight(a, p) < Denominator(a) * (FloorUnits(a, p) + 1)
      BY <2>1, <2>3, <2>4, FloorsAreExact DEF Allocates
    <2>6. /\ RemainderUnits(a) < Cardinality(P)
          /\ SumFunction(Floors(a)) + RemainderUnits(a) = Distributable(a)
      BY <2>1, <2>3, <2>4, FloorsAndRemainder DEF Allocates
    <2>7. given = Distributable(a)
      <3>1. [p \in DOMAIN bill.share |-> bill.share[p].base] = Floors(a)
        BY <2>4 DEF Floors
      <3> QED  BY <3>1, <2>4, <2>6
    <2>8. parts = Denominator(a)
      BY <2>1, <2>3, <2>4 DEF IsInput, Strategies, Weighted, Denominator
    <2>9. \A p \in P : (IF equal THEN 1 ELSE bill.share[p].input) = Weight(a, p)
      BY <2>4 DEF Weight
    <2> HIDE DEF given, parts, equal, P, a, i
    <2>10. ASSUME NEW p \in P
           PROVE  /\ bill.share[p].base * parts <= exact(p)
                  /\ exact(p) < (bill.share[p].base + 1) * parts
      <3>1. exact(p) = Distributable(a) * Weight(a, p)
        BY <2>7, <2>9
      <3> QED  BY <2>4, <2>5, <2>8, <3>1
    <2> QED  BY <2>4, <2>6, <2>10
  <1> QED  BY <1>1, BillsComeFromDrafts, PTL

-----------------------------------------------------------------------------
(* Copies.                                                                 *)

\* An order of the slots has every payer once.
LEMMA OrdersHaveAllPayers ==
    ASSUME NEW P, IsFiniteSet(P), P \subseteq Payers, P # {},
           NEW s \in [1 .. Cardinality(P) -> P], IsInjective(s)
    PROVE  /\ s \in Seq(Payers) /\ s # << >> /\ Range(s) = P
           /\ \A j, k \in DOMAIN s : s[j] = s[k] => j = k
  <1> DEFINE n == Cardinality(P)
  <1>1. n \in Nat /\ n > 0 /\ IsFiniteSet(1..n) /\ Cardinality(1..n) = n
    <2>1. n \in Nat /\ n # 0
      BY FS_CardinalityType, FS_EmptySet
    <2> HIDE DEF n
    <2> QED  BY <2>1, FS_Interval
  <1>2. s \in Injection(1..n, P)
    BY DEF Injection, IsInjective
  <1>3. s \in Surjection(1..n, P)
    BY <1>1, <1>2, FS_Injection
  <1>4. Range(s) = P
    BY <1>3 DEF Surjection, Range
  <1>5. s \in Seq(Payers)
    BY <1>1, SeqDef
  <1>6. DOMAIN s = 1..n /\ 1 \in DOMAIN s
    BY <1>1
  <1>7. s # << >>
    <2>1. DOMAIN s = 1..Len(s) /\ Len(s) \in Nat
      BY <1>5
    <2>2. 1 \in 1..Len(s)
      BY <1>6, <2>1, Zenon
    <2>3. Len(s) # 0
      BY <2>1, <2>2
    <2> QED  BY <2>3
  <1>8. \A j, k \in DOMAIN s : s[j] = s[k] => j = k
    BY DEF IsInjective
  <1> QED  BY <1>4, <1>5, <1>7, <1>8

\* A custom draft of what every payer owes allocates to just that.
LEMMA CustomAmountsAllocate ==
    ASSUME NEW a, a.strategy = "custom", NEW P, PayersOf(a) = P, P # {}, IsFiniteSet(P),
           a.payers # << >>, \A j, k \in DOMAIN a.payers : a.payers[j] = a.payers[k] => j = k,
           NEW owed, owed = [p \in P |-> owed[p]], \A p \in P : owed[p] \in Nat /\ owed[p] > 0,
           \A p \in P : a.entry[p] = owed[p],
           a.funded \in Nat, a.funded + SumFunction(owed) = a.total,
           a.rule.kind # "creator"
    PROVE  /\ Allocates(a) /\ Obligations(a) = owed /\ FinalFunded(a) = a.funded
           /\ RemainderUnits(a) = 0 /\ a.total \in Nat /\ a.total > a.funded
  <1>1. SumFunction(owed) = Part(owed, P)
    BY DEF Part
  <1>2. Part(owed, P) \in Nat /\ Part(owed, P) > 0
    <2> DEFINE z == [p \in P |-> 0]
    <2>1. Part(owed, P) \in Nat
      BY SumIsNatural
    <2>2. \A p \in P : z[p] = 0 * owed[p] /\ owed[p] \in Int /\ z[p] \in Int /\ z[p] < owed[p]
      OBVIOUS
    <2> HIDE DEF z
    <2>3. Part(z, P) = 0 * Part(owed, P)
      BY <2>2, SumsScale
    <2>4. Part(z, P) < Part(owed, P)
      BY <2>2, SumsCompareStrictly
    <2> QED  BY <2>1, <2>3, <2>4
  <1>3. a.total \in Nat /\ a.total > a.funded
    BY <1>1, <1>2
  <1>4. RemainderUnits(a) = 0
    BY DEF RemainderUnits
  <1>5. Entries(a) = owed
    BY DEF Entries
  <1>6. \A p \in P : Increment(a, p) = 0 /\ FloorUnits(a, p) = owed[p]
    <2>1. \A p \in P : Increment(a, p) = 0
      BY <1>4, Zenon DEF Increment
    <2> QED  BY <2>1 DEF FloorUnits
  <1>7. Obligations(a) = owed
    BY <1>6 DEF Obligations, Obligation
  <1>8. FinalFunded(a) = a.funded
    BY DEF FinalFunded
  <1>9. HasBase(a)
    BY <1>3 DEF HasBase
  <1>10. HasEntries(a)
    BY <1>5 DEF HasEntries
  <1>11. RuleFits(a)
    BY <1>4 DEF RuleFits
  <1>12. IsFinal(a)
    BY <1>7, <1>8 DEF IsFinal
  <1> QED  BY <1>3, <1>4, <1>7, <1>8, <1>9, <1>10, <1>11, <1>12 DEF Allocates

\* Whatever strategy and rule made a Bill, and in whatever order its slots come back, the
\* copy that billProgressToCopyDraft makes of it is exact, accepted and stored as it is,
\* and asks of every payer what the Bill asked.
THEOREM CopiesReproduceBills == Spec => []CopyReproducesTheBill
  <1>1. ASSUME FormInv PROVE CopyReproducesTheBill
    <2>1. SUFFICES ASSUME bill # None, NEW order \in SlotOrders
                   PROVE  LET d == CopyDraft(order)
                              input == ActiveInput(d)
                          IN /\ DetailsReady(d) /\ SplitReady(d)
                             /\ Accepts(input, Network) /\ Storable(Stored(input))
                             /\ Stored(input).owed = bill.owed /\ Stored(input).funded = bill.funded
      BY DEF CopyReproducesTheBill
    <2>2. PICK made : /\ IsDraft(made) /\ Accepts(ActiveInput(made), Network)
                      /\ bill = Stored(ActiveInput(made))
      BY <1>1, <2>1 DEF FormInv
    <2> DEFINE i == ActiveInput(made)
               a == i.split
               P == PayersOf(a)
    <2>3. IsInput(a) /\ Allocates(a) /\ i.mode \in {"representative", "direct"}
      BY <2>2, InputsOfDrafts DEF Accepts
    <2>4. /\ bill.total = a.total /\ bill.funded = FinalFunded(a) /\ bill.mode = i.mode
          /\ bill.owed = Obligations(a) /\ DOMAIN bill.owed = P
          /\ \A p \in P : /\ bill.owed[p] = FloorUnits(a, p) + Increment(a, p) /\ bill.owed[p] > 0
                          /\ FloorUnits(a, p) \in Nat /\ Increment(a, p) \in Nat
      BY <2>2, <2>3, StoredRows
    <2>5. P \subseteq Payers /\ IsFiniteSet(P) /\ P # {}
      BY <2>3, PayersAreFinite
    <2>6. /\ bill.owed = [p \in P |-> bill.owed[p]]
          /\ \A p \in P : bill.owed[p] \in Nat /\ bill.owed[p] > 0
      BY <2>4 DEF Obligations
    <2>7. bill.funded + SumFunction(bill.owed) = bill.total
      BY <2>3, <2>4 DEF Allocates, IsFinal
    <2>8. bill.funded \in Nat
      <3>1. RemainderUnits(a) \in Nat /\ a.funded \in Nat
        BY <2>3, FloorsAndRemainder DEF IsInput, Allocates
      <3> HIDE DEF a
      <3> QED  BY <2>4, <3>1 DEF FinalFunded
    <2>9. bill.mode = "direct" => bill.funded = 0
      BY <2>2, <2>4 DEF Accepts, FinalFunded
    <2>10. /\ order \in Seq(Payers) /\ order # << >> /\ Range(order) = P
           /\ \A j, k \in DOMAIN order : order[j] = order[k] => j = k
      BY <2>4, <2>5, OrdersHaveAllPayers DEF SlotOrders
    <2> DEFINE d == CopyDraft(order)
               entry == [p \in Payers |-> IF p \in DOMAIN bill.owed THEN bill.owed[p] ELSE 0]
    <2>11. /\ d.mode = bill.mode /\ d.total = bill.total /\ d.funded = bill.funded
           /\ d.strategy = "custom" /\ d.entry = entry /\ d.payers = order
           /\ d.kind = "none" /\ d.who = None /\ d.increments = NoIncrements
      BY DEF CopyDraft, NewDraft
    <2>12. \A p \in P : entry[p] = bill.owed[p]
      BY <2>4, <2>5
    <2> HIDE DEF i, a, P, d, entry
    <2>13. ASSUME NEW k \in {"none", "first_participant"}, NEW c, c = InputWith(d, k)
           PROVE  /\ Allocates(c) /\ Obligations(c) = bill.owed /\ FinalFunded(c) = bill.funded
                  /\ RemainderUnits(c) = 0 /\ c.total > c.funded /\ c.total \in Nat
                  /\ c.funded = bill.funded /\ c.rule.kind = k /\ c.strategy = "custom"
                  /\ c.rule.who = None
      <3>1. /\ c.total = bill.total /\ c.funded = bill.funded /\ c.payers = order
            /\ c.strategy = "custom" /\ c.entry = entry /\ c.rule.kind = k /\ c.rule.who = None
        BY <2>11, <2>13 DEF InputWith
      <3>2. PayersOf(c) = P
        BY <3>1, <2>10 DEF PayersOf
      <3>3. c.rule.kind # "creator"
        BY <3>1
      <3>4. \A p \in P : c.entry[p] = bill.owed[p]
        BY <3>1, <2>12
      <3> QED
        BY <2>5, <2>6, <2>7, <2>8, <2>10, <3>1, <3>2, <3>3, <3>4, CustomAmountsAllocate
    <2>14. EffectiveKind(d) \in {"none", "first_participant"}
      BY <2>11, Zenon DEF EffectiveKind
    <2>15. SplitReady(d)
      BY <2>13, <2>14 DEF SplitReady, FormInput
    <2>16. ActiveInput(d).split = InputWith(d, "none") /\ ActiveInput(d).mode = bill.mode
      BY <2>11 DEF ActiveInput, HasRemainder
    <2> DEFINE in == ActiveInput(d)
               c == InputWith(d, "none")
               b == Stored(in)
    <2>17. /\ Allocates(c) /\ Obligations(c) = bill.owed /\ FinalFunded(c) = bill.funded
           /\ RemainderUnits(c) = 0 /\ c.total > c.funded /\ c.total \in Nat
           /\ c.funded = bill.funded /\ c.rule.kind = "none" /\ c.strategy = "custom"
           /\ c.rule.who = None
      BY <2>13
    <2>18. DetailsReady(d)
      <3>1. c.total = d.total /\ c.funded = d.funded
        BY DEF InputWith
      <3> QED  BY <2>3, <2>4, <2>8, <2>11, <2>17, <3>1 DEF DetailsReady
    <2>19. Accepts(in, Network)
      BY <2>3, <2>4, <2>9, <2>16, <2>17 DEF Accepts
    <2>20. /\ b.owed = bill.owed /\ b.funded = bill.funded
      BY <2>16, <2>17 DEF Stored, FrozenFunded
    <2>21. IsInput(c)
      <3>1. /\ c.total = bill.total /\ c.payers = order /\ c.entry = entry
            /\ c.rule.increments = NoIncrements
        BY <2>11 DEF InputWith
      <3>2. entry \in [Payers -> Nat] /\ NoIncrements \in [Payers -> Nat]
        BY <2>4, <2>6 DEF entry, NoIncrements
      <3> HIDE DEF c
      <3> QED  BY <2>8, <2>10, <2>17, <3>1, <3>2 DEF IsInput, Strategies, RuleKinds
    <2>22. Storable(b)
      BY <2>16, <2>19, <2>21, AcceptedIsStorable
    <2> QED  BY <2>15, <2>18, <2>19, <2>20, <2>22 DEF d
  <1> QED  BY <1>1, BillsComeFromDrafts, PTL

=============================================================================
