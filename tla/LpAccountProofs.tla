-------------------------- MODULE LpAccountProofs --------------------------
(* The registries of the LP Account, of TvlManager and of Erc20Allocation    *)
(* stay in step, and what the LP Account holds is listed in them, for every  *)
(* set of tokens, zaps, swaps and allocations.  The theorems about a         *)
(* NamedAddressSet by itself are stated of the instance of the zaps.         *)
EXTENDS LpAccount, SolidityMathLemmas

NoRepetitions(s) == \A i, j \in DOMAIN s : s[i] = s[j] => i = j

\* NamedAddressSet's list s and lookup f hold the same contracts of C.
SetInStep(C, s, f) ==
  /\ s \in Seq(C) /\ NoRepetitions(s)
  /\ f \in [Names -> C \cup {Null}]
  /\ \A n \in Names, a \in C : f[n] = a <=> a \in Range(s) /\ NameOf[a] = n

\* Contracts that may be in a NamedAddressSet.
HaveNames(C) == \A c \in C : NameOf[c] \in Names \cup {Empty} /\ c # Null

SetsInStep ==
  /\ SetInStep(ZapContracts, zaps, zapLookup)
  /\ SetInStep(SwapContracts, swaps, swapLookup)
  /\ SetInStep(AllocationContracts, allocations, allocationLookup)

CapitalTypes ==
  /\ tokens \in Seq(Tokens) /\ NoRepetitions(tokens)
  /\ held \in [Tokens -> Nat]
  /\ locked \in BOOLEAN
  /\ everListed \subseteq Tokens

\* Only a reward token has a fee.
FeesRegistered ==
  /\ rewardTokens \subseteq FeeTokens
  /\ rewardFee \in [Tokens -> Nat]
  /\ \A t \in Tokens : rewardFee[t] # 0 => t \in rewardTokens
  /\ treasury \in [Tokens -> Nat]

\* What is counted is in the history of it.
AllCounted ==
  /\ Range(tokens) \subseteq everListed
  /\ \A a \in Range(allocations) \ {Erc20Allocation} : Range(Counted[a]) \subseteq everListed

\* Some of the tokens H are held.
Holds(H) == \E s \in H : held[s] > 0

\* Inductive: CapitalIsListed alone is not, since an unwinding returns tokens
\* whose registration was checked when the strategy was deployed.
CapitalInv ==
  \A x \in Tokens, H \in SUBSET Tokens : ListedBefore(x, H) /\ Holds(H) => x \in everListed

LpInv == /\ SetsInStep /\ allocationLookup[Erc20Name] = Erc20Allocation
         /\ CapitalTypes /\ FeesRegistered
         /\ AllCounted /\ CapitalInv

-----------------------------------------------------------------------------
(* EnumerableSet and NamedAddressSet. *)

\* Appending a new element keeps a list free of repetitions.
LEMMA IncludeAdds ==
  ASSUME NEW S, NEW s \in Seq(S), NoRepetitions(s), NEW a \in S
  PROVE  /\ Include(s, a) \in Seq(S)
         /\ NoRepetitions(Include(s, a))
         /\ Range(Include(s, a)) = Range(s) \cup {a}
<1> DEFINE longer == Append(s, a)
<1>0. CASE IsMember(s, a)
  BY <1>0 DEF Include, IsMember
<1>1. CASE ~IsMember(s, a)
  <2>1. /\ longer \in Seq(S)
        /\ Len(s) \in Nat /\ DOMAIN s = 1 .. Len(s)
        /\ DOMAIN longer = 1 .. Len(s) + 1
        /\ longer[Len(s) + 1] = a
        /\ \A i \in 1 .. Len(s) : longer[i] = s[i]
    OBVIOUS
  <2> HIDE DEF longer
  <2>2. \A i \in 1 .. Len(s) : s[i] # a
    BY <1>1, <2>1 DEF IsMember, Range
  <2>3. NoRepetitions(longer)
    BY <2>1, <2>2 DEF NoRepetitions
  <2>4. ASSUME NEW b \in Range(longer) PROVE b \in Range(s) \cup {a}
    BY <2>1 DEF Range
  <2>5. ASSUME NEW b \in Range(s) PROVE b \in Range(longer)
    BY <2>1 DEF Range
  <2>6. a \in Range(longer)
    BY <2>1 DEF Range
  <2>7. Include(s, a) = longer
    BY <1>1 DEF Include, longer
  <2> QED BY <2>1, <2>3, <2>4, <2>5, <2>6, <2>7
<1> QED BY <1>0, <1>1

\* Removing an element leaves everything else, once.
LEMMA ExcludeRemoves ==
  ASSUME NEW S, NEW s \in Seq(S), NoRepetitions(s), NEW a
  PROVE  /\ Exclude(s, a) \in Seq(S)
         /\ NoRepetitions(Exclude(s, a))
         /\ Range(Exclude(s, a)) = Range(s) \ {a}
<1>0. CASE ~IsMember(s, a)
  BY <1>0 DEF Exclude, IsMember
<1>1. CASE IsMember(s, a)
  <2> DEFINE last == Len(s)
             moved == [s EXCEPT ![IndexIn(s, a)] = s[last]]
             left == SubSeq(moved, 1, last - 1)
  <2>1. last \in Nat /\ DOMAIN s = 1 .. last
    OBVIOUS
  <2>2. IndexIn(s, a) \in 1 .. last /\ s[IndexIn(s, a)] = a
    BY <1>1, <2>1 DEF IndexIn, IsMember, Range
  <2>3. moved \in Seq(S) /\ Len(moved) = last
    BY <2>1, <2>2
  <2>4. /\ left \in Seq(S)
        /\ Len(left) = last - 1
        /\ \A i \in 1 .. last - 1 : left[i] = IF i = IndexIn(s, a) THEN s[last] ELSE s[i]
    BY <2>1, <2>2, <2>3
  <2>5. Exclude(s, a) = left
    BY <1>1 DEF Exclude
  <2>6. DOMAIN left = 1 .. last - 1
    BY <2>1, <2>2, <2>4
  <2> HIDE DEF left, last
  <2>7. NoRepetitions(left)
    BY <2>1, <2>2, <2>4, <2>6 DEF NoRepetitions
  <2>8. ASSUME NEW b \in Range(left) PROVE b \in Range(s) /\ b # a
    <3>1. PICK i \in 1 .. last - 1 : b = left[i]
      BY <2>6 DEF Range
    <3> QED BY <3>1, <2>1, <2>2, <2>4 DEF Range, NoRepetitions
  <2>9. ASSUME NEW b \in Range(s), b # a PROVE b \in Range(left)
    <3>1. PICK i \in 1 .. last : b = s[i]
      BY <2>1 DEF Range
    <3>2. i # IndexIn(s, a)
      BY <3>1, <2>2, <2>9
    <3>3. CASE i = last
      <4>1. IndexIn(s, a) \in 1 .. last - 1 /\ left[IndexIn(s, a)] = b
        BY <3>1, <3>2, <3>3, <2>1, <2>2, <2>4
      <4> QED BY <4>1, <2>6 DEF Range
    <3>4. CASE i # last
      <4>1. i \in 1 .. last - 1
        BY <3>4, <2>1
      <4>2. left[i] = b
        BY <4>1, <3>1, <3>2, <2>4
      <4> QED BY <4>1, <4>2, <2>6 DEF Range
    <3> QED BY <3>3, <3>4
  <2> QED BY <2>4, <2>5, <2>7, <2>8, <2>9
<1> QED BY <1>0, <1>1

LEMMA AddKeepsStep ==
  ASSUME NEW C, HaveNames(C), NEW s, NEW f, SetInStep(C, s, f),
         NEW a \in C, a \notin Range(s), NameOf[a] # Empty, f[NameOf[a]] = Null
  PROVE  SetInStep(C, Include(s, a), [f EXCEPT ![NameOf[a]] = a])
<1> DEFINE g == [f EXCEPT ![NameOf[a]] = a]
<1>1. s \in Seq(C) /\ NoRepetitions(s) /\ f \in [Names -> C \cup {Null}]
  BY DEF SetInStep
<1>2. /\ Include(s, a) \in Seq(C) /\ NoRepetitions(Include(s, a))
      /\ Range(Include(s, a)) = Range(s) \cup {a}
  BY <1>1, IncludeAdds
<1>3. NameOf[a] \in Names
  BY DEF HaveNames
<1>4. g \in [Names -> C \cup {Null}]
  BY <1>1, <1>3
<1>5. ASSUME NEW n \in Names, NEW b \in C
      PROVE  g[n] = b <=> b \in Range(s) \cup {a} /\ NameOf[b] = n
  <2>1. f[n] = b <=> b \in Range(s) /\ NameOf[b] = n
    BY DEF SetInStep
  <2>2. b # Null
    BY DEF HaveNames
  <2> QED BY <1>1, <1>3, <2>1, <2>2
<1> HIDE DEF g
<1>6. SetInStep(C, Include(s, a), g)
  BY <1>2, <1>4, <1>5 DEF SetInStep
<1> QED BY <1>6 DEF g

LEMMA RemoveKeepsStep ==
  ASSUME NEW C, HaveNames(C), NEW s, NEW f, SetInStep(C, s, f),
         NEW n \in Names, f[n] # Null
  PROVE  SetInStep(C, Exclude(s, f[n]), [f EXCEPT ![n] = Null])
<1> DEFINE g == [f EXCEPT ![n] = Null]
<1>1. s \in Seq(C) /\ NoRepetitions(s) /\ f \in [Names -> C \cup {Null}]
  BY DEF SetInStep
<1>2. /\ Exclude(s, f[n]) \in Seq(C) /\ NoRepetitions(Exclude(s, f[n]))
      /\ Range(Exclude(s, f[n])) = Range(s) \ {f[n]}
  BY <1>1, ExcludeRemoves
<1>3. f[n] \in C /\ NameOf[f[n]] = n
  BY <1>1 DEF SetInStep
<1>4. g \in [Names -> C \cup {Null}]
  BY <1>1
<1>5. ASSUME NEW m \in Names, NEW b \in C
      PROVE  g[m] = b <=> b \in Range(s) \ {f[n]} /\ NameOf[b] = m
  <2>1. f[m] = b <=> b \in Range(s) /\ NameOf[b] = m
    BY DEF SetInStep
  <2>2. b # Null
    BY DEF HaveNames
  <2> QED BY <1>1, <1>3, <2>1, <2>2
<1> HIDE DEF g
<1>6. SetInStep(C, Exclude(s, f[n]), g)
  BY <1>2, <1>4, <1>5 DEF SetInStep
<1> QED BY <1>6 DEF g

LEMMA ZapsStayInStep ==
  ASSUME SetInStep(ZapContracts, zaps, zapLookup), Zaps!Next
  PROVE  SetInStep(ZapContracts, zaps, zapLookup)'
<1>0. HaveNames(ZapContracts)
  BY NamesAssumption DEF HaveNames
<1>1. ASSUME NEW c \in ZapContracts, Zaps!Add(c) PROVE SetInStep(ZapContracts, zaps, zapLookup)'
  <2>1. /\ c \notin Range(zaps) /\ NameOf[c] # Empty /\ zapLookup[NameOf[c]] = Null
        /\ zaps' = Include(zaps, c) /\ zapLookup' = [zapLookup EXCEPT ![NameOf[c]] = c]
    BY <1>1 DEF Zaps!Add, Zaps!IsMember, Zaps!Include, Zaps!Range, IsMember, Include, Range
  <2>2. SetInStep(ZapContracts, zaps', zapLookup')
    BY <1>0, <2>1, AddKeepsStep
  <2> QED BY <2>2 DEF SetInStep
<1>2. ASSUME NEW n \in Names, Zaps!Remove(n) PROVE SetInStep(ZapContracts, zaps, zapLookup)'
  <2>1. /\ zapLookup[n] # Null
        /\ zaps' = Exclude(zaps, zapLookup[n]) /\ zapLookup' = [zapLookup EXCEPT ![n] = Null]
    BY <1>2 DEF Zaps!Remove, Zaps!Exclude, Zaps!IndexIn, Zaps!IsMember, Zaps!Range,
                Exclude, IndexIn, IsMember, Range
  <2>2. SetInStep(ZapContracts, zaps', zapLookup')
    BY <1>0, <2>1, RemoveKeepsStep
  <2> QED BY <2>2 DEF SetInStep
<1> QED BY <1>1, <1>2 DEF Zaps!Next

LEMMA SwapsStayInStep ==
  ASSUME SetInStep(SwapContracts, swaps, swapLookup), Swaps!Next
  PROVE  SetInStep(SwapContracts, swaps, swapLookup)'
<1>0. HaveNames(SwapContracts)
  BY NamesAssumption DEF HaveNames
<1>1. ASSUME NEW c \in SwapContracts, Swaps!Add(c) PROVE SetInStep(SwapContracts, swaps, swapLookup)'
  <2>1. /\ c \notin Range(swaps) /\ NameOf[c] # Empty /\ swapLookup[NameOf[c]] = Null
        /\ swaps' = Include(swaps, c) /\ swapLookup' = [swapLookup EXCEPT ![NameOf[c]] = c]
    BY <1>1 DEF Swaps!Add, Swaps!IsMember, Swaps!Include, Swaps!Range, IsMember, Include, Range
  <2>2. SetInStep(SwapContracts, swaps', swapLookup')
    BY <1>0, <2>1, AddKeepsStep
  <2> QED BY <2>2 DEF SetInStep
<1>2. ASSUME NEW n \in Names, Swaps!Remove(n) PROVE SetInStep(SwapContracts, swaps, swapLookup)'
  <2>1. /\ swapLookup[n] # Null
        /\ swaps' = Exclude(swaps, swapLookup[n]) /\ swapLookup' = [swapLookup EXCEPT ![n] = Null]
    BY <1>2 DEF Swaps!Remove, Swaps!Exclude, Swaps!IndexIn, Swaps!IsMember, Swaps!Range,
                Exclude, IndexIn, IsMember, Range
  <2>2. SetInStep(SwapContracts, swaps', swapLookup')
    BY <1>0, <2>1, RemoveKeepsStep
  <2> QED BY <2>2 DEF SetInStep
<1> QED BY <1>1, <1>2 DEF Swaps!Next

LEMMA AllocationsStayInStep ==
  ASSUME SetInStep(AllocationContracts, allocations, allocationLookup), Allocations!Next
  PROVE  SetInStep(AllocationContracts, allocations, allocationLookup)'
<1>0. HaveNames(AllocationContracts)
  BY NamesAssumption DEF HaveNames
<1>1. ASSUME NEW c \in AllocationContracts, Allocations!Add(c) PROVE SetInStep(AllocationContracts, allocations, allocationLookup)'
  <2>1. /\ c \notin Range(allocations) /\ NameOf[c] # Empty /\ allocationLookup[NameOf[c]] = Null
        /\ allocations' = Include(allocations, c) /\ allocationLookup' = [allocationLookup EXCEPT ![NameOf[c]] = c]
    BY <1>1 DEF Allocations!Add, Allocations!IsMember, Allocations!Include, Allocations!Range, IsMember, Include, Range
  <2>2. SetInStep(AllocationContracts, allocations', allocationLookup')
    BY <1>0, <2>1, AddKeepsStep
  <2> QED BY <2>2 DEF SetInStep
<1>2. ASSUME NEW n \in Names, Allocations!Remove(n) PROVE SetInStep(AllocationContracts, allocations, allocationLookup)'
  <2>1. /\ allocationLookup[n] # Null
        /\ allocations' = Exclude(allocations, allocationLookup[n]) /\ allocationLookup' = [allocationLookup EXCEPT ![n] = Null]
    BY <1>2 DEF Allocations!Remove, Allocations!Exclude, Allocations!IndexIn, Allocations!IsMember, Allocations!Range,
                Exclude, IndexIn, IsMember, Range
  <2>2. SetInStep(AllocationContracts, allocations', allocationLookup')
    BY <1>0, <2>1, RemoveKeepsStep
  <2> QED BY <2>2 DEF SetInStep
<1> QED BY <1>1, <1>2 DEF Allocations!Next

\* SetInStep is NamedAddressSet's invariant with the types.
LEMMA InStepFromLists ==
  /\ SetInStep(ZapContracts, zaps, zapLookup) => Zaps!InStep
  /\ SetInStep(SwapContracts, swaps, swapLookup) => Swaps!InStep
  /\ SetInStep(AllocationContracts, allocations, allocationLookup) => Allocations!InStep
BY DEF SetInStep, NoRepetitions, Range,
       Zaps!InStep, Zaps!IsMember, Zaps!Range, Swaps!InStep, Swaps!IsMember, Swaps!Range,
       Allocations!InStep, Allocations!IsMember, Allocations!Range

\* In a NamedAddressSet by itself the lookup and the list always hold the same
\* contracts; stated of the zaps, which may be any set of contracts here.
THEOREM ListAndLookupInStep ==
  Zaps!Spec => [](SetInStep(ZapContracts, zaps, zapLookup) /\ Zaps!InStep)
<1> DEFINE Inv == SetInStep(ZapContracts, zaps, zapLookup)
<1>1. Zaps!Init => Inv
  BY NamesAssumption DEF Zaps!Init, SetInStep, NoRepetitions, HaveNames, Range
<1>2. Inv /\ [Zaps!Next]_(Zaps!vars) => Inv'
  BY ZapsStayInStep DEF Zaps!vars, SetInStep
<1>3. Inv => Zaps!InStep
  BY InStepFromLists
<1> HIDE DEF Inv
<1>4. Zaps!Spec => [](Inv /\ Zaps!InStep)
  BY <1>1, <1>2, <1>3, PTL DEF Zaps!Spec
<1> QED BY <1>4 DEF Inv

\* What an enumeration shows is what the lookup answers.
LEMMA ListedIsLookup ==
  SetInStep(ZapContracts, zaps, zapLookup) => Zaps!Listed = zapLookup
<1> SUFFICES ASSUME SetInStep(ZapContracts, zaps, zapLookup) PROVE Zaps!Listed = zapLookup
  OBVIOUS
<1>1. ASSUME NEW n \in Names PROVE Zaps!Listed[n] = zapLookup[n]
  <2>1. CASE \E a \in Range(zaps) : NameOf[a] = n
    <3>1. Zaps!Listed[n] \in Range(zaps) /\ NameOf[Zaps!Listed[n]] = n
      BY <2>1 DEF Zaps!Listed, Zaps!Range, Range
    <3>2. Zaps!Listed[n] \in ZapContracts
      BY <3>1 DEF SetInStep, Range
    <3> QED BY <3>1, <3>2 DEF SetInStep
  <2>2. CASE ~\E a \in Range(zaps) : NameOf[a] = n
    BY <2>2 DEF Zaps!Listed, SetInStep, Zaps!Range, Range
  <2> QED BY <2>1, <2>2
<1> QED BY <1>1 DEF SetInStep, Zaps!Listed

LEMMA ListedIsLookupNext ==
  (SetInStep(ZapContracts, zaps, zapLookup) => Zaps!Listed = zapLookup)'
BY ListedIsLookup, PTL

\* A NamedAddressSet read by enumeration implements the directory of names:
\* every registration enters one new name, every removal removes one.
THEOREM SetIsADirectory == Zaps!Spec => Zaps!ImplementsDirectory
<1> DEFINE Inv == SetInStep(ZapContracts, zaps, zapLookup)
<1>1. Inv /\ Zaps!Init => Zaps!Abstract!Init
  BY ListedIsLookup DEF Zaps!Init, Zaps!Abstract!Init
<1>2. Inv /\ Inv' /\ [Zaps!Next]_(Zaps!vars) => [Zaps!Abstract!Next]_(Zaps!Listed)
  <2> SUFFICES ASSUME Inv, Inv', [Zaps!Next]_(Zaps!vars)
               PROVE  [Zaps!Abstract!Next]_(Zaps!Listed)
    OBVIOUS
  <2>0. zapLookup \in [Names -> ZapContracts \cup {Null}]
    BY DEF SetInStep
  <2>1. Zaps!Listed = zapLookup
    BY ListedIsLookup
  <2>2. Zaps!Listed' = zapLookup'
    BY ListedIsLookupNext
  <2>3. ASSUME NEW a \in ZapContracts, Zaps!Add(a) PROVE Zaps!Abstract!Next
    <3> DEFINE e == [n \in {NameOf[a]} |-> a]
    <3>1. NameOf[a] \in Names
      BY <2>3, NamesAssumption DEF Zaps!Add
    <3>2. {NameOf[a]} \in SUBSET Names /\ e \in [{NameOf[a]} -> ZapContracts]
      BY <3>1
    <3>3. Zaps!Listed' = [n \in Names |-> IF n \in DOMAIN e THEN e[n] ELSE Zaps!Listed[n]]
      BY <2>0, <2>1, <2>2, <2>3, <3>1 DEF Zaps!Add
    <3>4. \A n \in DOMAIN e : Zaps!Listed[n] = Null
      BY <2>1, <2>3 DEF Zaps!Add
    <3>5. Zaps!Abstract!Enter(e)
      BY <3>3, <3>4 DEF Zaps!Abstract!Enter
    <3> QED BY <3>2, <3>5 DEF Zaps!Abstract!Next
  <2>4. ASSUME NEW n \in Names, Zaps!Remove(n) PROVE Zaps!Abstract!Next
    BY <2>1, <2>2, <2>4 DEF Zaps!Remove, Zaps!Abstract!Remove, Zaps!Abstract!Next
  <2>5. CASE UNCHANGED Zaps!vars
    BY <2>1, <2>2, <2>5 DEF Zaps!vars
  <2> QED BY <2>3, <2>4, <2>5 DEF Zaps!Next
<1>3. Zaps!Spec => []Inv
  BY ListAndLookupInStep, PTL
<1> QED BY <1>1, <1>2, <1>3, PTL DEF Zaps!Spec, Zaps!ImplementsDirectory, Zaps!Abstract!Spec

-----------------------------------------------------------------------------
(* The initial state and the operations of the Admin Safe. *)

LEMMA LpInvInit == Init => LpInv
<1> SUFFICES ASSUME Init PROVE LpInv
  OBVIOUS
<1>0. HaveNames(ZapContracts) /\ HaveNames(SwapContracts) /\ HaveNames(AllocationContracts)
  BY NamesAssumption DEF HaveNames
<1>1. SetInStep(ZapContracts, zaps, zapLookup) /\ SetInStep(SwapContracts, swaps, swapLookup)
  BY <1>0 DEF Init, Zaps!Init, Swaps!Init, SetInStep, NoRepetitions, HaveNames, Range
<1>2. SetInStep(AllocationContracts, allocations, allocationLookup)
  <2>1. allocations \in Seq(AllocationContracts) /\ DOMAIN allocations = {1}
        /\ allocations[1] = Erc20Allocation
    BY NamesAssumption DEF Init
  <2>2. NoRepetitions(allocations) /\ Range(allocations) = {Erc20Allocation}
    BY <2>1 DEF NoRepetitions, Range
  <2>3. allocationLookup \in [Names -> AllocationContracts \cup {Null}]
    BY NamesAssumption DEF Init
  <2>4. ASSUME NEW n \in Names, NEW a \in AllocationContracts
        PROVE  allocationLookup[n] = a <=> a \in {Erc20Allocation} /\ NameOf[a] = n
    BY <1>0, NamesAssumption DEF Init, HaveNames
  <2> QED BY <2>1, <2>2, <2>3, <2>4 DEF SetInStep
<1>3. allocationLookup[Erc20Name] = Erc20Allocation
  BY NamesAssumption DEF Init
<1>4. CapitalTypes
  <2>1. tokens \in Seq(Tokens) /\ DOMAIN tokens = {}
    BY DEF Init
  <2> QED BY <2>1, NamesAssumption DEF Init, CapitalTypes, NoRepetitions
<1>5. FeesRegistered
  BY FeesAssumption DEF Init, FeesRegistered
<1>6. AllCounted
  <2>1. Range(tokens) = {} /\ Range(allocations) = {Erc20Allocation}
    BY DEF Init, Range
  <2> QED BY <2>1 DEF AllCounted
<1>7. CapitalInv
  BY DEF Init, CapitalInv, Holds
<1> QED BY <1>1, <1>2, <1>3, <1>4, <1>5, <1>6, <1>7 DEF LpInv, SetsInStep

\* Erc20Allocation stays what its name finds: the name is taken, and it is
\* the one name that cannot be removed.
LEMMA NameStaysTaken ==
  ASSUME LpInv,
         \/ \E a \in AllocationContracts : Allocations!Add(a)
         \/ \E n \in Names \ {Erc20Name} : Allocations!Remove(n)
  PROVE  allocationLookup'[Erc20Name] = Erc20Allocation
<1>1. /\ allocationLookup \in [Names -> AllocationContracts \cup {Null}]
      /\ allocationLookup[Erc20Name] = Erc20Allocation
  BY DEF LpInv, SetsInStep, SetInStep
<1>2. Erc20Name \in Names /\ Erc20Allocation # Null
  BY NamesAssumption
<1>3. ASSUME NEW a \in AllocationContracts, Allocations!Add(a)
      PROVE  allocationLookup'[Erc20Name] = Erc20Allocation
  BY <1>1, <1>2, <1>3 DEF Allocations!Add
<1>4. ASSUME NEW n \in Names \ {Erc20Name}, Allocations!Remove(n)
      PROVE  allocationLookup'[Erc20Name] = Erc20Allocation
  BY <1>1, <1>2, <1>4 DEF Allocations!Remove
<1> QED BY <1>3, <1>4

\* A step of the registries that leaves the capital and the fees alone, and
\* forgets nothing that was listed.
LEMMA RegistriesKeepInv ==
  ASSUME LpInv, SetsInStep', allocationLookup'[Erc20Name] = Erc20Allocation, AllCounted',
         UNCHANGED <<tokens, held, feeVars, treasury>>,
         locked' \in BOOLEAN,
         everListed \subseteq everListed', everListed' \subseteq Tokens
  PROVE  LpInv'
<1>1. CapitalTypes' /\ FeesRegistered'
  BY DEF LpInv, CapitalTypes, FeesRegistered, feeVars
<1>2. CapitalInv'
  BY DEF LpInv, CapitalInv, Holds
<1> QED BY <1>1, <1>2 DEF LpInv

LEMMA ZapsAndSwapsKeepInv == LpInv /\ RegisterZapOrSwap => LpInv'
<1> SUFFICES ASSUME LpInv, RegisterZapOrSwap PROVE LpInv'
  OBVIOUS
<1>1. \/ Zaps!Next /\ UNCHANGED swapVars
      \/ Swaps!Next /\ UNCHANGED zapVars
  BY DEF RegisterZapOrSwap, RegisterZap, RemoveZap, RegisterSwap, RemoveSwap,
         Zaps!Next, Swaps!Next
<1>2. SetsInStep'
  BY <1>1, ZapsStayInStep, SwapsStayInStep
     DEF LpInv, SetsInStep, SetInStep, RegisterZapOrSwap, zapVars, swapVars, allocationVars
<1> QED BY <1>2, RegistriesKeepInv
        DEF RegisterZapOrSwap, allocationVars, LpInv, CapitalTypes, AllCounted

LEMMA CountedTokens ==
  ASSUME LpInv, NEW a \in AllocationContracts
  PROVE  TokensOf(a) \in Seq(Tokens) /\ Range(TokensOf(a)) \subseteq Tokens
<1>1. TokensOf(a) \in Seq(Tokens)
  BY TokensAssumption DEF TokensOf, LpInv, CapitalTypes
<1> QED BY <1>1 DEF Range

LEMMA RegisterAllocationKeepsInv ==
  ASSUME LpInv, NEW a \in AllocationContracts, RegisterAssetAllocation(a)
  PROVE  LpInv'
<1>1. /\ Allocations!Add(a) /\ everListed' = everListed \cup Range(TokensOf(a))
      /\ UNCHANGED <<zapVars, swapVars, tokens, held, feeVars, treasury>> /\ locked'
  BY DEF RegisterAssetAllocation, LockOracle
<1>2. SetsInStep'
  BY <1>1, AllocationsStayInStep
     DEF LpInv, SetsInStep, SetInStep, Allocations!Next, zapVars, swapVars
<1>3. allocationLookup'[Erc20Name] = Erc20Allocation
  BY <1>1, NameStaysTaken
<1>4. everListed' \subseteq Tokens /\ everListed \subseteq everListed'
  BY <1>1, CountedTokens DEF LpInv, CapitalTypes
<1>5. AllCounted'
  <2>1. Range(allocations)' \subseteq Range(allocations) \cup {a}
    <3>1. allocations' = Include(allocations, a)
      BY <1>1 DEF Allocations!Add, Allocations!Include, Allocations!IsMember, Allocations!Range,
                  Include, IsMember, Range
    <3>2. Range(Include(allocations, a)) = Range(allocations) \cup {a}
      BY IncludeAdds DEF LpInv, SetsInStep, SetInStep
    <3> QED BY <3>1, <3>2 DEF Range
  <2>2. a # Erc20Allocation => Range(Counted[a]) \subseteq everListed'
    BY <1>1 DEF TokensOf
  <2>3. Range(tokens)' \subseteq everListed'
    BY <1>1, <1>4 DEF LpInv, AllCounted, Range
  <2>4. ASSUME NEW b \in Range(allocations)' \ {Erc20Allocation}
        PROVE  Range(Counted[b]) \subseteq everListed'
    BY <1>4, <2>1, <2>2 DEF LpInv, AllCounted
  <2> QED BY <2>3, <2>4 DEF AllCounted
<1> QED BY <1>1, <1>2, <1>3, <1>4, <1>5, RegistriesKeepInv

LEMMA RemoveAllocationKeepsInv ==
  ASSUME LpInv, NEW n \in Names, RemoveAssetAllocation(n)
  PROVE  LpInv'
<1>1. /\ Allocations!Remove(n) /\ n # Erc20Name /\ everListed' = everListed
      /\ UNCHANGED <<zapVars, swapVars, tokens, held, feeVars, treasury>> /\ locked'
  BY DEF RemoveAssetAllocation, LockOracle
<1>2. SetsInStep'
  BY <1>1, AllocationsStayInStep
     DEF LpInv, SetsInStep, SetInStep, Allocations!Next, zapVars, swapVars
<1>3. allocationLookup'[Erc20Name] = Erc20Allocation
  <2>1. \E m \in Names \ {Erc20Name} : Allocations!Remove(m)
    BY <1>1
  <2> QED BY <2>1, NameStaysTaken
<1>4. AllCounted'
  <2>1. Range(allocations)' \subseteq Range(allocations)
    <3>1. allocations' = Exclude(allocations, allocationLookup[n])
      BY <1>1 DEF Allocations!Remove, Allocations!Exclude, Allocations!IndexIn,
                  Allocations!IsMember, Allocations!Range, Exclude, IndexIn, IsMember, Range
    <3>2. Range(Exclude(allocations, allocationLookup[n])) \subseteq Range(allocations)
      BY ExcludeRemoves DEF LpInv, SetsInStep, SetInStep
    <3> QED BY <3>1, <3>2 DEF Range
  <2>2. Range(tokens)' \subseteq everListed'
    BY <1>1 DEF LpInv, AllCounted, Range
  <2>3. ASSUME NEW b \in Range(allocations)' \ {Erc20Allocation}
        PROVE  Range(Counted[b]) \subseteq everListed'
    BY <1>1, <2>1 DEF LpInv, AllCounted
  <2> QED BY <2>2, <2>3 DEF AllCounted
<1> QED BY <1>1, <1>2, <1>3, <1>4, RegistriesKeepInv DEF LpInv, CapitalTypes

LEMMA SetsUnchanged ==
  ASSUME LpInv, UNCHANGED <<zapVars, swapVars, allocationVars>>
  PROVE  SetsInStep' /\ allocationLookup'[Erc20Name] = Erc20Allocation
BY DEF LpInv, SetsInStep, SetInStep, zapVars, swapVars, allocationVars

LEMMA RewardFeesKeepInv == LpInv /\ SetRewardFees => LpInv'
<1> SUFFICES ASSUME LpInv, SetRewardFees PROVE LpInv'
  OBVIOUS
<1>1. SetsInStep' /\ allocationLookup'[Erc20Name] = Erc20Allocation
  BY SetsUnchanged DEF SetRewardFees, registryVars
<1>2. UNCHANGED <<registryVars, held, treasury, locked>>
  BY DEF SetRewardFees
<1>3. CapitalTypes' /\ AllCounted' /\ CapitalInv'
  BY <1>2 DEF registryVars, allocationVars, LpInv, CapitalTypes, AllCounted, CapitalInv, Holds
<1>4. FeesRegistered'
  <2>1. PICK t \in FeeTokens :
          (\E fee \in RewardFees : RegisterRewardFee(t, fee)) \/ RemoveRewardFee(t)
    BY DEF SetRewardFees
  <2>2. FeesRegistered /\ t \in Tokens
    BY TokensAssumption DEF LpInv
  <2>3. ASSUME NEW fee \in RewardFees, RegisterRewardFee(t, fee) PROVE FeesRegistered'
    <3>1. fee \in Nat
      BY FeesAssumption
    <3> QED BY <1>2, <2>2, <2>3, <3>1 DEF FeesRegistered, RegisterRewardFee
  <2>4. CASE RemoveRewardFee(t)
    BY <1>2, <2>2, <2>4 DEF FeesRegistered, RemoveRewardFee
  <2> QED BY <2>1, <2>3, <2>4
<1> QED BY <1>1, <1>3, <1>4 DEF LpInv

\* Listing a token, with whatever it does to balances of listed tokens.
LEMMA ListTokenListed ==
  ASSUME LpInv, NEW t \in Tokens, ListToken(t)
  PROVE  /\ tokens' \in Seq(Tokens) /\ NoRepetitions(tokens)'
         /\ Range(tokens)' \subseteq everListed'
         /\ everListed' \subseteq Tokens
         /\ everListed' = everListed \cup {t}
<1>1. /\ Include(tokens, t) \in Seq(Tokens) /\ NoRepetitions(Include(tokens, t))
      /\ Range(Include(tokens, t)) = Range(tokens) \cup {t}
  BY IncludeAdds DEF LpInv, CapitalTypes
<1> QED BY <1>1 DEF ListToken, LpInv, CapitalTypes, AllCounted, NoRepetitions, Range

\* Listing a token covers what comes in of an underlyer.
LEMMA ListingKeepsInv ==
  ASSUME LpInv, NEW t \in Tokens, ListToken(t), LockOracle,
         UNCHANGED <<zapVars, swapVars, allocationVars, feeVars, treasury>>,
         held' \in [Tokens -> Nat],
         \A u \in Tokens : (u = t /\ t \in Underlyers) \/ held'[u] <= held[u]
  PROVE  LpInv'
<1>1. SetsInStep' /\ allocationLookup'[Erc20Name] = Erc20Allocation
  BY SetsUnchanged
<1>2. /\ tokens' \in Seq(Tokens) /\ NoRepetitions(tokens)'
      /\ Range(tokens)' \subseteq everListed'
      /\ everListed' \subseteq Tokens
      /\ everListed' = everListed \cup {t}
  BY ListTokenListed
<1>3. CapitalTypes'
  BY <1>2 DEF LpInv, CapitalTypes, LockOracle
<1>4. FeesRegistered'
  BY DEF LpInv, FeesRegistered, feeVars
<1>5. AllCounted'
  <2>1. allocations' = allocations
    BY DEF allocationVars
  <2>2. ASSUME NEW a \in Range(allocations)' \ {Erc20Allocation}
        PROVE  Range(Counted[a]) \subseteq everListed'
    BY <1>2, <2>1 DEF LpInv, AllCounted, Range
  <2> QED BY <1>2, <2>2 DEF AllCounted
<1>6. CapitalInv'
  <2> SUFFICES ASSUME NEW x \in Tokens, NEW H \in SUBSET Tokens, ListedBefore(x, H),
                      NEW s \in H, held'[s] > 0
               PROVE  x \in everListed'
    BY DEF CapitalInv, Holds
  <2>1. CASE s = t /\ t \in Underlyers
    <3>1. x = t
      BY <2>1 DEF ListedBefore
    <3> QED BY <1>2, <3>1
  <2>2. CASE held'[s] <= held[s]
    <3>1. held[s] \in Nat /\ held'[s] \in Nat
      BY DEF LpInv, CapitalTypes
    <3>2. Holds(H)
      BY <2>2, <3>1 DEF Holds
    <3> QED BY <1>2, <3>2 DEF LpInv, CapitalInv
  <2> QED BY <2>1, <2>2
<1> QED BY <1>1, <1>3, <1>4, <1>5, <1>6 DEF LpInv

LEMMA RemoveTokenKeepsInv ==
  ASSUME LpInv, NEW t \in Tokens, RemoveErc20Token(t)
  PROVE  LpInv'
<1>1. SetsInStep' /\ allocationLookup'[Erc20Name] = Erc20Allocation
  BY SetsUnchanged DEF RemoveErc20Token
<1>2. /\ Exclude(tokens, t) \in Seq(Tokens) /\ NoRepetitions(Exclude(tokens, t))
      /\ Range(Exclude(tokens, t)) = Range(tokens) \ {t}
  BY ExcludeRemoves DEF LpInv, CapitalTypes
<1>3. CapitalTypes' /\ FeesRegistered'
  BY <1>2 DEF RemoveErc20Token, LpInv, CapitalTypes, FeesRegistered, NoRepetitions,
              LockOracle, feeVars
<1>4. UNCHANGED <<allocations, held, everListed>> /\ tokens' = Exclude(tokens, t)
  BY DEF RemoveErc20Token, allocationVars
<1>5. Range(tokens)' \subseteq everListed'
  BY <1>2, <1>4 DEF LpInv, AllCounted, Range
<1>6. AllCounted'
  <2>1. Range(allocations)' = Range(allocations)
    BY <1>4 DEF Range
  <2> QED BY <1>4, <1>5, <2>1 DEF LpInv, AllCounted
<1>7. CapitalInv'
  BY <1>4 DEF LpInv, CapitalInv, Holds
<1> QED BY <1>1, <1>3, <1>6, <1>7 DEF LpInv

\* A trade into one of the tokens H, before which x is to be listed, finds x
\* listed or another of H held.
Covered(s) ==
  \A x \in Tokens, H \in SUBSET Tokens :
    ListedBefore(x, H) /\ s \in H => x \in everListed \/ Holds(H)

LEMMA TradeKeepsInv ==
  ASSUME LpInv, UNCHANGED <<registryVars, feeVars>>,
         held' \in [Tokens -> Nat],
         treasury' \in [Tokens -> Nat], locked' \in BOOLEAN,
         \A s \in Tokens : held'[s] > held[s] => Covered(s)
  PROVE  LpInv'
<1>1. SetsInStep' /\ allocationLookup'[Erc20Name] = Erc20Allocation
  BY SetsUnchanged DEF registryVars
<1>2. CapitalTypes' /\ FeesRegistered' /\ AllCounted'
  BY DEF LpInv, CapitalTypes, FeesRegistered, AllCounted, registryVars, feeVars, allocationVars
<1>3. everListed' = everListed
  BY DEF registryVars
<1>4. CapitalInv'
  <2> SUFFICES ASSUME NEW x \in Tokens, NEW H \in SUBSET Tokens, ListedBefore(x, H),
                      NEW s \in H, held'[s] > 0
               PROVE  x \in everListed
    BY <1>3 DEF CapitalInv, Holds
  <2>1. held[s] \in Nat /\ held'[s] \in Nat /\ s \in Tokens
    BY DEF LpInv, CapitalTypes
  <2>2. x \in everListed \/ Holds(H)
    <3>1. CASE held'[s] > held[s]
      BY <2>1, <3>1 DEF Covered
    <3>2. CASE held'[s] <= held[s]
      BY <2>1, <3>2 DEF Holds
    <3> QED BY <2>1, <3>1, <3>2
  <2> QED BY <2>2 DEF LpInv, CapitalInv
<1> QED BY <1>1, <1>2, <1>4 DEF LpInv

-----------------------------------------------------------------------------
(* Trades. *)

LEMMA BalancesTyped ==
  ASSUME LpInv, NEW change, Balances(change)
  PROVE  held' \in [Tokens -> Nat] /\ \A t \in Tokens : held'[t] = held[t] + change[t]
BY BoundsAssumption DEF Balances

LEMMA ChangeOf ==
  ASSUME NEW t, NEW amount
  PROVE  /\ \A u \in Tokens : Change(t, amount)[u] = IF u = t THEN amount ELSE 0
BY DEF Change

\* _checkErc20Registrations passed: the tokens have been listed.
LEMMA RegisteredIsListed ==
  ASSUME LpInv, NEW c, Erc20sRegistered(c)
  PROVE  Erc20s[c] \subseteq everListed
BY DEF LpInv, AllCounted, Erc20sRegistered, IsErc20TokenRegistered, IsMember

\* So did _checkAllocationRegistrations: what the strategy's allocation counts
\* has been counted, whichever contract has its name.
LEMMA CheckedIsListed ==
  ASSUME LpInv, NEW z \in ZapContracts, AllocationsRegistered(z), Erc20sRegistered(z)
  PROVE  CheckedBy(z) \subseteq everListed
<1> SUFFICES ASSUME NEW x \in CheckedBy(z) PROVE x \in everListed
  OBVIOUS
<1>1. CASE x \in Erc20s[z]
  BY <1>1, RegisteredIsListed
<1>2. ASSUME NEW n \in AssetAllocations[z] \ {Erc20Name},
             \A a \in AllocationContracts \ {Erc20Allocation} :
               NameOf[a] = n => x \in Range(Counted[a])
      PROVE  x \in everListed
  <2> DEFINE a == allocationLookup[n]
  <2>1. n \in Names /\ a # Null
    BY TokensAssumption DEF AllocationsRegistered, IsAssetAllocationRegistered
  <2>2. a \in AllocationContracts
    BY <2>1 DEF LpInv, SetsInStep, SetInStep
  <2>3. a \in Range(allocations) /\ NameOf[a] = n
    BY <2>1, <2>2 DEF LpInv, SetsInStep, SetInStep
  <2> HIDE DEF a
  <2>4. a # Erc20Allocation
    BY <2>3, NamesAssumption
  <2> QED BY <1>2, <2>2, <2>3, <2>4 DEF LpInv, AllCounted
<1> QED BY <1>1, <1>2 DEF CheckedBy

LEMMA DeployKeepsInv ==
  ASSUME LpInv, NEW n \in Names, DeployStrategy(n)
  PROVE  LpInv'
<1> DEFINE z == zapLookup[n]
           Bound == UNION {0 .. MaxHeld[t] : t \in Coins[z]}
<1>1. z \in ZapContracts \ MigrationZaps /\ AllocationsRegistered(z) /\ Erc20sRegistered(z)
  BY DEF DeployStrategy, LpInv, SetsInStep, SetInStep
<1>2. PICK amounts \in [Coins[z] -> Bound], minted \in 0 .. MaxHeld[Receipt[z]] :
        Balances([t \in Tokens |-> (IF t = Receipt[z] THEN minted ELSE 0)
                                   - (IF t \in Coins[z] THEN amounts[t] ELSE 0)])
  BY DEF DeployStrategy
<1>3. /\ UNCHANGED <<registryVars, feeVars>> /\ treasury' \in [Tokens -> Nat]
      /\ locked' \in BOOLEAN /\ held \in [Tokens -> Nat]
  BY DEF DeployStrategy, LockOracle, LpInv, FeesRegistered, CapitalTypes
<1>4. \A t \in Coins[z] : amounts[t] \in Nat
  <2>1. Coins[z] \subseteq Tokens
    BY <1>1, TokensAssumption
  <2>2. Bound \subseteq Nat
    BY <2>1, BoundsAssumption
  <2> HIDE DEF Bound
  <2> QED BY <1>2, <2>2
<1> HIDE DEF z, Bound
<1>5. CheckedBy(z) \subseteq everListed
  BY <1>1, CheckedIsListed
<1>6. Covered(Receipt[z])
  BY <1>1, <1>5 DEF Covered, ListedBefore
<1> DEFINE change == [t \in Tokens |-> (IF t = Receipt[z] THEN minted ELSE 0)
                                       - (IF t \in Coins[z] THEN amounts[t] ELSE 0)]
<1>7. \A t \in Tokens : t # Receipt[z] => change[t] \in Int /\ change[t] <= 0
  BY <1>4
<1> HIDE DEF change
<1>8. held' \in [Tokens -> Nat] /\ \A t \in Tokens : held'[t] = held[t] + change[t]
  BY <1>2, BalancesTyped DEF change
<1>9. \A t \in Tokens : held'[t] > held[t] => t = Receipt[z]
  BY <1>3, <1>7, <1>8
<1> QED BY <1>3, <1>6, <1>8, <1>9, TradeKeepsInv

\* An exchange of a token into one that is covered when some of it is held.
LEMMA ExchangeKeepsInv ==
  ASSUME LpInv, NEW from \in Tokens, NEW to \in Tokens, Exchange(from, to),
         held[from] > 0 => Covered(to)
  PROVE  LpInv'
<1>1. PICK amount \in 1 .. MaxHeld[from], received \in 0 .. MaxHeld[to] :
        Balances([Change(from, -amount) EXCEPT ![to] = received])
  BY DEF Exchange
<1> DEFINE change == [Change(from, -amount) EXCEPT ![to] = received]
<1>2. amount \in Nat /\ amount > 0 /\ from # to
  BY BoundsAssumption DEF Exchange
<1>3. /\ \A u \in Tokens \ {to} : change[u] = -amount \/ change[u] = 0
      /\ change[from] = -amount
  BY <1>2 DEF Change
<1>4. held' \in [Tokens -> Nat] /\ \A u \in Tokens : held'[u] = held[u] + change[u]
  BY <1>1, BalancesTyped
<1> HIDE DEF change
<1>5. held \in [Tokens -> Nat]
  BY DEF LpInv, CapitalTypes
<1>6. \A u \in Tokens : held'[u] > held[u] => u = to
  BY <1>2, <1>3, <1>4, <1>5
<1>7. held[from] > 0
  <2>1. held'[from] = held[from] + (-amount) /\ held'[from] \in Nat /\ held[from] \in Nat
    BY <1>3, <1>4, <1>5
  <2> QED BY <1>2, <2>1
<1>8. /\ UNCHANGED <<registryVars, feeVars>> /\ treasury' \in [Tokens -> Nat]
      /\ locked' \in BOOLEAN
  BY DEF Exchange, LockOracle, LpInv, FeesRegistered
<1> QED BY <1>4, <1>6, <1>7, <1>8, TradeKeepsInv

\* Nothing comes in.
LEMMA NoTradeKeepsInv ==
  ASSUME LpInv, UNCHANGED <<registryVars, feeVars, treasury>>, locked' \in BOOLEAN,
         held' \in [Tokens -> Nat], \A t \in Tokens : ~(held'[t] > held[t])
  PROVE  LpInv'
<1>1. treasury' \in [Tokens -> Nat]
  BY DEF LpInv, FeesRegistered
<1> QED BY <1>1, TradeKeepsInv

LEMMA UnwindKeepsInv ==
  ASSUME LpInv, NEW n \in Names, NEW from \in Tokens, NEW to \in Tokens,
         UnwindStrategy(n, from, to)
  PROVE  LpInv'
<1> DEFINE z == zapLookup[n]
<1>1. z \in ZapContracts /\ <<from, to>> \in Unwinds[z]
  BY DEF UnwindStrategy, LpInv, SetsInStep, SetInStep
<1>2. CASE Exchange(from, to)
  <2>1. held[from] > 0 => Covered(to)
    <3> HIDE DEF z
    <3> SUFFICES ASSUME held[from] > 0, NEW x \in Tokens, NEW H \in SUBSET Tokens,
                        ListedBefore(x, H), to \in H
                 PROVE  Holds(H)
      BY DEF Covered
    <3>1. from \in H
      <4>1. \A pair \in Unwinds[z] : pair[2] \in H => pair[1] \in H
        BY <1>1 DEF ListedBefore
      <4>2. <<from, to>>[2] \in H => <<from, to>>[1] \in H
        BY <1>1, <4>1
      <4> QED BY <4>2
    <3> QED BY <3>1 DEF Holds
  <2> QED BY <1>2, <2>1, ExchangeKeepsInv
<1>3. CASE LockOracle /\ UNCHANGED <<registryVars, held, feeVars, treasury>>
  <2>1. held \in [Tokens -> Nat]
    BY DEF LpInv, CapitalTypes
  <2>2. held' \in [Tokens -> Nat] /\ \A t \in Tokens : ~(held'[t] > held[t])
    BY <1>3, <2>1
  <2> QED BY <1>3, <2>2, NoTradeKeepsInv DEF LockOracle
<1> QED BY <1>2, <1>3 DEF UnwindStrategy

LEMMA SwapKeepsInv ==
  ASSUME LpInv, NEW n \in Names, Swap(n)
  PROVE  LpInv'
<1> DEFINE s == swapLookup[n]
<1>1. s \in SwapContracts /\ Erc20sRegistered(s)
  BY DEF Swap, LpInv, SetsInStep, SetInStep
<1>2. SwapFrom[s] \in Tokens /\ SwapTo[s] \in Tokens
  BY <1>1, TokensAssumption
<1>3. Erc20s[s] \subseteq everListed
  BY <1>1, RegisteredIsListed
<1>4. Covered(SwapTo[s])
  <2> HIDE DEF s
  <2> QED BY <1>1, <1>3 DEF Covered, ListedBefore
<1> QED BY <1>2, <1>4, ExchangeKeepsInv DEF Swap

LEMMA ThreePoolKeepsInv ==
  ASSUME LpInv, NEW from \in ThreePoolCoins, NEW to \in ThreePoolCoins, SwapWith3Pool(from, to)
  PROVE  LpInv'
<1>1. from \in Tokens /\ to \in Tokens
  BY TokensAssumption
<1>2. Covered(to)
  BY DEF Covered, ListedBefore
<1> QED BY <1>1, <1>2, ExchangeKeepsInv DEF SwapWith3Pool

\* The fee on a claim is rounded down and only of a reward token; it is part of
\* what was claimed unless the rate is above the whole.
LEMMA FeeBounds ==
  ASSUME FeesRegistered, NEW t \in Tokens, NEW claimed \in Nat
  PROVE  /\ RewardFee(t, claimed) \in Nat
         /\ rewardFee[t] <= FeeDenominator => RewardFee(t, claimed) <= claimed
         /\ RewardFee(t, claimed) * FeeDenominator <= claimed * rewardFee[t]
         /\ claimed * rewardFee[t] < (RewardFee(t, claimed) + 1) * FeeDenominator
         /\ RewardFee(t, claimed) # 0 => t \in rewardTokens /\ claimed # 0
<1> DEFINE rate == rewardFee[t]
           fee == RewardFee(t, claimed)
<1>1. FeeDenominator \in Nat \ {0} /\ rate \in Nat
  BY FeesAssumption DEF FeesRegistered
<1>2. claimed * rate \in Nat
  BY <1>1, ProductType
<1>3. fee \in Nat /\ fee * FeeDenominator <= claimed * rate
      /\ claimed * rate < (fee + 1) * FeeDenominator
  BY <1>1, <1>2, DivBounds DEF RewardFee
<1>4. fee # 0 => claimed * rate # 0
  BY <1>1 DEF RewardFee
<1>5. claimed * rate # 0 => rate # 0 /\ claimed # 0
  BY <1>1, SMT
<1> HIDE DEF fee
<1>6. ASSUME rate <= FeeDenominator PROVE fee <= claimed
  <2> DEFINE a == fee * FeeDenominator
             b == claimed * rate
             c == claimed * FeeDenominator
  <2>1. rate * claimed <= FeeDenominator * claimed
    BY <1>1, <1>6, ProductMonotone
  <2> HIDE DEF rate
  <2>2. claimed * rate = rate * claimed /\ FeeDenominator * claimed = claimed * FeeDenominator
    BY <1>1, SMT
  <2>3. a \in Int /\ b \in Int /\ c \in Int
    BY <1>1, <1>2, <1>3, ProductType
  <2>4. a <= b /\ b <= c
    BY <1>3, <2>1, <2>2
  <2> HIDE DEF a, b, c
  <2>5. a <= c
    BY <2>3, <2>4
  <2> QED BY <2>5, <1>1, <1>3, Cancel DEF a, c
<1>7. fee # 0 => t \in rewardTokens /\ claimed # 0
  BY <1>4, <1>5 DEF FeesRegistered
<1> QED BY <1>3, <1>6, <1>7 DEF fee

\* What the zaps claimed of each token, and what became of it.
ClaimedAs(N, gain) ==
  /\ gain \in [Tokens -> Nat]
  /\ \A t \in Tokens : gain[t] # 0 => \E n \in N : t \in Rewards[zapLookup[n]]
  /\ held' \in [Tokens -> Nat]
  /\ \A t \in Tokens : held'[t] = held[t] + (gain[t] - RewardFee(t, gain[t]))
  /\ treasury' = [t \in Tokens |-> treasury[t] + RewardFee(t, gain[t])]

LEMMA ClaimIsOfRewards ==
  ASSUME LpInv, NEW N \in SUBSET Names, Claim(N)
  PROVE  \E gain : ClaimedAs(N, gain)
<1> DEFINE R == UNION {Rewards[zapLookup[n]] : n \in N}
           Of(claimed, t) == IF t \in DOMAIN claimed THEN claimed[t] ELSE 0
<1>1. PICK claimed \in [R -> 0 .. MaxClaim] :
        /\ Balances([t \in Tokens |-> Of(claimed, t) - RewardFee(t, Of(claimed, t))])
        /\ treasury' = [t \in Tokens |-> treasury[t] + RewardFee(t, Of(claimed, t))]
  BY Zenon DEF Claim
<1> DEFINE gain == [t \in Tokens |-> Of(claimed, t)]
<1>2. \A t \in Tokens : Of(claimed, t) \in Nat
  BY BoundsAssumption
<1>3. \A t \in Tokens : Of(claimed, t) # 0 => t \in R
  BY DEF Of
<1> HIDE DEF Of
<1>4. /\ held' \in [Tokens -> Nat]
      /\ \A t \in Tokens : held'[t] = held[t] + (gain[t] - RewardFee(t, gain[t]))
  BY <1>1, BalancesTyped
<1>5. gain \in [Tokens -> Nat] /\ \A t \in Tokens : gain[t] = Of(claimed, t)
  BY <1>2
<1>6. \A t \in Tokens : gain[t] # 0 => \E n \in N : t \in Rewards[zapLookup[n]]
  BY <1>3, <1>5
<1>7. treasury' = [t \in Tokens |-> treasury[t] + RewardFee(t, gain[t])]
  BY <1>1, <1>5
<1> HIDE DEF gain
<1> QED BY <1>4, <1>5, <1>6, <1>7 DEF ClaimedAs

LEMMA ClaimKeepsInv ==
  ASSUME LpInv, NEW N \in SUBSET Names, Claim(N)
  PROVE  LpInv'
<1>1. PICK gain : ClaimedAs(N, gain)
  BY ClaimIsOfRewards
<1>2. FeesRegistered /\ held \in [Tokens -> Nat] /\ treasury \in [Tokens -> Nat]
  BY DEF LpInv, CapitalTypes, FeesRegistered
<1>3. \A t \in Tokens : gain[t] \in Nat /\ RewardFee(t, gain[t]) \in Nat
  BY <1>1, <1>2, FeeBounds DEF ClaimedAs
<1>4. treasury' \in [Tokens -> Nat]
  BY <1>1, <1>2, <1>3 DEF ClaimedAs
<1>5. ASSUME NEW t \in Tokens, held'[t] > held[t] PROVE Covered(t)
  <2>1. gain[t] # 0
    BY <1>1, <1>2, <1>3, <1>5 DEF ClaimedAs
  <2>2. PICK n \in N : t \in Rewards[zapLookup[n]]
    BY <1>1, <2>1 DEF ClaimedAs
  <2> DEFINE z == zapLookup[n]
  <2>3. z \in ZapContracts \ MigrationZaps /\ Erc20sRegistered(z)
    BY DEF Claim, LpInv, SetsInStep, SetInStep
  <2>4. Erc20s[z] \subseteq everListed
    BY <2>3, RegisteredIsListed
  <2> HIDE DEF z
  <2> SUFFICES ASSUME NEW x \in Tokens, NEW H \in SUBSET Tokens, ListedBefore(x, H), t \in H
               PROVE  x \in everListed
    BY DEF Covered
  <2>5. Rewards[z] \cap H # {}
    BY <2>2 DEF z
  <2>6. x \in Erc20s[z]
    BY <2>3, <2>5 DEF ListedBefore
  <2> QED BY <2>4, <2>6
<1>6. /\ UNCHANGED <<registryVars, feeVars>> /\ locked' \in BOOLEAN
  BY DEF Claim, LockOracle
<1>7. held' \in [Tokens -> Nat]
  BY <1>1 DEF ClaimedAs
<1> QED BY <1>4, <1>5, <1>6, <1>7, TradeKeepsInv

LEMMA ExitKeepsInv ==
  ASSUME LpInv, NEW t \in Tokens, EmergencyExit(t)
  PROVE  LpInv'
<1>1. held \in [Tokens -> Nat] /\ locked \in BOOLEAN
  BY DEF LpInv, CapitalTypes
<1>2. held' \in [Tokens -> Nat] /\ \A u \in Tokens : ~(held'[u] > held[u])
  BY <1>1 DEF EmergencyExit
<1>3. UNCHANGED <<registryVars, feeVars, treasury>> /\ locked' \in BOOLEAN
  BY <1>1 DEF EmergencyExit
<1> QED BY <1>2, <1>3, NoTradeKeepsInv

\* Tokens arrive from a pool, or leave for one, as the token gets listed.
LEMMA PoolTransferKeepsInv ==
  ASSUME LpInv, NEW t \in Underlyers, ReceiveFromPool(t) \/ TransferToPool(t)
  PROVE  LpInv'
<1>0. t \in Tokens
  BY TokensAssumption
<1>1. PICK amount \in Int : Balances(Change(t, amount))
  <2>1. CASE ReceiveFromPool(t)
    BY <2>1 DEF ReceiveFromPool
  <2>2. CASE TransferToPool(t)
    <3>1. PICK n \in 1 .. MaxHeld[t] : Balances(Change(t, -n))
      BY <2>2 DEF TransferToPool
    <3> QED BY <3>1
  <2> QED BY <2>1, <2>2
<1>2. held \in [Tokens -> Nat]
  BY DEF LpInv, CapitalTypes
<1>3. held' \in [Tokens -> Nat] /\ \A u \in Tokens : u = t \/ held'[u] <= held[u]
  BY <1>1, <1>2, BalancesTyped, ChangeOf
<1>4. /\ ListToken(t) /\ LockOracle
      /\ UNCHANGED <<zapVars, swapVars, allocationVars, feeVars, treasury>>
  BY DEF ReceiveFromPool, TransferToPool
<1> QED BY <1>0, <1>3, <1>4, ListingKeepsInv

LEMMA LpInvNext == LpInv /\ [Next]_vars => LpInv'
<1> SUFFICES ASSUME LpInv, [Next]_vars PROVE LpInv'
  OBVIOUS
<1>0. held \in [Tokens -> Nat] /\ locked \in BOOLEAN
  BY DEF LpInv, CapitalTypes
<1>1. CASE RegisterZapOrSwap
  BY <1>1, ZapsAndSwapsKeepInv
<1>2. ASSUME NEW a \in AllocationContracts, RegisterAssetAllocation(a) PROVE LpInv'
  BY <1>2, RegisterAllocationKeepsInv
<1>3. ASSUME NEW n \in Names, RemoveAssetAllocation(n) PROVE LpInv'
  BY <1>3, RemoveAllocationKeepsInv
<1>4. ASSUME NEW n \in Names, Swap(n) PROVE LpInv'
  BY <1>4, SwapKeepsInv
<1>5. CASE SetRewardFees
  BY <1>5, RewardFeesKeepInv
<1>6. ASSUME NEW t \in Listable, RegisterErc20Token(t) PROVE LpInv'
  <2>1. t \in Tokens
    BY TokensAssumption
  <2>2. held' \in [Tokens -> Nat] /\ \A u \in Tokens : held'[u] <= held[u]
    BY <1>0, <1>6 DEF RegisterErc20Token
  <2> QED BY <1>6, <2>1, <2>2, ListingKeepsInv DEF RegisterErc20Token
<1>7. ASSUME NEW t \in Tokens, RemoveErc20Token(t) PROVE LpInv'
  BY <1>7, RemoveTokenKeepsInv
<1>8. ASSUME NEW t \in Tokens, EmergencyExit(t) PROVE LpInv'
  BY <1>8, ExitKeepsInv
<1>9. ASSUME NEW n \in Names, DeployStrategy(n) PROVE LpInv'
  BY <1>9, DeployKeepsInv
<1>10. ASSUME NEW n \in Names, NEW from \in Tokens, NEW to \in Tokens,
              UnwindStrategy(n, from, to)
       PROVE  LpInv'
  BY <1>10, UnwindKeepsInv
<1>11. ASSUME NEW t \in Underlyers, ReceiveFromPool(t) \/ TransferToPool(t) PROVE LpInv'
  BY <1>11, PoolTransferKeepsInv
<1>12. ASSUME NEW from \in ThreePoolCoins, NEW to \in ThreePoolCoins, SwapWith3Pool(from, to)
       PROVE  LpInv'
  BY <1>12, ThreePoolKeepsInv
<1>13. ASSUME NEW N \in SUBSET Names, Claim(N) PROVE LpInv'
  BY <1>13, ClaimKeepsInv
<1>14. CASE Unlock \/ UNCHANGED vars
  <2>1. UNCHANGED <<registryVars, held, feeVars, treasury>> /\ locked' \in BOOLEAN
    BY <1>0, <1>14 DEF Unlock, vars
  <2>2. held' \in [Tokens -> Nat] /\ \A t \in Tokens : ~(held'[t] > held[t])
    BY <1>0, <2>1
  <2> QED BY <2>1, <2>2, NoTradeKeepsInv
<1> QED BY <1>1, <1>2, <1>3, <1>4, <1>5, <1>6, <1>7, <1>8, <1>9, <1>10, <1>11, <1>12,
           <1>13, <1>14 DEF Next

LEMMA LpInvAlways == Spec => []LpInv
BY LpInvInit, LpInvNext, PTL DEF Spec

-----------------------------------------------------------------------------
(* The theorems. *)

\* The registries, balances, fees and the treasury have their types.
THEOREM LpTypes == Spec => []TypeOK
<1>1. LpInv => TypeOK
  <2> SUFFICES ASSUME LpInv PROVE TypeOK
    OBVIOUS
  <2>1. /\ Range(zaps) \subseteq ZapContracts /\ Range(swaps) \subseteq SwapContracts
        /\ Range(allocations) \subseteq AllocationContracts
        /\ Range(tokens) \subseteq Tokens
    BY DEF LpInv, SetsInStep, SetInStep, CapitalTypes, Range
  <2> QED BY <2>1 DEF LpInv, CapitalTypes, FeesRegistered, TypeOK
<1> QED BY <1>1, LpInvAlways, PTL

\* Whatever zaps, swaps and allocations are registered, and whatever they say
\* they need: a balance every way to which starts from a check of its
\* registration has been listed for Chainlink to count
\* (_checkAllocationRegistrations, _checkErc20Registrations), unwound
\* strategies included, which check nothing.
THEOREM CapitalListed == Spec => []CapitalIsListed
<1>1. LpInv => CapitalIsListed
  <2> SUFFICES ASSUME LpInv, NEW x \in Accounted, held[x] > 0 PROVE x \in everListed
    BY DEF CapitalIsListed
  <2>1. PICK H \in SUBSET Tokens : x \in H /\ ListedBefore(x, H)
    BY DEF Accounted
  <2>2. x \in Tokens /\ Holds(H)
    BY <2>1 DEF Holds
  <2> QED BY <2>1, <2>2 DEF LpInv, CapitalInv
<1> QED BY <1>1, LpInvAlways, PTL

\* The ERC20 allocation is registered for good
\* (TvlManager.removeAssetAllocation, NamedAddressSet._add).
THEOREM Erc20AllocationIsRegistered == Spec => []Erc20AllocationStays
<1>1. LpInv => Erc20AllocationStays
  BY NamesAssumption DEF LpInv, SetsInStep, SetInStep, Erc20AllocationStays, IsMember
<1> QED BY <1>1, LpInvAlways, PTL

\* The zaps, the swaps and the asset allocations can each be enumerated and
\* looked up with the same result (NamedAddressSet).
THEOREM RegistriesInStep ==
  Spec => [](Zaps!InStep /\ Swaps!InStep /\ Allocations!InStep)
<1>1. LpInv => Zaps!InStep /\ Swaps!InStep /\ Allocations!InStep
  BY InStepFromLists DEF LpInv, SetsInStep
<1> QED BY <1>1, LpInvAlways, PTL

\* What the nodes read of an id, be it a token or a coin of a position, changes
\* only under the lock, or drops to nothing as an emergency exit takes the
\* whole of a token (lockOracleAdapter's callers, LpAccountV2.emergencyExit).
THEOREM ReadsAreLocked == Spec => ReadsChangeUnderLock
<1> DEFINE Kept(t, a, index) ==
             \/ ReadOf(a, index)' = ReadOf(a, index)
             \/ ReadOf(a, index) = <<t, held[t]>> /\ ReadOf(a, index)' = <<t, 0>>
           Ok == \/ locked'
                 \/ \E t \in Tokens :
                      \A a \in AllocationContracts : \A index \in 1 .. NumberOfTokens(a) + 1 :
                        Kept(t, a, index)
<1>1. ASSUME UNCHANGED <<allocations, tokens, held>> PROVE Ok
  <2>1. PICK t \in Tokens : TRUE
    BY TokensAssumption
  <2>2. ASSUME NEW a, NEW index PROVE ReadOf(a, index)' = ReadOf(a, index)
    BY <1>1 DEF ReadOf, NumberOfTokens, TokensOf, IsMember, Range
  <2> QED BY <2>1, <2>2
<1>2. ASSUME LpInv, NEW t \in Tokens, EmergencyExit(t) PROVE Ok
  <2>1. /\ held \in [Tokens -> Nat] /\ held' = [held EXCEPT ![t] = 0]
        /\ tokens' = tokens /\ allocations' = allocations
    BY <1>2 DEF EmergencyExit, registryVars, allocationVars, LpInv, CapitalTypes
  <2>2. ASSUME NEW a \in AllocationContracts, NEW index \in 1 .. NumberOfTokens(a) + 1
        PROVE  Kept(t, a, index)
    <3>1. TokensOf(a)' = TokensOf(a) /\ NumberOfTokens(a)' = NumberOfTokens(a)
          /\ IsMember(allocations, a)' = IsMember(allocations, a)
      BY <2>1 DEF TokensOf, NumberOfTokens, IsMember, Range
    <3>2. CASE ~IsMember(allocations, a) \/ index > NumberOfTokens(a)
      BY <3>1, <3>2 DEF ReadOf
    <3>3. CASE IsMember(allocations, a) /\ ~(index > NumberOfTokens(a))
      <4> DEFINE u == TokensOf(a)[index]
      <4>1. TokensOf(a) \in Seq(Tokens) /\ NumberOfTokens(a) \in Nat
        BY <1>2, CountedTokens DEF NumberOfTokens
      <4>2. index \in 1 .. Len(TokensOf(a))
        BY <4>1, <3>3 DEF NumberOfTokens
      <4>3. u \in Tokens
        BY <4>1, <4>2
      <4>4. ReadOf(a, index) = <<u, held[u]>> /\ ReadOf(a, index)' = <<u, held'[u]>>
        BY <3>1, <3>3 DEF ReadOf
      <4> HIDE DEF u
      <4>5. CASE u = t
        BY <2>1, <4>4, <4>5
      <4>6. CASE u # t
        BY <2>1, <4>3, <4>4, <4>6
      <4> QED BY <4>5, <4>6
    <3> QED BY <3>2, <3>3
  <2> HIDE DEF Kept
  <2> QED BY <2>2
<1> HIDE DEF Ok
<1>3. ASSUME LpInv, [Next]_vars PROVE [Ok]_vars
  <2>1. CASE RegisterZapOrSwap \/ SetRewardFees \/ Unlock
    BY <1>1, <2>1 DEF RegisterZapOrSwap, SetRewardFees, Unlock, registryVars, allocationVars
  <2>2. ASSUME NEW t \in Tokens, EmergencyExit(t) PROVE Ok
    BY <1>2, <1>3, <2>2
  <2>3. CASE locked'
    BY <2>3 DEF Ok
  <2>4. CASE ~locked' /\ Next
    BY <2>1, <2>2, <2>4
       DEF Next, LockOracle, RegisterAssetAllocation, RemoveAssetAllocation, Swap,
           RegisterErc20Token, RemoveErc20Token, DeployStrategy, UnwindStrategy,
           ReceiveFromPool, TransferToPool, SwapWith3Pool, Exchange, Claim
  <2> QED BY <1>3, <2>3, <2>4
<1>4. LpInv /\ [Next]_vars => [Ok]_vars
  BY <1>3
<1> QED BY <1>4, LpInvAlways, PTL DEF Spec, ReadsChangeUnderLock, Ok, Kept

\* The treasury earns only by claims, at the registered rate rounded down, for
\* any rate at all; and with a rate up to the whole the LP Account loses
\* nothing by it (_calculateRewardsFees, _registerRewardFee).
THEOREM FeesFromClaims == Spec => FeesComeFromClaims
<1> DEFINE FairFee(t) == treasury'[t] # treasury[t] =>
             LET fee   == treasury'[t] - treasury[t]
                 gross == held'[t] + fee - held[t]
             IN  /\ t \in rewardTokens /\ gross > 0
                 /\ fee * FeeDenominator <= gross * rewardFee[t]
                 /\ gross * rewardFee[t] < (fee + 1) * FeeDenominator
                 /\ rewardFee[t] <= FeeDenominator => held'[t] >= held[t]
<1>1. ASSUME LpInv, NEW N \in SUBSET Names, Claim(N), NEW t \in Tokens PROVE FairFee(t)
  <2>1. PICK gain : ClaimedAs(N, gain)
    BY <1>1, ClaimIsOfRewards
  <2> DEFINE fee == RewardFee(t, gain[t])
  <2>2. /\ gain[t] \in Nat /\ held[t] \in Nat /\ treasury[t] \in Nat
        /\ FeesRegistered
    BY <1>1, <2>1 DEF ClaimedAs, LpInv, CapitalTypes, FeesRegistered
  <2>3. /\ fee \in Nat /\ (rewardFee[t] <= FeeDenominator => fee <= gain[t])
        /\ fee * FeeDenominator <= gain[t] * rewardFee[t]
        /\ gain[t] * rewardFee[t] < (fee + 1) * FeeDenominator
        /\ fee # 0 => t \in rewardTokens /\ gain[t] # 0
    BY <2>2, FeeBounds
  <2>4. held'[t] = held[t] + (gain[t] - fee) /\ treasury'[t] = treasury[t] + fee
    BY <1>1, <2>1 DEF ClaimedAs
  <2> HIDE DEF fee
  <2>5. /\ treasury'[t] - treasury[t] = fee /\ held'[t] + fee - held[t] = gain[t]
        /\ fee <= gain[t] => held'[t] >= held[t]
        /\ treasury'[t] # treasury[t] => fee # 0
    BY <2>2, <2>3, <2>4
  <2> QED BY <2>2, <2>3, <2>5
<1>2. ASSUME Next, \A N \in SUBSET Names : ~Claim(N) PROVE treasury' = treasury
  BY <1>2 DEF Next, RegisterZapOrSwap, SetRewardFees, Unlock, RegisterAssetAllocation,
     RemoveAssetAllocation, Swap, RegisterErc20Token, RemoveErc20Token, DeployStrategy,
     UnwindStrategy, EmergencyExit, ReceiveFromPool, TransferToPool, SwapWith3Pool, Exchange
<1> HIDE DEF FairFee
<1>3. ASSUME LpInv, [Next]_vars PROVE [\A t \in Tokens : FairFee(t)]_vars
  <2>1. CASE \E N \in SUBSET Names : Claim(N)
    BY <1>1, <1>3, <2>1
  <2>2. CASE Next /\ \A N \in SUBSET Names : ~Claim(N)
    <3>1. treasury' = treasury
      BY <1>2, <2>2
    <3> QED BY <3>1 DEF FairFee
  <2> QED BY <1>3, <2>1, <2>2
<1>4. LpInv /\ [Next]_vars => [\A t \in Tokens : FairFee(t)]_vars
  BY <1>3
<1> QED BY <1>4, LpInvAlways, PTL DEF Spec, FeesComeFromClaims, FairFee

\* Whatever the LP Account and the other registries do in between, its zaps
\* are a directory of names to whoever enumerates them.
THEOREM ZapsAreADirectory == Spec => Zaps!ImplementsDirectory
<1>1. Init => Zaps!Init
  BY DEF Init
<1>2. [Next]_vars => [Zaps!Next]_(Zaps!vars)
  <2> SUFFICES ASSUME [Next]_vars PROVE Zaps!Next \/ UNCHANGED zapVars
    BY DEF Zaps!vars, zapVars
  <2>1. CASE RegisterZapOrSwap
    BY <2>1 DEF RegisterZapOrSwap, RegisterZap, RemoveZap, RegisterSwap, RemoveSwap, Zaps!Next
  <2>2. CASE Next /\ ~RegisterZapOrSwap
    BY <2>2 DEF Next, SetRewardFees, Unlock, RegisterAssetAllocation, RemoveAssetAllocation,
       Swap, RegisterErc20Token, RemoveErc20Token, DeployStrategy, UnwindStrategy,
       EmergencyExit, ReceiveFromPool, TransferToPool, SwapWith3Pool, Exchange, Claim,
       registryVars
  <2>3. CASE UNCHANGED vars
    BY <2>3 DEF vars, registryVars
  <2> QED BY <2>1, <2>2, <2>3
<1> QED BY <1>1, <1>2, SetIsADirectory, PTL DEF Spec, Zaps!Spec
=============================================================================
