------------------------------- MODULE FeedProofs -------------------------------
(* Safety of the inbound link for any instruments, queue sizes and reads,  *)
(* and of the builder of an instrument for any ticks, clocks and windows.  *)
EXTENDS InboundLink, MarketData, SequenceTheorems, FiniteSetTheorems, WellFoundedInduction, TLAPS

-----------------------------------------------------------------------------
(* Sums of natural numbers                                                 *)

(* Induction over a finite set: what holds of no element, and of one more  *)
(* element when it held before, holds of the set.                          *)
LEMMA SetByElements ==
  ASSUME NEW S, IsFiniteSet(S), NEW G \in SUBSET SUBSET S, {} \in G,
         \A T \in G : \A x \in S \ T : T \union {x} \in G
  PROVE  S \in G
<1> SUFFICES ASSUME S \notin G PROVE FALSE
  OBVIOUS
<1> DEFINE Bad == (SUBSET S) \ G
<1>1. Bad \subseteq FiniteSubsetsOf(S) /\ Bad # {}
  BY FS_FiniteSubsetsOfFinite
<1>0. {} \notin Bad
  OBVIOUS
<1>2. PICK T \in Bad : \A U \in Bad : ~(<<U, T>> \in StrictSubsetOrdering(S))
  <2> HIDE DEF Bad
  <2> QED
    BY <1>1, FS_StrictSubsetOrderingWellFounded, WFMin
<1>3. PICK x \in T : TRUE
  BY <1>0
<1>4. T \ {x} \in G
  <2>1. T \in SUBSET S /\ T \ {x} \in SUBSET S /\ T \ {x} # T
    BY <1>3
  <2>2. <<T \ {x}, T>> \in StrictSubsetOrdering(S)
    BY <2>1 DEF StrictSubsetOrdering
  <2>3. T \ {x} \notin Bad
    BY <1>2, <2>2
  <2> QED
    BY <2>1, <2>3
<1>5. (T \ {x}) \union {x} = T /\ x \in S \ (T \ {x})
  BY <1>3
<1> QED
  BY <1>2, <1>4, <1>5

(* A sum of natural numbers counts their units.                            *)
Units(f, T) == {p \in T \X Nat : p[2] \in 1..f[p[1]]}

(* One more element adds its units.                                        *)
LEMMA UnitsAdd ==
  ASSUME NEW f, NEW T, NEW x, x \notin T, f[x] \in Nat, IsFiniteSet(Units(f, T))
  PROVE  /\ IsFiniteSet(Units(f, T \union {x}))
         /\ Cardinality(Units(f, T \union {x})) = f[x] + Cardinality(Units(f, T))
<1> DEFINE New == {x} \X (1..f[x])
<1>1. IsFiniteSet(1..f[x]) /\ Cardinality(1..f[x]) = f[x]
  <2> DEFINE c == f[x]
  <2>1. c \in Nat /\ c \in Int /\ 1 \in Int
    OBVIOUS
  <2> HIDE DEF c
  <2>2. IsFiniteSet(1..c) /\ Cardinality(1..c) = IF 1 > c THEN 0 ELSE c - 1 + 1
    BY <2>1, FS_Interval
  <2>3. Cardinality(1..c) = c
    BY <2>1, <2>2
  <2> QED
    BY <2>2, <2>3 DEF c
<1>2. IsFiniteSet({x}) /\ Cardinality({x}) = 1
  BY FS_Singleton
<1>3. IsFiniteSet(New) /\ Cardinality(New) = 1 * Cardinality(1..f[x])
  BY <1>1, <1>2, FS_Product
<1>4. Cardinality(New) = f[x]
  BY <1>1, <1>3
<1>5. Units(f, T \union {x}) = Units(f, T) \union New
  BY DEF Units
<1>6. Units(f, T) \cap New = {}
  BY DEF Units
<1>7. Cardinality({}) = 0 /\ Cardinality(Units(f, T)) \in Nat
  BY FS_EmptySet, FS_CardinalityType
<1> HIDE DEF New
<1>8. /\ IsFiniteSet(Units(f, T) \union New)
      /\ Cardinality(Units(f, T) \union New)
           = Cardinality(Units(f, T)) + Cardinality(New) - Cardinality(Units(f, T) \cap New)
  BY <1>3, FS_Union
<1>9. Cardinality(Units(f, T) \union New) = f[x] + Cardinality(Units(f, T))
  <2>1. \A n, m \in Nat : n + m - 0 = m + n
    OBVIOUS
  <2> QED
    BY <1>4, <1>6, <1>7, <1>8, <2>1
<1> QED
  BY <1>5, <1>8, <1>9

(* The units of a finite set of naturals are finitely many.                *)
LEMMA UnitsFinite ==
  ASSUME NEW S, IsFiniteSet(S), NEW f, \A i \in S : f[i] \in Nat
  PROVE  \A T \in SUBSET S : IsFiniteSet(Units(f, T))
<1> SUFFICES ASSUME NEW T \in SUBSET S PROVE IsFiniteSet(Units(f, T))
  OBVIOUS
<1> DEFINE G == {U \in SUBSET T : IsFiniteSet(Units(f, U))}
<1>1. IsFiniteSet(T)
  BY FS_Subset
<1>2. {} \in G
  <2>1. Units(f, {}) = {}
    BY DEF Units
  <2> QED
    BY <2>1, FS_EmptySet
<1>3. \A U \in G : \A x \in T \ U : U \union {x} \in G
  <2> SUFFICES ASSUME NEW U \in G, NEW x \in T \ U PROVE IsFiniteSet(Units(f, U \union {x}))
    OBVIOUS
  <2> QED
    BY UnitsAdd
<1>4. T \in G
  <2> HIDE DEF G
  <2>1. G \in SUBSET SUBSET T
    BY DEF G
  <2> QED
    BY <1>1, <1>2, <1>3, <2>1, SetByElements
<1> QED
  BY <1>4

(* The fold of the community modules counts the units.                     *)
LEMMA SumIsUnits ==
  ASSUME NEW S, IsFiniteSet(S), NEW f, \A i \in S : f[i] \in Nat
  PROVE  SumFunctionOnSet(f, S) = Cardinality(Units(f, S))
<1> DEFINE Eq(g) == g = [s \in SUBSET S |->
              IF s = {} THEN 0
              ELSE f[CHOOSE x \in s : TRUE] + g[s \ {CHOOSE x \in s : TRUE}]]
           iter == CHOOSE g : Eq(g)
           count == [s \in SUBSET S |-> Cardinality(Units(f, s))]
<1>1. SumFunctionOnSet(f, S) = iter[S]
  BY DEF SumFunctionOnSet, FoldFunctionOnSet, MapThenFoldSet
<1>2. \A T \in SUBSET S : \A x \in T :
        Cardinality(Units(f, T)) = f[x] + Cardinality(Units(f, T \ {x}))
  <2> SUFFICES ASSUME NEW T \in SUBSET S, NEW x \in T
               PROVE  Cardinality(Units(f, T)) = f[x] + Cardinality(Units(f, T \ {x}))
    OBVIOUS
  <2>1. IsFiniteSet(Units(f, T \ {x})) /\ f[x] \in Nat /\ (T \ {x}) \union {x} = T
    BY UnitsFinite
  <2> QED
    BY <2>1, UnitsAdd
<1>3. Cardinality(Units(f, {})) = 0
  <2>1. Units(f, {}) = {}
    BY DEF Units
  <2> QED
    BY <2>1, FS_EmptySet
<1>4. Eq(count)
  <2> SUFFICES ASSUME NEW s \in SUBSET S
               PROVE count[s] = IF s = {} THEN 0
                       ELSE f[CHOOSE x \in s : TRUE] + count[s \ {CHOOSE x \in s : TRUE}]
    OBVIOUS
  <2>1. CASE s = {}
    BY <1>3, <2>1
  <2>2. CASE s # {}
    <3>1. (CHOOSE x \in s : TRUE) \in s
      BY <2>2
    <3> QED
      BY <1>2, <2>2, <3>1
  <2> QED
    BY <2>1, <2>2
<1>5. Eq(iter)
  <2> HIDE DEF count, Eq
  <2> QED
    BY <1>4
<1>6. \A s \in SUBSET S : iter[s] = IF s = {} THEN 0
                       ELSE f[CHOOSE x \in s : TRUE] + iter[s \ {CHOOSE x \in s : TRUE}]
  <2> HIDE DEF iter
  <2> QED
    BY <1>5
<1> HIDE DEF iter
<1> DEFINE Bad == {s \in SUBSET S : iter[s] # Cardinality(Units(f, s))}
<1>7. Bad = {}
  <2> SUFFICES ASSUME Bad # {} PROVE FALSE
    OBVIOUS
  <2>1. Bad \subseteq FiniteSubsetsOf(S)
    BY FS_FiniteSubsetsOfFinite
  <2>2. PICK T \in Bad : \A U \in Bad : ~(<<U, T>> \in StrictSubsetOrdering(S))
    <3> HIDE DEF Bad
    <3> QED
      BY <2>1, FS_StrictSubsetOrderingWellFounded, WFMin
  <2>3. T # {}
    BY <1>3, <1>6
  <2> DEFINE x == CHOOSE y \in T : TRUE
  <2>4. x \in T /\ T \in SUBSET S
    BY <2>3
  <2>5. iter[T] = f[x] + iter[T \ {x}]
    BY <1>6, <2>3
  <2>6. iter[T \ {x}] = Cardinality(Units(f, T \ {x}))
    <3> HIDE DEF x
    <3>1. T \ {x} \in SUBSET S /\ <<T \ {x}, T>> \in StrictSubsetOrdering(S)
      BY <2>4 DEF StrictSubsetOrdering
    <3> QED
      BY <2>2, <3>1
  <2>7. iter[T] = Cardinality(Units(f, T))
    BY <1>2, <2>4, <2>5, <2>6
  <2> QED
    BY <2>7
<1> QED
  BY <1>1, <1>7

(* A sum of natural numbers: of nothing, of zeros, and of one term more.   *)
LEMMA SumOfNothing ==
  ASSUME NEW f
  PROVE  SumFunctionOnSet(f, {}) = 0
<1>1. Units(f, {}) = {}
  BY DEF Units
<1> QED
  BY <1>1, FS_EmptySet, SumIsUnits

LEMMA SumOfZeros ==
  ASSUME NEW S, IsFiniteSet(S), NEW f, \A i \in S : f[i] = 0
  PROVE  SumFunctionOnSet(f, S) = 0
<1>1. Units(f, S) = {}
  BY DEF Units
<1> QED
  BY <1>1, FS_EmptySet, SumIsUnits

LEMMA SumIsNat ==
  ASSUME NEW S, IsFiniteSet(S), NEW f, \A i \in S : f[i] \in Nat
  PROVE  SumFunctionOnSet(f, S) \in Nat
BY SumIsUnits, UnitsFinite, FS_CardinalityType

(* A term can be taken out of the sum.                                     *)
LEMMA SumAdd ==
  ASSUME NEW S, IsFiniteSet(S), NEW f, NEW x \in S, \A i \in S : f[i] \in Nat
  PROVE  SumFunctionOnSet(f, S) = f[x] + SumFunctionOnSet(f, S \ {x})
<1>1. IsFiniteSet(S \ {x}) /\ (S \ {x}) \union {x} = S /\ IsFiniteSet(Units(f, S \ {x}))
  BY FS_RemoveElement, UnitsFinite
<1>2. Cardinality(Units(f, S)) = f[x] + Cardinality(Units(f, S \ {x}))
  BY <1>1, UnitsAdd
<1>3. SumFunctionOnSet(f, S \ {x}) = Cardinality(Units(f, S \ {x}))
  BY <1>1, SumIsUnits
<1> QED
  BY <1>2, <1>3, SumIsUnits

(* Functions that agree on a set have one sum over it.                     *)
LEMMA SumAgrees ==
  ASSUME NEW S, IsFiniteSet(S), NEW f, NEW g, \A i \in S : f[i] \in Nat /\ f[i] = g[i]
  PROVE  SumFunctionOnSet(f, S) = SumFunctionOnSet(g, S)
<1>1. Units(f, S) = Units(g, S)
  BY DEF Units
<1> QED
  BY <1>1, SumIsUnits

(* A sum follows the one term that changes.                                *)
LEMMA SumChange ==
  ASSUME NEW S, IsFiniteSet(S), NEW f, NEW g, NEW x \in S, NEW n \in Nat,
         \A i \in S : f[i] \in Nat, \A i \in S \ {x} : g[i] = f[i], g[x] = f[x] + n
  PROVE  SumFunctionOnSet(g, S) = SumFunctionOnSet(f, S) + n
<1> DEFINE rest == SumFunctionOnSet(f, S \ {x})
<1>1. IsFiniteSet(S \ {x}) /\ \A i \in S : g[i] \in Nat
  BY FS_RemoveElement
<1>2. SumFunctionOnSet(f, S) = f[x] + rest /\ rest \in Nat /\ f[x] \in Nat
  BY <1>1, SumAdd, SumIsNat
<1>3. SumFunctionOnSet(g, S \ {x}) = rest
  BY <1>1, SumAgrees
<1>4. SumFunctionOnSet(g, S) = f[x] + n + rest
  BY <1>1, <1>3, SumAdd
<1> HIDE DEF rest
<1> QED
  BY <1>2, <1>4

(* A sum is zero when each of its terms is.                                *)
LEMMA SumZero ==
  ASSUME NEW S, IsFiniteSet(S), NEW f, \A i \in S : f[i] \in Nat, SumFunctionOnSet(f, S) = 0
  PROVE  \A i \in S : f[i] = 0
<1> SUFFICES ASSUME NEW i \in S PROVE f[i] = 0
  OBVIOUS
<1>1. SumFunctionOnSet(f, S) = f[i] + SumFunctionOnSet(f, S \ {i}) /\ f[i] \in Nat
  BY SumAdd
<1>2. SumFunctionOnSet(f, S \ {i}) \in Nat
  BY FS_RemoveElement, SumIsNat
<1> QED
  BY <1>1, <1>2

-----------------------------------------------------------------------------
(* The inbound link                                                        *)

(* What is told apart of a field, what examines it, and a line.            *)
Classes == {"good", "form", "range"}
Rules == {"text", "number", "unbounded", "rest"}
Line == [version : {"V1", "other", "absent"}, type : Types \union {"STATUS"}, fields : Seq(Classes)]

-----------------------------------------------------------------------------
(* The lines of the pipe                                                   *)

(* What the terminal sends, damages and joins are lines.                   *)
LEMMA MessagesAreLines == Messages \subseteq Line
<1>1. ASSUME NEW type \in Types \union {"STATUS"}, NEW n \in Nat
      PROVE  Message(type, n) \in Line
  <2>1. [i \in 1..n |-> "good"] \in Seq(Classes)
    BY SeqDef DEF Classes
  <2> QED
    BY <2>1 DEF Message, Line
<1>2. {1, 2, 3, 6, 7} \subseteq Nat
  OBVIOUS
<1> QED
  BY <1>1, <1>2 DEF Messages, Types

LEMMA DamagedAreLines ==
  ASSUME NEW m \in Line
  PROVE  Damaged(m) \subseteq Line
<1>1. /\ m.fields \in Seq(Classes) /\ DOMAIN m.fields = 1..Len(m.fields) /\ Len(m.fields) \in Nat
      /\ m.version \in {"V1", "other", "absent"} /\ m.type \in Types \union {"STATUS"}
  BY LenProperties DEF Line
<1>2. ASSUME NEW i \in DOMAIN m.fields, NEW class \in {"form", "range"}
      PROVE  [m EXCEPT !.fields[i] = class] \in Line
  <2>1. [m.fields EXCEPT ![i] = class] \in Seq(Classes)
    BY <1>1, ExceptSeq DEF Classes
  <2> QED
    BY <2>1 DEF Line
<1>3. ASSUME NEW n \in 0..Len(m.fields) - 1
      PROVE  [m EXCEPT !.fields = SubSeq(@, 1, n)] \in Line
  <2>1. \A i \in 1..n : m.fields[i] \in Classes
    BY <1>1, ElementOfSeq
  <2>2. SubSeq(m.fields, 1, n) \in Seq(Classes)
    BY <1>1, <2>1, SubSeqProperties
  <2> QED
    BY <2>2 DEF Line
<1>4. ASSUME NEW v \in {"other", "absent"} PROVE [m EXCEPT !.version = v] \in Line
  BY DEF Line
<1> DEFINE Spoilt(i, class) == [m EXCEPT !.fields[i] = class]
           Bad == {Spoilt(i, class) : i \in DOMAIN m.fields, class \in {"form", "range"}}
           Cut == {[m EXCEPT !.fields = SubSeq(@, 1, n)] : n \in 0..Len(m.fields) - 1}
           Foreign == {[m EXCEPT !.version = v] : v \in {"other", "absent"}}
<1>5. Bad \subseteq Line
  <2>1. \A i \in DOMAIN m.fields, class \in {"form", "range"} : Spoilt(i, class) \in Line
    BY <1>2
  <2> HIDE DEF Spoilt
  <2> QED
    BY <2>1
<1>6. Cut \subseteq Line
  BY <1>3
<1>7. Foreign \subseteq Line
  BY <1>4
<1>8. Damaged(m) = Bad \union Cut \union Foreign
  BY DEF Damaged
<1> HIDE DEF Bad, Cut, Foreign
<1> QED
  BY <1>5, <1>6, <1>7, <1>8

LEMMA JoinedAreLines ==
  ASSUME NEW m1 \in Line, m1.fields # <<>>, NEW m2 \in Line
  PROVE  Joined(m1, m2) \in Line
<1>1. /\ m1.fields \in Seq(Classes) /\ m2.fields \in Seq(Classes)
      /\ Len(m1.fields) \in Nat /\ Len(m1.fields) # 0
  BY LenProperties, EmptySeq DEF Line
<1>2. \A i \in 1..Len(m1.fields) - 1 : m1.fields[i] \in Classes
  BY <1>1, ElementOfSeq
<1>3. SubSeq(m1.fields, 1, Len(m1.fields) - 1) \in Seq(Classes)
  BY <1>1, <1>2, SubSeqProperties
<1>4. <<"form", "form">> \in Seq(Classes)
  BY SeqDef DEF Classes
<1>5. SubSeq(m1.fields, 1, Len(m1.fields) - 1) \o <<"form", "form">> \o m2.fields \in Seq(Classes)
  BY <1>1, <1>3, <1>4, ConcatProperties
<1> QED
  BY <1>5 DEF Joined, Line

(* Whatever is damaged or joined, a field is one of three classes.         *)
LEMMA LinesAreLines == Lines \subseteq Line
<1>1. \A m \in Messages : m.fields # <<>>
  <2>1. ASSUME NEW type, NEW n \in Nat \ {0} PROVE Message(type, n).fields # <<>>
    <3>1. 1 \in DOMAIN Message(type, n).fields
      BY DEF Message
    <3> QED
      BY <3>1
  <2>2. {1, 2, 3, 6, 7} \subseteq Nat \ {0}
    OBVIOUS
  <2> QED
    BY <2>1, <2>2 DEF Messages
<1> SUFFICES ASSUME NEW l \in Lines PROVE l \in Line
  OBVIOUS
<1>2. CASE l \in Messages
  BY <1>2, MessagesAreLines
<1>3. CASE \E m \in Messages : l \in Damaged(m)
  BY <1>3, MessagesAreLines, DamagedAreLines
<1>4. CASE \E m1 \in Messages, m2 \in Messages : l = Joined(m1, m2)
  BY <1>1, <1>4, MessagesAreLines, JoinedAreLines
<1>5. \/ l \in Messages \/ \E m \in Messages : l \in Damaged(m)
      \/ \E m1 \in Messages, m2 \in Messages : l = Joined(m1, m2)
  BY DEF Lines
<1> QED
  BY <1>2, <1>3, <1>4, <1>5

-----------------------------------------------------------------------------
(* The parser                                                              *)

(* A set of naturals that is not empty has its least element.              *)
LEMMA LeastOf ==
  ASSUME NEW S \in SUBSET Nat, S # {}
  PROVE  Min(S) \in S
<1>1. PICK i \in S : \A j \in S : ~(<<j, i>> \in OpToRel(<, Nat))
  BY NatLessThanWellFounded, WFMin
<1>2. \A a, b \in Nat : <<b, a>> \in OpToRel(<, Nat) <=> b < a
  BY DEF OpToRel
<1>3. ASSUME NEW j \in S PROVE i <= j
  <2>1. i \in Nat /\ j \in Nat /\ ~(j < i)
    BY <1>1, <1>2
  <2> QED
    BY <2>1
<1> QED
  BY <1>3 DEF Min

(* Every parser examines fields by rules of the code.                      *)
LEMMA CheckRules ==
  ASSUME NEW type \in Types, NEW n
  PROVE  /\ DOMAIN Checks(type, n) \subseteq Nat
         /\ \A i \in DOMAIN Checks(type, n) : Checks(type, n)[i].rule \in Rules
<1> USE DEF Text, Number, Quote, Unbounded, Rest, Rules
<1>1. CASE type = "TICK"
  BY <1>1 DEF Checks, TickChecks
<1>2. CASE type = "FILL"
  BY <1>2 DEF Checks, FillChecks
<1>3. CASE type = "REJECT"
  BY <1>3 DEF Checks, RejectChecks
<1>4. CASE type = "CLOSED"
  BY <1>4 DEF Checks, ClosedChecks
<1>5. CASE type = "HEARTBEAT"
  BY <1>5 DEF Checks, HeartbeatChecks
<1> QED
  BY <1>1, <1>2, <1>3, <1>4, <1>5 DEF Types

(* Every line has one outcome; a message of a known type is of the header's *)
(* type and passed every check of it.                                      *)
LEMMA VerdictOf ==
  ASSUME NEW line \in Line
  PROVE  /\ parse_inbound(line) \in Verdicts
         /\ parse_inbound(line) \in Types \union {"unknown"} => line.version = "V1"
         /\ parse_inbound(line) \in Types =>
              /\ line.type = parse_inbound(line)
              /\ \A i \in DOMAIN Checks(line.type, Len(line.fields)) :
                   Examine(Checks(line.type, Len(line.fields))[i], line.fields) = "ok"
<1> DEFINE n == Len(line.fields)
           checks == Checks(line.type, n)
           failing == {i \in DOMAIN checks : Examine(checks[i], line.fields) # "ok"}
<1>1. line.version \in {"V1", "other", "absent"}
  BY DEF Line
<1>2. CASE line.version # "V1"
  BY <1>1, <1>2 DEF parse_inbound, Verdicts, Types, Errors
<1>3. CASE line.version = "V1" /\ line.type \notin Types
  BY <1>3 DEF parse_inbound, Verdicts, Types, Errors
<1>4. CASE line.version = "V1" /\ line.type \in Types
  <2>1. parse_inbound(line) = IF n < MinFields(line.type) THEN "parse_errors"
                              ELSE IF failing = {} THEN line.type
                              ELSE Examine(checks[Min(failing)], line.fields)
    BY <1>4 DEF parse_inbound
  <2>2. ASSUME failing # {}
        PROVE  Examine(checks[Min(failing)], line.fields) \in {"parse_errors", "validation_errors"}
    <3>1. failing \in SUBSET Nat
      BY <1>4, CheckRules
    <3>2. Min(failing) \in failing
      BY <2>2, <3>1, LeastOf
    <3>3. /\ Min(failing) \in DOMAIN checks
          /\ Examine(checks[Min(failing)], line.fields) # "ok"
      BY <3>2
    <3>4. checks[Min(failing)].rule \in Rules
      BY <1>4, <3>3, CheckRules
    <3> HIDE DEF checks, failing
    <3> QED
      BY <3>3, <3>4 DEF Examine, Rules
  <2>3. CASE n < MinFields(line.type)
    BY <2>1, <2>3 DEF Verdicts, Types, Errors
  <2>4. CASE ~(n < MinFields(line.type)) /\ failing = {}
    <3>1. parse_inbound(line) = line.type
      BY <2>1, <2>4
    <3>2. \A i \in DOMAIN checks : Examine(checks[i], line.fields) = "ok"
      BY <2>4
    <3> QED
      BY <1>4, <3>1, <3>2 DEF Verdicts
  <2>5. CASE ~(n < MinFields(line.type)) /\ failing # {}
    <3>1. parse_inbound(line) \in {"parse_errors", "validation_errors"}
      BY <2>1, <2>2, <2>5
    <3> QED
      BY <1>4, <3>1 DEF Verdicts, Types, Errors
  <2> QED
    BY <2>3, <2>4, <2>5
<1> QED
  BY <1>2, <1>3, <1>4

(* A field that passed its rule is a good one.                             *)
LEMMA TextPasses ==
  ASSUME NEW fields \in Seq(Classes), NEW i, Examine(Text(i), fields) = "ok"
  PROVE  fields[i] = "good"
BY DEF Examine, Text, sanitize_text

LEMMA NumberPasses ==
  ASSUME NEW fields \in Seq(Classes), NEW i \in 1..Len(fields), Examine(Number(i), fields) = "ok"
  PROVE  fields[i] = "good"
<1>1. fields[i] \in Classes
  BY ElementOfSeq
<1> QED
  BY <1>1 DEF Examine, Number, sanitize_numeric_range, Classes

LEMMA QuotePasses ==
  ASSUME NEW fields \in Seq(Classes), NEW i \in 1..Len(fields), NEW j \in 1..Len(fields),
         Examine(Quote(i, j), fields) = "ok"
  PROVE  fields[i] = "good" /\ fields[j] = "good"
<1>1. fields[i] \in Classes /\ fields[j] \in Classes
  BY ElementOfSeq
<1> QED
  BY <1>1 DEF Examine, Quote, sanitize_numeric_range, Classes

(* A tick, a fill or a close that passes has only good fields where its    *)
(* type has a whitelist or a range.                                        *)
LEMMA PassesSound ==
  ASSUME NEW line \in Line, NEW type \in {"TICK", "FILL", "CLOSED"}, parse_inbound(line) = type
  PROVE  \A i \in Ranged(type) : line.fields[i] = "good"
<1> DEFINE fields == line.fields
           n == Len(fields)
<1>1. /\ line.version = "V1" /\ line.type = type /\ type \in Types
      /\ \A i \in DOMAIN Checks(type, n) : Examine(Checks(type, n)[i], fields) = "ok"
  BY VerdictOf DEF Types
<1>2. fields \in Seq(Classes) /\ n \in Nat
  BY LenProperties DEF Line
<1>3. ~(n < MinFields(type))
  BY <1>1 DEF parse_inbound, Types
<1> HIDE DEF fields
<1>4. CASE type = "TICK"
  <2>1. n >= 7
    BY <1>2, <1>3, <1>4 DEF MinFields
  <2>2. \A i \in DOMAIN TickChecks : Examine(TickChecks[i], fields) = "ok"
    BY <1>1, <1>4 DEF Checks
  <2>3. /\ Examine(Text(1), fields) = "ok" /\ Examine(Number(2), fields) = "ok"
        /\ Examine(Quote(3, 4), fields) = "ok" /\ Examine(Number(5), fields) = "ok"
        /\ Examine(Text(6), fields) = "ok"
    BY <2>2 DEF TickChecks
  <2>4. 1..6 \subseteq 1..n
    BY <1>2, <2>1
  <2>5. \A i \in 1..6 : i = 1 \/ i = 2 \/ i = 3 \/ i = 4 \/ i = 5 \/ i = 6
    OBVIOUS
  <2>6. /\ fields[1] = "good" /\ fields[2] = "good" /\ fields[3] = "good" /\ fields[4] = "good"
        /\ fields[5] = "good" /\ fields[6] = "good"
    BY <1>2, <2>3, <2>4, TextPasses, NumberPasses, QuotePasses
  <2> QED
    BY <1>4, <2>5, <2>6 DEF Ranged, fields
<1>5. CASE type = "FILL"
  <2>1. n >= 7
    BY <1>2, <1>3, <1>5 DEF MinFields
  <2>2. \A i \in DOMAIN FillChecks : Examine(FillChecks[i], fields) = "ok"
    BY <1>1, <1>5 DEF Checks
  <2>3. /\ Examine(Text(1), fields) = "ok" /\ Examine(Text(2), fields) = "ok"
        /\ Examine(Text(3), fields) = "ok" /\ Examine(Number(4), fields) = "ok"
        /\ Examine(Number(5), fields) = "ok"
    BY <2>2 DEF FillChecks
  <2>4. 1..5 \subseteq 1..n
    BY <1>2, <2>1
  <2>5. \A i \in 1..5 : i = 1 \/ i = 2 \/ i = 3 \/ i = 4 \/ i = 5
    OBVIOUS
  <2>6. /\ fields[1] = "good" /\ fields[2] = "good" /\ fields[3] = "good" /\ fields[4] = "good"
        /\ fields[5] = "good"
    BY <1>2, <2>3, <2>4, TextPasses, NumberPasses
  <2> QED
    BY <1>5, <2>5, <2>6 DEF Ranged, fields
<1>6. CASE type = "CLOSED"
  <2>1. n >= 3
    BY <1>2, <1>3, <1>6 DEF MinFields
  <2>2. \A i \in DOMAIN ClosedChecks : Examine(ClosedChecks[i], fields) = "ok"
    BY <1>1, <1>6 DEF Checks
  <2>3. /\ Examine(Text(1), fields) = "ok" /\ Examine(Number(2), fields) = "ok"
        /\ Examine(Number(3), fields) = "ok"
    BY <2>2 DEF ClosedChecks
  <2>4. 1..3 \subseteq 1..n
    BY <1>2, <2>1
  <2>5. \A i \in 1..3 : i = 1 \/ i = 2 \/ i = 3
    OBVIOUS
  <2>6. fields[1] = "good" /\ fields[2] = "good" /\ fields[3] = "good"
    BY <1>2, <2>3, <2>4, TextPasses, NumberPasses
  <2> QED
    BY <1>6, <2>5, <2>6 DEF Ranged, fields
<1> QED
  BY <1>4, <1>5, <1>6

-----------------------------------------------------------------------------
(* The tick queues                                                         *)

(* The newest ticks of a symbol, without a gap. *)
NewestTicks(q, n) == \A i \in 1..Len(q) : q[i] = n - Len(q) + i

Trimmed(q) == IF Len(q) < TickMax THEN q ELSE Tail(q)

(* Reads, and overflows, leave the newest ticks in the queue.              *)
LEMMA TailNewest ==
  ASSUME NEW q \in Seq(Nat), q # <<>>, NEW n \in Nat, NewestTicks(q, n), Len(q) <= n
  PROVE  /\ Tail(q) \in Seq(Nat) /\ Len(Tail(q)) = Len(q) - 1
         /\ NewestTicks(Tail(q), n) /\ Head(q) = n - Len(Tail(q)) /\ Head(q) \in Nat
         /\ Len(q) \in Nat \ {0}
<1> DEFINE r == Tail(q)
<1>1. /\ r \in Seq(Nat) /\ Len(r) = Len(q) - 1 /\ Head(q) = q[1]
      /\ \A i \in 1..Len(r) : r[i] = q[i + 1]
  BY HeadTailProperties
<1>2. Len(q) \in Nat \ {0}
  BY EmptySeq
<1> HIDE DEF r
<1>3. NewestTicks(r, n)
  <2> SUFFICES ASSUME NEW i \in 1..Len(r) PROVE r[i] = n - Len(r) + i
    BY DEF NewestTicks
  <2>1. i + 1 \in 1..Len(q) /\ i \in Nat
    BY <1>1, <1>2
  <2>2. q[i + 1] = n - Len(q) + (i + 1)
    BY <2>1 DEF NewestTicks
  <2> QED
    BY <1>1, <1>2, <2>1, <2>2
<1>4. q[1] = n - Len(q) + 1
  BY <1>2 DEF NewestTicks
<1>5. Head(q) = n - Len(r) /\ Head(q) \in Nat
  BY <1>1, <1>2, <1>4
<1> QED
  BY <1>1, <1>2, <1>3, <1>5 DEF r

LEMMA AppendNewest ==
  ASSUME NEW q \in Seq(Nat), NEW n \in Nat, NewestTicks(q, n), Len(q) <= n, Len(q) <= TickMax
  PROVE  LET new == Append(Trimmed(q), n + 1)
         IN  /\ new \in Seq(Nat) /\ NewestTicks(new, n + 1) /\ Len(new) <= TickMax
             /\ Len(new) \in Nat /\ Len(new) <= Len(q) + 1
             /\ Len(new) = IF Len(q) < TickMax THEN Len(q) + 1 ELSE Len(q)
<1> DEFINE r == Trimmed(q)
           new == Append(r, n + 1)
<1>0. TickMax \in Nat \ {0} /\ Len(q) \in Nat
  BY InboundAssumption, LenProperties DEF InboundAssumption
<1>1. /\ r \in Seq(Nat) /\ NewestTicks(r, n) /\ Len(r) < TickMax /\ Len(r) <= Len(q) /\ Len(r) \in Nat
      /\ Len(r) = IF Len(q) < TickMax THEN Len(q) ELSE Len(q) - 1
  <2>1. CASE Len(q) < TickMax
    BY <1>0, <2>1 DEF Trimmed
  <2>2. CASE ~(Len(q) < TickMax)
    <3>1. q # <<>>
      BY <1>0, <2>2, EmptySeq
    <3>2. r = Tail(q)
      BY <2>2 DEF Trimmed
    <3> HIDE DEF r
    <3>3. r \in Seq(Nat) /\ NewestTicks(r, n) /\ Len(r) = Len(q) - 1
      BY <3>1, <3>2, TailNewest
    <3>4. \A a, m \in Nat : ~(a < m) /\ a <= m /\ m # 0 => a - 1 \in Nat /\ a - 1 < m /\ a - 1 <= a
      OBVIOUS
    <3>5. Len(q) - 1 \in Nat /\ Len(q) - 1 < TickMax /\ Len(q) - 1 <= Len(q)
      BY <1>0, <2>2, <3>4
    <3> QED
      BY <2>2, <3>3, <3>5, Zenon
  <2> QED
    BY <2>1, <2>2
<1> HIDE DEF r
<1>2. /\ new \in Seq(Nat) /\ Len(new) = Len(r) + 1 /\ new[Len(r) + 1] = n + 1
      /\ \A i \in 1..Len(r) : new[i] = r[i]
  BY <1>1, AppendProperties
<1> HIDE DEF new
<1>3. NewestTicks(new, n + 1)
  <2> SUFFICES ASSUME NEW i \in 1..Len(new) PROVE new[i] = n + 1 - Len(new) + i
    BY DEF NewestTicks
  <2>1. CASE i \in 1..Len(r)
    <3>1. r[i] = n - Len(r) + i
      BY <1>1, <2>1 DEF NewestTicks
    <3>2. \A a, b, c \in Int : a - b + c = a + 1 - (b + 1) + c
      OBVIOUS
    <3>3. n - Len(r) + i = n + 1 - Len(new) + i
      BY <1>1, <1>2, <2>1, <3>2
    <3> QED
      BY <1>2, <2>1, <3>1, <3>3, Zenon
  <2>2. CASE i = Len(r) + 1
    BY <1>1, <1>2, <2>2
  <2> QED
    BY <1>1, <1>2, <2>1, <2>2
<1> QED
  BY <1>0, <1>1, <1>2, <1>3 DEF new, r

-----------------------------------------------------------------------------
(* The inductive invariant                                                 *)

(* The counters are natural numbers.                                       *)
CountersTyped ==
  /\ verdicts \in [Verdicts -> Nat] /\ total_lines_read \in Nat /\ total_parsed \in Nat
  /\ responses \in [Verdicts -> Nat]
  /\ dispatched \in [Types -> Nat] /\ overflows \in [{"tick", "fill"} -> Nat]
  /\ fill_queue \in Seq(Types) /\ fills_taken \in Nat

(* The queues hold the numbers of ticks, within their size.                *)
TicksTyped ==
  /\ tick_queues \in [QueuedSymbols -> Seq(Nat)] /\ accepted \in [QueuedSymbols -> Nat]
  /\ last_taken \in [QueuedSymbols -> Nat] /\ taken \in [QueuedSymbols -> Nat]

(* A queue holds the newest ticks, all newer than the last one taken, and  *)
(* the task took no more than was put.                                     *)
TicksInOrder ==
  \A s \in QueuedSymbols :
    /\ NewestTicks(tick_queues[s], accepted[s])
    /\ Len(tick_queues[s]) <= TickMax
    /\ last_taken[s] + Len(tick_queues[s]) <= accepted[s]
    /\ taken[s] <= last_taken[s]

(* The overflows of the tick queues are the ticks they lost. *)
LostCounted == overflows["tick"] = SumFunctionOnSet(Lost, QueuedSymbols)

(* The inductive invariant of the link.                                    *)
InboundInv ==
  /\ CountersTyped /\ TicksTyped /\ TicksInOrder /\ LostCounted
  /\ ReadsAccounted /\ Len(fill_queue) <= FillMax /\ ~unsound

(* A counter goes up by one.                                               *)
LEMMA Incremented ==
  ASSUME NEW S, NEW f \in [S -> Nat], NEW k \in S
  PROVE  /\ Increment(f, k) \in [S -> Nat]
         /\ \A x \in S : Increment(f, k)[x] = IF x = k THEN f[x] + 1 ELSE f[x]
BY DEF Increment

(* What one more outcome does to the sums. *)
LEMMA SumsFollow ==
  ASSUME NEW S, Types \subseteq S, NEW f \in [S -> Nat], NEW k \in S
  PROVE  /\ Fills(f) \in Nat /\ Parsed(f) \in Nat
         /\ Fills(Increment(f, k)) = IF k \in {"FILL", "REJECT", "CLOSED"} THEN Fills(f) + 1
                                     ELSE Fills(f)
         /\ Parsed(Increment(f, k)) = IF k \in Types THEN Parsed(f) + 1 ELSE Parsed(f)
<1> DEFINE g == Increment(f, k)
<1>1. \A x \in S : f[x] \in Nat /\ g[x] = IF x = k THEN f[x] + 1 ELSE f[x]
  BY Incremented
<1> HIDE DEF g
<1>2. /\ f["TICK"] \in Nat /\ f["FILL"] \in Nat /\ f["REJECT"] \in Nat /\ f["CLOSED"] \in Nat
      /\ f["HEARTBEAT"] \in Nat
  BY <1>1 DEF Types
<1>3. /\ g["TICK"] = IF k = "TICK" THEN f["TICK"] + 1 ELSE f["TICK"]
      /\ g["FILL"] = IF k = "FILL" THEN f["FILL"] + 1 ELSE f["FILL"]
      /\ g["REJECT"] = IF k = "REJECT" THEN f["REJECT"] + 1 ELSE f["REJECT"]
      /\ g["CLOSED"] = IF k = "CLOSED" THEN f["CLOSED"] + 1 ELSE f["CLOSED"]
      /\ g["HEARTBEAT"] = IF k = "HEARTBEAT" THEN f["HEARTBEAT"] + 1 ELSE f["HEARTBEAT"]
  BY <1>1 DEF Types
<1>4. Fills(f) \in Nat /\ Parsed(f) \in Nat
  BY <1>2 DEF Fills, Parsed
<1>5. Fills(g) = IF k \in {"FILL", "REJECT", "CLOSED"} THEN Fills(f) + 1 ELSE Fills(f)
  <2>1. CASE k = "FILL"
    BY <1>2, <1>3, <2>1 DEF Fills
  <2>2. CASE k = "REJECT"
    BY <1>2, <1>3, <2>2 DEF Fills
  <2>3. CASE k = "CLOSED"
    BY <1>2, <1>3, <2>3 DEF Fills
  <2>4. CASE k \notin {"FILL", "REJECT", "CLOSED"}
    BY <1>3, <2>4 DEF Fills
  <2> QED
    BY <2>1, <2>2, <2>3, <2>4
<1>6. Parsed(g) = IF k \in Types THEN Parsed(f) + 1 ELSE Parsed(f)
  <2>1. CASE k \in {"FILL", "REJECT", "CLOSED"}
    BY <1>2, <1>3, <1>4, <1>5, <2>1 DEF Parsed, Types
  <2>2. CASE k = "TICK"
    BY <1>2, <1>3, <1>4, <1>5, <2>2 DEF Parsed, Types
  <2>3. CASE k = "HEARTBEAT"
    BY <1>2, <1>3, <1>4, <1>5, <2>3 DEF Parsed, Types
  <2>4. CASE k \notin Types
    BY <1>3, <1>5, <2>4 DEF Parsed, Types
  <2> QED
    BY <2>1, <2>2, <2>3, <2>4 DEF Types
<1> QED
  BY <1>4, <1>5, <1>6 DEF g

(* The errors counted are the errors of the metrics.                       *)
LEMMA UnusableFollow ==
  ASSUME NEW f \in [Verdicts -> Nat], NEW k \in Verdicts
  PROVE  /\ Unusable(f) \in Nat
         /\ Unusable(Increment(f, k)) = IF k \in Errors THEN Unusable(f) + 1 ELSE Unusable(f)
<1> DEFINE g == Increment(f, k)
<1>1. \A x \in Verdicts : f[x] \in Nat /\ g[x] = IF x = k THEN f[x] + 1 ELSE f[x]
  BY Incremented
<1> HIDE DEF g
<1>2. /\ f["parse_errors"] \in Nat /\ f["version_mismatches"] \in Nat
      /\ f["validation_errors"] \in Nat
  BY <1>1 DEF Verdicts, Errors
<1>3. /\ g["parse_errors"] = IF k = "parse_errors" THEN f["parse_errors"] + 1 ELSE f["parse_errors"]
      /\ g["version_mismatches"] = IF k = "version_mismatches" THEN f["version_mismatches"] + 1
                                   ELSE f["version_mismatches"]
      /\ g["validation_errors"] = IF k = "validation_errors" THEN f["validation_errors"] + 1
                                  ELSE f["validation_errors"]
  BY <1>1 DEF Verdicts, Errors
<1>4. CASE k = "parse_errors"
  BY <1>2, <1>3, <1>4 DEF Unusable, Errors, g
<1>5. CASE k = "version_mismatches"
  BY <1>2, <1>3, <1>5 DEF Unusable, Errors, g
<1>6. CASE k = "validation_errors"
  BY <1>2, <1>3, <1>6 DEF Unusable, Errors, g
<1>7. CASE k \notin Errors
  BY <1>2, <1>3, <1>7 DEF Unusable, Errors, g
<1> QED
  BY <1>4, <1>5, <1>6, <1>7 DEF Errors

(* Every outcome is one of a type, unknown or an error.                    *)
LEMMA OutcomesFollow ==
  ASSUME NEW f \in [Verdicts -> Nat], NEW k \in Verdicts
  PROVE  /\ Outcomes(f) \in Nat /\ f["unknown"] \in Nat
         /\ Outcomes(Increment(f, k)) = Outcomes(f) + 1
         /\ Increment(f, k)["unknown"] = IF k = "unknown" THEN f["unknown"] + 1 ELSE f["unknown"]
<1> DEFINE g == Increment(f, k)
           p == Parsed(f)
           n == f["unknown"]
           u == Unusable(f)
<1>1. /\ Types \subseteq Verdicts /\ "unknown" \in Verdicts
      /\ Verdicts = Types \union Errors \union {"unknown"}
      /\ Types \cap Errors = {} /\ "unknown" \notin Types \union Errors
  BY DEF Verdicts, Types, Errors
<1>2. n \in Nat /\ g["unknown"] = IF k = "unknown" THEN n + 1 ELSE n
  <2>1. \A x \in Verdicts : f[x] \in Nat /\ g[x] = IF x = k THEN f[x] + 1 ELSE f[x]
    BY Incremented
  <2> QED
    BY <1>1, <2>1
<1>3. /\ p \in Nat /\ u \in Nat
      /\ Parsed(g) = IF k \in Types THEN p + 1 ELSE p
      /\ Unusable(g) = IF k \in Errors THEN u + 1 ELSE u
  BY <1>1, SumsFollow, UnusableFollow
<1>4. Outcomes(f) = p + n + u /\ Outcomes(g) = Parsed(g) + g["unknown"] + Unusable(g)
  BY DEF Outcomes
<1> HIDE DEF g, p, n, u
<1>5. CASE k \in Types
  BY <1>1, <1>2, <1>3, <1>4, <1>5 DEF g, n
<1>6. CASE k \in Errors
  BY <1>1, <1>2, <1>3, <1>4, <1>6 DEF g, n
<1>7. CASE k = "unknown"
  BY <1>1, <1>2, <1>3, <1>4, <1>7 DEF g, n
<1> QED
  BY <1>1, <1>5, <1>6, <1>7

(* What the counters of the parser say after one more line of any source:  *)
(* one outcome, and a line of this version if it had a type.               *)
LEMMA OneMoreParsed ==
  ASSUME CountersTyped, ReadsAccounted, NEW v \in Verdicts, verdicts' = Increment(verdicts, v),
         NEW p \in {0, 1}, total_parsed' = total_parsed + p,
         v \in Types \union {"unknown"} => p = 1
  PROVE  /\ total_parsed' >= Parsed(verdicts') + verdicts'["unknown"]
         /\ Outcomes(verdicts') = Outcomes(verdicts) + 1
<1> DEFINE n == Parsed(verdicts)
           u == verdicts["unknown"]
<1>1. verdicts \in [Verdicts -> Nat] /\ Types \subseteq Verdicts /\ "unknown" \notin Types
  BY DEF CountersTyped, Verdicts, Types
<1>2. /\ n \in Nat /\ u \in Nat /\ total_parsed \in Nat /\ total_parsed >= n + u
      /\ Parsed(verdicts') = (IF v \in Types THEN n + 1 ELSE n)
      /\ verdicts'["unknown"] = (IF v = "unknown" THEN u + 1 ELSE u)
      /\ Outcomes(verdicts') = Outcomes(verdicts) + 1
  BY <1>1, SumsFollow, OutcomesFollow DEF CountersTyped, ReadsAccounted
<1> HIDE DEF n, u
<1>3. CASE v \in Types
  BY <1>1, <1>2, <1>3
<1>4. CASE v = "unknown"
  BY <1>1, <1>2, <1>4
<1>5. CASE v \notin Types \union {"unknown"}
  BY <1>2, <1>5
<1> QED
  BY <1>2, <1>3, <1>4, <1>5

(* A read has one outcome more: refused, or parsed and dispatched, or      *)
(* parsed and lost by a full queue.                                        *)
LEMMA ReadAccounted ==
  ASSUME InboundInv, NEW v \in Verdicts, verdicts' = Increment(verdicts, v),
         total_lines_read' = total_lines_read + 1,
         NEW p \in {0, 1}, total_parsed' = total_parsed + p,
         v \in Types \union {"unknown"} => p = 1,
         NEW lost \in BOOLEAN, lost => v \in {"FILL", "REJECT", "CLOSED"},
         dispatched' = IF lost \/ v \notin Types THEN dispatched ELSE Increment(dispatched, v),
         overflows'["fill"] = IF lost THEN overflows["fill"] + 1 ELSE overflows["fill"],
         Len(fill_queue') = IF ~lost /\ v \in {"FILL", "REJECT", "CLOSED"}
                            THEN Len(fill_queue) + 1 ELSE Len(fill_queue),
         UNCHANGED <<responses, fills_taken>>
  PROVE  ReadsAccounted'
<1> DEFINE fv == Fills(verdicts)
           fd == Fills(dispatched)
           fr == Fills(responses)
           ov == overflows["fill"]
           wait == Len(fill_queue)
           oc == Outcomes(verdicts)
           ro == Outcomes(responses)
           fvv == Fills(verdicts')
           fdd == Fills(dispatched')
           ovv == overflows'["fill"]
           waitt == Len(fill_queue')
           isfill == v \in {"FILL", "REJECT", "CLOSED"}
<1>1. /\ verdicts \in [Verdicts -> Nat] /\ total_lines_read \in Nat /\ total_parsed \in Nat
      /\ dispatched \in [Types -> Nat] /\ overflows \in [{"tick", "fill"} -> Nat]
      /\ responses \in [Verdicts -> Nat] /\ fills_taken \in Nat /\ wait \in Nat
      /\ CountersTyped /\ ReadsAccounted
  BY LenProperties DEF InboundInv, CountersTyped
<1>2. Types \subseteq Verdicts /\ (isfill => v \in Types)
      /\ "TICK" \in Types /\ "HEARTBEAT" \in Types
  BY DEF Verdicts, Types
<1>3. fv \in Nat /\ fvv = IF isfill THEN fv + 1 ELSE fv
  BY <1>1, <1>2, SumsFollow
<1>4. fr \in Nat /\ ro \in Nat /\ oc \in Nat
  BY <1>1, <1>2, SumsFollow, OutcomesFollow
<1>5. fd \in Nat /\ fdd = IF isfill /\ ~lost THEN fd + 1 ELSE fd
  <2>1. fd \in Nat
    BY <1>1, <1>2, SumsFollow
  <2>2. CASE lost \/ v \notin Types
    BY <1>2, <2>1, <2>2
  <2>3. CASE ~lost /\ v \in Types
    BY <1>1, <2>3, SumsFollow
  <2> QED
    BY <2>1, <2>2, <2>3
<1>6. ov \in Nat /\ ovv = (IF lost THEN ov + 1 ELSE ov) /\ (lost => isfill)
      /\ waitt = IF isfill /\ ~lost THEN wait + 1 ELSE wait
  BY <1>1
<1>7. oc = total_lines_read + ro /\ fv = fd + ov + fr /\ fd = wait + fills_taken
  BY DEF InboundInv, ReadsAccounted
<1>8. \A t \in {"TICK", "HEARTBEAT"} : verdicts'[t] = dispatched'[t] + responses'[t]
  <2> SUFFICES ASSUME NEW t \in {"TICK", "HEARTBEAT"}
               PROVE  verdicts'[t] = dispatched'[t] + responses'[t]
    OBVIOUS
  <2>1. /\ t \in Types /\ t \in Verdicts /\ (lost => v # t)
        /\ verdicts[t] \in Nat /\ dispatched[t] \in Nat /\ responses[t] \in Nat
        /\ responses'[t] = responses[t]
    BY <1>1, <1>2
  <2>2. verdicts[t] = dispatched[t] + responses[t]
    BY DEF InboundInv, ReadsAccounted
  <2>3. verdicts'[t] = IF t = v THEN verdicts[t] + 1 ELSE verdicts[t]
    BY <1>1, <2>1 DEF Increment
  <2>4. dispatched'[t] = IF t = v THEN dispatched[t] + 1 ELSE dispatched[t]
    <3>1. CASE lost \/ v \notin Types
      BY <2>1, <3>1
    <3>2. CASE ~lost /\ v \in Types
      BY <1>1, <2>1, <3>2 DEF Increment
    <3> QED
      BY <3>1, <3>2
  <2> QED
    BY <2>1, <2>2, <2>3, <2>4
<1>9. /\ total_parsed' >= Parsed(verdicts') + verdicts'["unknown"]
      /\ Outcomes(verdicts') = oc + 1
  BY <1>1, OneMoreParsed
<1> HIDE DEF fv, fd, fr, ov, wait, oc, ro, fvv, fdd, ovv, waitt, isfill
<1>10. Outcomes(verdicts') = total_lines_read' + ro
  BY <1>1, <1>4, <1>7, <1>9
<1>11. fvv = fdd + ovv + fr /\ fdd = waitt + fills_taken'
  BY <1>1, <1>3, <1>4, <1>5, <1>6, <1>7
<1> QED
  BY <1>8, <1>9, <1>10, <1>11 DEF ReadsAccounted, ro, fr, fvv, fdd, ovv, waitt

(* A response adds one outcome on either side of the balance.              *)
LEMMA ResponseAccounted ==
  ASSUME InboundInv, NEW v \in Verdicts, verdicts' = Increment(verdicts, v),
         total_parsed' = total_parsed + 1, responses' = Increment(responses, v),
         UNCHANGED <<total_lines_read, dispatched, overflows, fill_queue, fills_taken>>
  PROVE  ReadsAccounted'
<1> DEFINE fv == Fills(verdicts)
           fd == Fills(dispatched)
           fr == Fills(responses)
           ov == overflows["fill"]
<1>1. /\ verdicts \in [Verdicts -> Nat] /\ total_lines_read \in Nat
      /\ dispatched \in [Types -> Nat] /\ overflows \in [{"tick", "fill"} -> Nat]
      /\ responses \in [Verdicts -> Nat] /\ CountersTyped /\ ReadsAccounted
  BY DEF InboundInv, CountersTyped
<1>2. Types \subseteq Verdicts /\ "TICK" \in Types /\ "HEARTBEAT" \in Types
  BY DEF Verdicts, Types
<1>3. /\ fv \in Nat /\ fr \in Nat /\ fd \in Nat /\ ov \in Nat
      /\ Fills(verdicts') = IF v \in {"FILL", "REJECT", "CLOSED"} THEN fv + 1 ELSE fv
      /\ Fills(responses') = IF v \in {"FILL", "REJECT", "CLOSED"} THEN fr + 1 ELSE fr
  BY <1>1, <1>2, SumsFollow
<1>4. /\ total_parsed' >= Parsed(verdicts') + verdicts'["unknown"]
      /\ Outcomes(verdicts') = Outcomes(verdicts) + 1
  BY <1>1, OneMoreParsed
<1>5. Outcomes(responses) \in Nat /\ Outcomes(responses') = Outcomes(responses) + 1
  BY <1>1, OutcomesFollow
<1>6. Outcomes(verdicts') = total_lines_read' + Outcomes(responses')
  <2>1. Outcomes(verdicts) = total_lines_read + Outcomes(responses)
    BY <1>1 DEF ReadsAccounted
  <2> QED
    BY <1>1, <1>4, <1>5, <2>1
<1>7. \A t \in {"TICK", "HEARTBEAT"} : verdicts'[t] = dispatched'[t] + responses'[t]
  <2> SUFFICES ASSUME NEW t \in {"TICK", "HEARTBEAT"}
               PROVE  verdicts'[t] = dispatched'[t] + responses'[t]
    OBVIOUS
  <2>1. /\ t \in Verdicts /\ dispatched'[t] = dispatched[t]
        /\ verdicts[t] \in Nat /\ dispatched[t] \in Nat /\ responses[t] \in Nat
    BY <1>1, <1>2
  <2>2. verdicts[t] = dispatched[t] + responses[t]
    BY <1>1 DEF ReadsAccounted
  <2>3. /\ verdicts'[t] = IF t = v THEN verdicts[t] + 1 ELSE verdicts[t]
        /\ responses'[t] = IF t = v THEN responses[t] + 1 ELSE responses[t]
    BY <1>1, <2>1 DEF Increment
  <2> QED
    BY <2>1, <2>2, <2>3
<1>8. Fills(verdicts') = Fills(dispatched') + overflows'["fill"] + Fills(responses')
  <2>1. fv = fd + ov + fr
    BY <1>1 DEF ReadsAccounted
  <2> HIDE DEF fv, fd, fr, ov
  <2>2. CASE v \in {"FILL", "REJECT", "CLOSED"}
    BY <1>3, <2>1, <2>2 DEF fd, ov
  <2>3. CASE v \notin {"FILL", "REJECT", "CLOSED"}
    BY <1>3, <2>1, <2>3 DEF fd, ov
  <2> QED
    BY <2>2, <2>3
<1>9. Fills(dispatched') = Len(fill_queue') + fills_taken'
  BY <1>1 DEF ReadsAccounted
<1> QED
  BY <1>4, <1>6, <1>7, <1>8, <1>9 DEF ReadsAccounted

(* A queue that loses ticks is counted in its overflows.                   *)
LEMMA LostFollows ==
  ASSUME TicksTyped, TicksInOrder, LostCounted, NEW s \in QueuedSymbols, NEW n \in Nat,
         overflows'["tick"] = overflows["tick"] + n,
         \A u \in QueuedSymbols : Lost'[u] = IF u = s THEN Lost[u] + n ELSE Lost[u]
  PROVE  LostCounted'
<1>1. IsFiniteSet(QueuedSymbols)
  BY InboundAssumption, FS_Union DEF InboundAssumption, QueuedSymbols
<1>2. \A u \in QueuedSymbols : Lost[u] \in Nat
  <2> SUFFICES ASSUME NEW u \in QueuedSymbols PROVE Lost[u] \in Nat
    OBVIOUS
  <2>1. /\ Len(tick_queues[u]) \in Nat /\ accepted[u] \in Nat /\ taken[u] \in Nat
        /\ last_taken[u] \in Nat
        /\ last_taken[u] + Len(tick_queues[u]) <= accepted[u] /\ taken[u] <= last_taken[u]
    BY LenProperties DEF TicksTyped, TicksInOrder
  <2>2. \A a, b, c, d \in Nat : d + c <= a /\ b <= d => a - b - c \in Nat
    OBVIOUS
  <2>3. Lost[u] = accepted[u] - taken[u] - Len(tick_queues[u])
    BY DEF Lost
  <2> QED
    BY <2>1, <2>2, <2>3
<1>3. /\ \A u \in QueuedSymbols \ {s} : Lost'[u] = Lost[u]
      /\ Lost'[s] = Lost[s] + n
  OBVIOUS
<1>4. SumFunctionOnSet(Lost', QueuedSymbols) = SumFunctionOnSet(Lost, QueuedSymbols) + n
  BY <1>1, <1>2, <1>3, SumChange
<1> QED
  BY <1>4 DEF LostCounted

(* A tick is put on its queue, which keeps the newest. *)
LEMMA TickPut ==
  ASSUME TicksTyped, TicksInOrder, LostCounted, overflows \in [{"tick", "fill"} -> Nat],
         NEW s \in QueuedSymbols, DispatchTick(s), UNCHANGED router
  PROVE  TicksTyped' /\ TicksInOrder' /\ LostCounted'
<1> DEFINE q == tick_queues[s]
           n == accepted[s]
           new == Append(Trimmed(q), n + 1)
<1>1. /\ q \in Seq(Nat) /\ n \in Nat /\ NewestTicks(q, n) /\ Len(q) <= TickMax
      /\ last_taken[s] + Len(q) <= n /\ last_taken[s] \in Nat /\ Len(q) \in Nat
      /\ TickMax \in Nat
  BY InboundAssumption, LenProperties DEF InboundAssumption, TicksTyped, TicksInOrder
<1>2. Len(q) <= n
  BY <1>1
<1>3. /\ tick_queues' = [tick_queues EXCEPT ![s] = new]
      /\ accepted' = [accepted EXCEPT ![s] = n + 1]
      /\ UNCHANGED <<last_taken, taken>>
      /\ overflows' = IF Len(q) < TickMax THEN overflows ELSE Increment(overflows, "tick")
  BY DEF DispatchTick, Trimmed, Increment, router
<1> HIDE DEF q, n
<1>4. /\ new \in Seq(Nat) /\ NewestTicks(new, n + 1) /\ Len(new) <= TickMax /\ Len(new) \in Nat
      /\ Len(new) <= Len(q) + 1 /\ Len(new) = IF Len(q) < TickMax THEN Len(q) + 1 ELSE Len(q)
  BY <1>1, <1>2, AppendNewest
<1> HIDE DEF new
<1>5. last_taken[s] + Len(new) <= n + 1
  BY <1>1, <1>4
<1>6. \A u \in QueuedSymbols :
        /\ tick_queues'[u] = IF u = s THEN new ELSE tick_queues[u]
        /\ accepted'[u] = IF u = s THEN n + 1 ELSE accepted[u]
  BY <1>3 DEF TicksTyped
<1>7. TicksTyped'
  <2>1. n + 1 \in Nat /\ new \in Seq(Nat)
    BY <1>1, <1>4
  <2>2. tick_queues' \in [QueuedSymbols -> Seq(Nat)]
    BY <1>3, <2>1 DEF TicksTyped
  <2>3. accepted' \in [QueuedSymbols -> Nat]
    BY <1>3, <2>1 DEF TicksTyped
  <2> QED
    BY <1>3, <2>2, <2>3 DEF TicksTyped
<1>8. TicksInOrder'
  BY <1>3, <1>4, <1>5, <1>6 DEF TicksInOrder
<1> DEFINE lost == IF Len(q) < TickMax THEN 0 ELSE 1
<1>9. overflows'["tick"] = overflows["tick"] + lost /\ lost \in Nat
  BY <1>3 DEF Increment
<1>10. \A u \in QueuedSymbols : Lost'[u] = IF u = s THEN Lost[u] + lost ELSE Lost[u]
  <2>1. Lost[s] = n - taken[s] - Len(q)
    BY DEF Lost, n, q
  <2>2. Lost'[s] = (n + 1) - taken[s] - Len(new)
    <3>1. accepted'[s] = n + 1 /\ tick_queues'[s] = new /\ taken'[s] = taken[s]
      BY <1>3, <1>6
    <3>2. Lost'[s] = accepted'[s] - taken'[s] - Len(tick_queues'[s])
      BY DEF Lost
    <3> QED
      BY <3>1, <3>2
  <2>3. taken[s] \in Nat
    BY DEF TicksTyped
  <2>4. Lost'[s] = Lost[s] + lost
    <3> DEFINE t == taken[s]
               l == Len(q)
    <3>1. /\ (n + 1) - t - (l + 1) = (n - t - l) + 0
          /\ (n + 1) - t - l = (n - t - l) + 1
      <4>1. n \in Nat /\ t \in Nat /\ l \in Nat
        BY <1>1, <2>3
      <4> HIDE DEF t, l
      <4> QED
        BY <4>1
    <3>2. CASE Len(q) < TickMax
      <4>1. Len(new) = Len(q) + 1 /\ lost = 0
        BY <1>4, <3>2
      <4> QED
        BY <2>1, <2>2, <3>1, <4>1
    <3>3. CASE ~(Len(q) < TickMax)
      <4>1. Len(new) = Len(q) /\ lost = 1
        BY <1>4, <3>3
      <4> QED
        BY <2>1, <2>2, <3>1, <4>1
    <3> QED
      BY <3>2, <3>3
  <2>5. \A u \in QueuedSymbols \ {s} : Lost'[u] = Lost[u]
    BY <1>3, <1>6 DEF Lost
  <2> QED
    BY <2>4, <2>5
<1>11. LostCounted'
  <2> HIDE DEF lost
  <2> QED
    BY <1>9, <1>10, LostFollows
<1> QED
  BY <1>7, <1>8, <1>11

(* The task of the symbol takes the oldest one. *)
LEMMA TickTaken ==
  ASSUME TicksTyped, TicksInOrder, LostCounted, NEW s \in QueuedSymbols, TakeTick(s)
  PROVE  TicksTyped' /\ TicksInOrder' /\ LostCounted'
<1> DEFINE q == tick_queues[s]
           n == accepted[s]
           head == Head(q)
           rest == Tail(q)
<1>1. /\ q \in Seq(Nat) /\ n \in Nat /\ NewestTicks(q, n) /\ Len(q) <= TickMax
      /\ last_taken[s] + Len(q) <= n /\ last_taken[s] \in Nat /\ Len(q) \in Nat
      /\ taken[s] \in Nat /\ taken[s] <= last_taken[s] /\ TickMax \in Nat
  BY InboundAssumption, LenProperties DEF InboundAssumption, TicksTyped, TicksInOrder
<1>2. /\ q # <<>>
      /\ tick_queues' = [tick_queues EXCEPT ![s] = rest]
      /\ last_taken' = [last_taken EXCEPT ![s] = head]
      /\ taken' = [taken EXCEPT ![s] = taken[s] + 1]
      /\ UNCHANGED <<accepted, overflows>>
  BY DEF TakeTick, Increment, metrics
<1> HIDE DEF q, n
<1>3. Len(q) <= n
  BY <1>1
<1>4. /\ rest \in Seq(Nat) /\ Len(rest) = Len(q) - 1 /\ NewestTicks(rest, n)
      /\ head = n - Len(rest) /\ head \in Nat /\ Len(q) # 0
  BY <1>1, <1>2, <1>3, TailNewest
<1> HIDE DEF head, rest
<1>5. /\ head + Len(rest) <= n /\ Len(rest) <= TickMax
      /\ taken[s] + 1 <= head /\ taken[s] + 1 \in Nat
  <2>1. \A a, b, c, d, m \in Nat : a + b <= c /\ b # 0 /\ b <= m /\ d <= a =>
          c - (b - 1) + (b - 1) <= c /\ b - 1 <= m /\ d + 1 <= c - (b - 1) /\ d + 1 \in Nat
    OBVIOUS
  <2> DEFINE a == last_taken[s]
             b == Len(q)
             d == taken[s]
  <2>2. /\ a \in Nat /\ b \in Nat /\ n \in Nat /\ d \in Nat /\ TickMax \in Nat
        /\ a + b <= n /\ b # 0 /\ b <= TickMax /\ d <= a
    BY <1>1, <1>4
  <2>3. Len(rest) = b - 1 /\ head = n - (b - 1)
    BY <1>4
  <2> HIDE DEF a, b, d
  <2>4. n - (b - 1) + (b - 1) <= n /\ b - 1 <= TickMax /\ d + 1 <= n - (b - 1) /\ d + 1 \in Nat
    BY <2>1, <2>2
  <2> QED
    BY <2>3, <2>4, Zenon DEF d
<1>6. \A u \in QueuedSymbols :
        /\ tick_queues'[u] = IF u = s THEN rest ELSE tick_queues[u]
        /\ last_taken'[u] = IF u = s THEN head ELSE last_taken[u]
        /\ taken'[u] = IF u = s THEN taken[s] + 1 ELSE taken[u]
  BY <1>2 DEF TicksTyped
<1>7. TicksTyped'
  BY <1>2, <1>4, <1>5 DEF TicksTyped
<1>8. TicksInOrder'
  BY <1>2, <1>4, <1>5, <1>6 DEF TicksInOrder, n
<1>9. Lost' = Lost
  <2>1. n - (taken[s] + 1) - Len(rest) = n - taken[s] - Len(q)
    <3> DEFINE t == taken[s]
               l == Len(q)
    <3>1. n - (t + 1) - (l - 1) = n - t - l
      <4>1. n \in Nat /\ t \in Nat /\ l \in Nat
        BY <1>1
      <4> HIDE DEF t, l
      <4> QED
        BY <4>1
    <3> QED
      BY <1>4, <3>1
  <2>2. \A u \in QueuedSymbols : accepted'[u] - taken'[u] - Len(tick_queues'[u])
                               = accepted[u] - taken[u] - Len(tick_queues[u])
    BY <1>2, <1>6, <2>1 DEF n, q
  <2> QED
    BY <2>2 DEF Lost
<1>10. LostCounted'
  BY <1>2, <1>9 DEF LostCounted
<1> QED
  BY <1>7, <1>8, <1>10

(* A message of the right type has its fields within their ranges.         *)
LEMMA NeverUnsound == \A line \in Line : ~Unsound(line)
BY PassesSound DEF Unsound

(* What is read goes into exactly one counter and at most one queue.       *)
LEMMA ReadStep ==
  ASSUME InboundInv, NEW line \in Lines, NEW s \in QueuedSymbols, ReadLine(line, s)
  PROVE  InboundInv'
<1> DEFINE v == parse_inbound(line)
           p == IF line.version = "V1" THEN 1 ELSE 0
           fillTypes == {"FILL", "REJECT", "CLOSED"}
<1>1. line \in Line
  BY LinesAreLines
<1>2. v \in Verdicts /\ (v \in Types \union {"unknown"} => line.version = "V1")
  BY <1>1, VerdictOf
<1>3. /\ total_lines_read' = total_lines_read + 1 /\ total_parsed' = total_parsed + p
      /\ verdicts' = Increment(verdicts, v) /\ UNCHANGED <<responses, fills_taken, router>>
      /\ IF v \in Types THEN _dispatch(v, s)
         ELSE UNCHANGED <<dispatched, overflows, tick_queues, fill_queue, accepted>>
  BY DEF ReadLine
<1>4. ~unsound'
  BY <1>1, NeverUnsound DEF ReadLine, InboundInv
<1>5. p \in {0, 1} /\ (v \in Types \union {"unknown"} => p = 1)
  BY <1>2
<1> HIDE DEF v, p
<1>6. /\ CountersTyped /\ TicksTyped /\ TicksInOrder /\ LostCounted /\ ReadsAccounted /\ Len(fill_queue) <= FillMax
      /\ FillMax \in Nat \ {0} /\ Len(fill_queue) \in Nat /\ fill_queue \in Seq(Types)
      /\ overflows \in [{"tick", "fill"} -> Nat] /\ dispatched \in [Types -> Nat]
  BY InboundAssumption, LenProperties DEF InboundAssumption, InboundInv, CountersTyped
<1>7. verdicts' \in [Verdicts -> Nat] /\ total_lines_read' \in Nat /\ total_parsed' \in Nat
      /\ responses' \in [Verdicts -> Nat]
  <2>1. verdicts \in [Verdicts -> Nat] /\ total_lines_read \in Nat /\ total_parsed \in Nat
    BY <1>6 DEF CountersTyped
  <2>2. Increment(verdicts, v) \in [Verdicts -> Nat]
    BY <1>2, <2>1, Incremented
  <2>3. p \in Nat
    BY <1>5
  <2>4. total_lines_read' \in Nat /\ total_parsed' \in Nat
    BY <1>3, <2>1, <2>3
  <2>5. responses' \in [Verdicts -> Nat]
    BY <1>3, <1>6 DEF CountersTyped
  <2> QED
    BY <1>3, <2>2, <2>4, <2>5
<1>7a. ASSUME NEW k \in {"tick", "fill"}
       PROVE  /\ Increment(overflows, k) \in [{"tick", "fill"} -> Nat]
              /\ Increment(overflows, k)["fill"] = IF k = "fill" THEN overflows["fill"] + 1
                                                 ELSE overflows["fill"]
  BY <1>6 DEF Increment
<1>8. CASE v \notin Types
  <2>1. UNCHANGED <<dispatched, overflows, tick_queues, fill_queue, accepted>>
    BY <1>3, <1>8
  <2>2. v \notin fillTypes
    BY <1>8 DEF Types
  <2>3. ReadsAccounted'
    BY <1>2, <1>3, <1>5, <1>8, <2>1, <2>2, ReadAccounted
  <2>4. CountersTyped'
    BY <1>3, <1>6, <1>7, <2>1 DEF CountersTyped
  <2>5. TicksTyped' /\ TicksInOrder' /\ LostCounted'
    BY <1>3, <1>6, <2>1 DEF TicksTyped, TicksInOrder, LostCounted, Lost, router
  <2> QED
    BY <1>4, <1>6, <2>1, <2>3, <2>4, <2>5 DEF InboundInv
<1>9. CASE v = "TICK" /\ DispatchTick(s)
  <2>1. /\ dispatched' = Increment(dispatched, v) /\ UNCHANGED fill_queue
        /\ overflows' = overflows \/ overflows' = Increment(overflows, "tick")
        /\ v \in Types /\ v \notin fillTypes
    BY <1>9 DEF DispatchTick, Types
  <2>2. overflows' \in [{"tick", "fill"} -> Nat] /\ overflows'["fill"] = overflows["fill"]
    BY <1>6, <1>7a, <2>1
  <2>3. dispatched' \in [Types -> Nat]
    BY <1>6, <2>1, Incremented
  <2>4. ReadsAccounted'
    BY <1>2, <1>3, <1>5, <2>1, <2>2, ReadAccounted
  <2>5. CountersTyped'
    BY <1>3, <1>6, <1>7, <2>1, <2>2, <2>3 DEF CountersTyped
  <2>6. TicksTyped' /\ TicksInOrder' /\ LostCounted'
    BY <1>3, <1>6, <1>9, TickPut
  <2> QED
    BY <1>4, <1>6, <2>1, <2>4, <2>5, <2>6 DEF InboundInv
<1>10. CASE v \in fillTypes /\ DispatchFill(v)
  <2>1. v \in Types /\ UNCHANGED <<tick_queues, accepted>>
    BY <1>10 DEF DispatchFill, Types
  <2>2. TicksTyped' /\ TicksInOrder'
    BY <1>3, <1>6, <2>1 DEF TicksTyped, TicksInOrder, router
  <2>3. CASE Len(fill_queue) < FillMax
    <3>1. /\ fill_queue' = Append(fill_queue, v) /\ dispatched' = Increment(dispatched, v)
          /\ UNCHANGED overflows
      BY <1>10, <2>3 DEF DispatchFill
    <3>2. fill_queue' \in Seq(Types) /\ Len(fill_queue') = Len(fill_queue) + 1
      BY <1>6, <2>1, <3>1, AppendProperties
    <3>3. dispatched' \in [Types -> Nat]
      BY <1>6, <2>1, <3>1, Incremented
    <3>4. ReadsAccounted'
      BY <1>2, <1>3, <1>5, <1>10, <2>1, <3>1, <3>2, ReadAccounted
    <3>5. CountersTyped'
      BY <1>3, <1>6, <1>7, <3>1, <3>2, <3>3 DEF CountersTyped
    <3>6. Len(fill_queue') <= FillMax
      BY <1>6, <2>3, <3>2
    <3>7. LostCounted'
      BY <1>3, <1>6, <2>1, <3>1 DEF LostCounted, Lost, router
    <3> QED
      BY <1>4, <2>2, <3>4, <3>5, <3>6, <3>7 DEF InboundInv
  <2>4. CASE ~(Len(fill_queue) < FillMax)
    <3>1. overflows' = Increment(overflows, "fill") /\ UNCHANGED <<fill_queue, dispatched>>
      BY <1>10, <2>4 DEF DispatchFill
    <3>2. overflows' \in [{"tick", "fill"} -> Nat] /\ overflows'["fill"] = overflows["fill"] + 1
      BY <1>7a, <3>1
    <3>3. ReadsAccounted'
      BY <1>2, <1>3, <1>5, <1>10, <3>1, <3>2, ReadAccounted
    <3>4. CountersTyped'
      BY <1>3, <1>6, <1>7, <3>1, <3>2 DEF CountersTyped
    <3>5. LostCounted'
      <4>1. overflows'["tick"] = overflows["tick"] /\ Lost' = Lost
        BY <1>3, <1>6, <2>1, <3>1 DEF Lost, router, Increment
      <4> QED
        BY <1>6, <4>1 DEF LostCounted
    <3> QED
      BY <1>4, <1>6, <2>2, <3>1, <3>3, <3>4, <3>5 DEF InboundInv
  <2> QED
    BY <2>3, <2>4
<1>11. CASE /\ v = "HEARTBEAT" /\ dispatched' = Increment(dispatched, v)
            /\ UNCHANGED <<overflows, tick_queues, fill_queue, accepted>>
  <2>1. v \in Types /\ v \notin fillTypes
    BY <1>11 DEF Types
  <2>2. dispatched' \in [Types -> Nat]
    BY <1>6, <1>11, <2>1, Incremented
  <2>3. ReadsAccounted'
    BY <1>2, <1>3, <1>5, <1>11, <2>1, ReadAccounted
  <2>4. CountersTyped'
    BY <1>3, <1>6, <1>7, <1>11, <2>2 DEF CountersTyped
  <2>5. TicksTyped' /\ TicksInOrder' /\ LostCounted'
    BY <1>3, <1>6, <1>11 DEF TicksTyped, TicksInOrder, LostCounted, Lost, router
  <2> QED
    BY <1>4, <1>6, <1>11, <2>3, <2>4, <2>5 DEF InboundInv
<1> QED
  BY <1>3, <1>8, <1>9, <1>10, <1>11 DEF _dispatch

(* What is parsed of the commands pipe goes into the counters of the parser. *)
LEMMA ResponseStep ==
  ASSUME InboundInv, NEW line \in Lines, ParseResponse(line)
  PROVE  InboundInv'
<1> DEFINE v == parse_inbound(line)
<1>1. line \in Line
  BY LinesAreLines
<1>2. v \in Verdicts
  BY <1>1, VerdictOf
<1>3. /\ verdicts' = Increment(verdicts, v) /\ total_parsed' = total_parsed + 1
      /\ responses' = Increment(responses, v) /\ unsound' = (unsound \/ Unsound(line))
      /\ UNCHANGED <<total_lines_read, dispatched, overflows, tick_queues, fill_queue,
                     fills_taken, accepted, last_taken, taken>>
  BY DEF ParseResponse, router
<1> HIDE DEF v
<1>4. ~unsound'
  BY <1>1, <1>3, NeverUnsound DEF InboundInv
<1>5. ReadsAccounted'
  BY <1>2, <1>3, ResponseAccounted
<1>6. CountersTyped'
  <2>1. CountersTyped
    BY DEF InboundInv
  <2>2. /\ Increment(verdicts, v) \in [Verdicts -> Nat]
        /\ Increment(responses, v) \in [Verdicts -> Nat]
    BY <1>2, <2>1, Incremented DEF CountersTyped
  <2> QED
    BY <1>3, <2>1, <2>2 DEF CountersTyped
<1>7. TicksTyped' /\ TicksInOrder' /\ LostCounted' /\ Len(fill_queue') <= FillMax
  BY <1>3 DEF InboundInv, TicksTyped, TicksInOrder, LostCounted, Lost
<1> QED
  BY <1>4, <1>5, <1>6, <1>7 DEF InboundInv

LEMMA InboundBegins == InboundInit => InboundInv
<1> SUFFICES ASSUME InboundInit PROVE InboundInv
  OBVIOUS
<1>1. CountersTyped /\ TicksTyped
  BY EmptySeq DEF InboundInit, CountersTyped, TicksTyped
<1>2. Len(fill_queue) = 0 /\ FillMax \in Nat /\ TickMax \in Nat
  BY InboundAssumption, EmptySeq DEF InboundAssumption, InboundInit
<1>3. \A s \in QueuedSymbols :
        Len(tick_queues[s]) = 0 /\ accepted[s] = 0 /\ last_taken[s] = 0 /\ taken[s] = 0
  BY EmptySeq DEF InboundInit
<1>4. TicksInOrder
  BY <1>2, <1>3 DEF TicksInOrder, NewestTicks
<1>5a. LostCounted
  <2>1. \A s \in QueuedSymbols : Lost[s] = 0
    BY <1>3 DEF Lost
  <2>2. IsFiniteSet(QueuedSymbols)
    BY InboundAssumption, FS_Union DEF InboundAssumption, QueuedSymbols
  <2>3. SumFunctionOnSet(Lost, QueuedSymbols) = 0
    BY <2>1, <2>2, SumOfZeros
  <2> QED
    BY <2>3 DEF LostCounted, InboundInit
<1>5. ReadsAccounted
  <2>1. /\ \A x \in Verdicts : verdicts[x] = 0 /\ responses[x] = 0
        /\ \A x \in Types : dispatched[x] = 0
        /\ total_lines_read = 0 /\ total_parsed = 0 /\ fills_taken = 0 /\ overflows["fill"] = 0
    BY DEF InboundInit
  <2>2. ASSUME NEW f \in {verdicts, responses}
        PROVE  Parsed(f) = 0 /\ Fills(f) = 0 /\ f["unknown"] = 0 /\ Outcomes(f) = 0
    <3>1. \A x \in Verdicts : f[x] = 0
      BY <2>1
    <3> QED
      BY <3>1 DEF Parsed, Fills, Unusable, Outcomes, Verdicts, Types, Errors
  <2>3. /\ Fills(dispatched) = 0 /\ dispatched["TICK"] = 0 /\ dispatched["HEARTBEAT"] = 0
        /\ verdicts["TICK"] = 0 /\ verdicts["HEARTBEAT"] = 0
        /\ responses["TICK"] = 0 /\ responses["HEARTBEAT"] = 0
    BY <2>1 DEF Fills, Verdicts, Types
  <2> QED
    BY <1>2, <2>1, <2>2, <2>3 DEF ReadsAccounted
<1> QED
  BY <1>1, <1>2, <1>4, <1>5, <1>5a DEF InboundInv, InboundInit

(* Every step of the link keeps the invariant.                             *)
LEMMA InboundStep == InboundInv /\ [InboundNext]_inbound => InboundInv'
<1> SUFFICES ASSUME InboundInv, [InboundNext]_inbound PROVE InboundInv'
  OBVIOUS
<1>1. ASSUME UNCHANGED <<metrics, tick_queues, fill_queue, fills_taken, accepted, last_taken, taken,
                         unsound>>
      PROVE  InboundInv'
  BY <1>1 DEF metrics, InboundInv, CountersTyped, TicksTyped, TicksInOrder, LostCounted, Lost,
              ReadsAccounted
<1>2. CASE ReadFails \/ UNCHANGED inbound \/ \E s \in Instruments : CallbackEnds(s)
  BY <1>1, <1>2 DEF ReadFails, CallbackEnds, inbound, router
<1>3. ASSUME NEW s \in Instruments, TakeTick(s) PROVE InboundInv'
  <2>1. s \in QueuedSymbols /\ UNCHANGED <<metrics, fill_queue, fills_taken, unsound>>
    BY <1>3 DEF TakeTick, QueuedSymbols
  <2>2. TicksTyped' /\ TicksInOrder' /\ LostCounted'
    BY <1>3, <2>1, TickTaken DEF InboundInv
  <2> QED
    BY <2>1, <2>2 DEF metrics, InboundInv, CountersTyped, ReadsAccounted
<1>4. CASE TakeFill
  <2>1. /\ fill_queue # <<>> /\ fill_queue' = Tail(fill_queue) /\ fills_taken' = fills_taken + 1
        /\ UNCHANGED <<metrics, tick_queues, accepted, router, unsound>>
    BY <1>4 DEF TakeFill
  <2>2. /\ fill_queue \in Seq(Types) /\ fills_taken \in Nat /\ Len(fill_queue) \in Nat
        /\ FillMax \in Nat /\ Len(fill_queue) <= FillMax
    BY InboundAssumption, LenProperties DEF InboundAssumption, InboundInv, CountersTyped
  <2>3. fill_queue' \in Seq(Types) /\ Len(fill_queue') = Len(fill_queue) - 1
    BY <2>1, <2>2, HeadTailProperties
  <2>4. /\ Len(fill_queue') + fills_taken' = Len(fill_queue) + fills_taken
        /\ fills_taken' \in Nat /\ Len(fill_queue') <= FillMax
    BY <2>1, <2>2, <2>3
  <2>5. TicksTyped' /\ TicksInOrder' /\ LostCounted' /\ CountersTyped'
    BY <2>1, <2>3, <2>4
    DEF InboundInv, TicksTyped, TicksInOrder, LostCounted, Lost, CountersTyped, router, metrics
  <2>6. ReadsAccounted'
    BY <2>1, <2>4 DEF InboundInv, ReadsAccounted, metrics
  <2> QED
    BY <2>1, <2>4, <2>5, <2>6 DEF InboundInv
<1> QED
  BY <1>2, <1>3, <1>4, ReadStep, ResponseStep DEF InboundNext, SymbolTask

(* The metrics, the queues and what was delivered are as the invariant    *)
(* says for any instruments, strangers and queue sizes                     *)
(* (bridge/protocol.py, bridge/reader.py, data/feed_router.py).            *)
THEOREM InboundSafe == InboundSpec => []InboundInv
BY InboundBegins, InboundStep, PTL DEF InboundSpec

(* A queue holds the newest ticks of its symbol without a gap, newer than  *)
(* any its task has taken (reader.py, "Drop oldest tick").                 *)
THEOREM NewestAlwaysKept == InboundSpec => []NewestKept
<1>1. InboundInv => NewestKept
  <2> SUFFICES ASSUME InboundInv, NEW s \in QueuedSymbols
               PROVE  /\ Len(tick_queues[s]) <= TickMax
                      /\ tick_queues[s] = [i \in 1..Len(tick_queues[s]) |->
                                             accepted[s] - Len(tick_queues[s]) + i]
                      /\ last_taken[s] <= accepted[s] - Len(tick_queues[s])
    BY DEF NewestKept
  <2> DEFINE q == tick_queues[s]
  <2>1. /\ q \in Seq(Nat) /\ Len(q) \in Nat /\ DOMAIN q = 1..Len(q) /\ q \in [1..Len(q) -> Nat]
        /\ accepted[s] \in Nat /\ last_taken[s] \in Nat
        /\ NewestTicks(q, accepted[s]) /\ Len(q) <= TickMax /\ last_taken[s] + Len(q) <= accepted[s]
    BY LenProperties DEF InboundInv, TicksTyped, TicksInOrder
  <2> HIDE DEF q
  <2>2. q = [i \in 1..Len(q) |-> accepted[s] - Len(q) + i]
    BY <2>1 DEF NewestTicks
  <2>3. last_taken[s] <= accepted[s] - Len(q)
    BY <2>1
  <2> QED
    BY <2>1, <2>2, <2>3 DEF q
<1> QED
  BY <1>1, InboundSafe, PTL

(* No damaged, cut or joined read delivers a tick, a fill or a close with   *)
(* a field that its whitelist or range forbids (protocol.py).               *)
THEOREM AlwaysSoundDelivered == InboundSpec => []SoundDelivered
<1>1. InboundInv => SoundDelivered
  BY DEF InboundInv, SoundDelivered
<1> QED
  BY <1>1, InboundSafe, PTL

(* Every read has one outcome, every parsed message is dispatched or was    *)
(* lost by a full fill queue, which counted it, the overflows of the tick   *)
(* queues are the ticks they lost, over all symbols, and the fill queue     *)
(* stays within its size (ParseMetrics, ReaderMetrics).                     *)
THEOREM AlwaysAccounted == InboundSpec => [](Accounted /\ Len(fill_queue) <= FillMax)
<1>1. SumFunction(Lost) = SumFunctionOnSet(Lost, QueuedSymbols)
  BY DEF SumFunction, Lost
<1>2. InboundInv => Accounted /\ Len(fill_queue) <= FillMax
  BY <1>1 DEF InboundInv, LostCounted, Accounted
<1> QED
  BY <1>2, InboundSafe, PTL


-----------------------------------------------------------------------------
(* The builder of an instrument                                            *)

(* The greatest and the least of the values a function has on a finite set. *)
LEMMA GreatestValue ==
  ASSUME NEW I, IsFiniteSet(I), I # {}, NEW f, \A i \in I : f[i] \in Int
  PROVE  \E m \in I : \A i \in I : f[i] <= f[m]
<1> DEFINE G == {T \in SUBSET I : T = {} \/ \E m \in T : \A i \in T : f[i] <= f[m]}
<1>1. ASSUME NEW T \in G, NEW x \in I \ T PROVE T \union {x} \in G
  <2>1. CASE T = {}
    <3>1. \A i \in T \union {x} : f[i] <= f[x]
      BY <2>1
    <3> QED
      BY <3>1
  <2>2. CASE T # {}
    <3>1. PICK m \in T : \A i \in T : f[i] <= f[m]
      BY <2>2
    <3>2. CASE f[x] <= f[m]
      BY <3>1, <3>2
    <3>3. CASE f[m] <= f[x]
      <4>1. \A i \in T \union {x} : f[i] <= f[x]
        BY <3>1, <3>3
      <4> QED
        BY <4>1
    <3> QED
      BY <3>2, <3>3
  <2> QED
    BY <2>1, <2>2
<1>2. I \in G
  <2>1. {} \in G /\ G \in SUBSET SUBSET I
    OBVIOUS
  <2> HIDE DEF G
  <2> QED
    BY <1>1, <2>1, SetByElements
<1> QED
  BY <1>2

(* Max and Min are the elements they are named for.                        *)
LEMMA MaxOf ==
  ASSUME NEW S \in SUBSET Int, NEW m \in S, \A x \in S : x <= m
  PROVE  Max(S) = m
<1>1. \A y \in S : m >= y
  OBVIOUS
<1>2. \A z \in S : (\A y \in S : z >= y) => z = m
  OBVIOUS
<1> QED
  BY <1>1, <1>2 DEF Max

LEMMA MinOf ==
  ASSUME NEW S \in SUBSET Int, NEW m \in S, \A x \in S : m <= x
  PROVE  Min(S) = m
<1>1. \A z \in S : (\A y \in S : z <= y) => z = m
  OBVIOUS
<1> QED
  BY <1>1 DEF Min

LEMMA MaxOfTwo ==
  ASSUME NEW a \in Int, NEW b \in Int
  PROVE  Max({a, b}) = IF a <= b THEN b ELSE a
BY MaxOf

LEMMA MinOfTwo ==
  ASSUME NEW a \in Int, NEW b \in Int
  PROVE  Min({a, b}) = IF a <= b THEN a ELSE b
BY MinOf

(* Max and Min of the image of a finite set. *)
LEMMA ImageMax ==
  ASSUME NEW I, IsFiniteSet(I), I # {}, NEW f, \A i \in I : f[i] \in Int
  PROVE  LET V == {f[i] : i \in I}
         IN  Max(V) \in V /\ Max(V) \in Int /\ \A j \in I : f[j] <= Max(V)
<1>1. PICK m \in I : \A i \in I : f[i] <= f[m]
  BY GreatestValue
<1>2. Max({f[i] : i \in I}) = f[m]
  BY <1>1, MaxOf
<1> QED
  BY <1>1, <1>2

LEMMA ImageMin ==
  ASSUME NEW I, IsFiniteSet(I), I # {}, NEW f, \A i \in I : f[i] \in Int
  PROVE  LET V == {f[i] : i \in I}
         IN  Min(V) \in V /\ Min(V) \in Int /\ \A j \in I : Min(V) <= f[j]
<1> DEFINE g == [i \in I |-> -f[i]]
<1>1. PICK m \in I : \A i \in I : g[i] <= g[m]
  <2>1. \A i \in I : g[i] \in Int
    OBVIOUS
  <2> HIDE DEF g
  <2> QED
    BY <2>1, GreatestValue
<1>2. \A i \in I : f[m] <= f[i]
  <2> SUFFICES ASSUME NEW i \in I PROVE f[m] <= f[i]
    OBVIOUS
  <2>1. -f[i] <= -f[m] /\ f[i] \in Int /\ f[m] \in Int
    BY <1>1
  <2> QED
    BY <2>1
<1>3. Min({f[i] : i \in I}) = f[m]
  <2> DEFINE V == {f[i] : i \in I}
  <2>1. V \in SUBSET Int /\ f[m] \in V /\ \A x \in V : f[m] <= x
    BY <1>2
  <2> HIDE DEF V
  <2>2. Min(V) = f[m]
    BY <2>1, MinOf
  <2> QED
    BY <2>2 DEF V
<1> QED
  BY <1>2, <1>3

(* A finite set of integers has its ends.                                  *)
LEMMA EndsOf ==
  ASSUME NEW S \in SUBSET Int, IsFiniteSet(S), S # {}
  PROVE  /\ Min(S) \in S /\ \A x \in S : Min(S) <= x
         /\ Max(S) \in S /\ \A x \in S : x <= Max(S)
<1> DEFINE f == [x \in S |-> x]
           V == {f[x] : x \in S}
<1>1. V = S /\ \A x \in S : f[x] = x /\ f[x] \in Int
  OBVIOUS
<1> HIDE DEF f
<1>2. \A x \in S : f[x] \in Int
  BY <1>1
<1>3. Max(V) \in V /\ \A x \in S : f[x] <= Max(V)
  BY <1>2, ImageMax
<1>4. Min(V) \in V /\ \A x \in S : Min(V) <= f[x]
  BY <1>2, ImageMin
<1> QED
  BY <1>1, <1>3, <1>4

(* One value more.                                                         *)
LEMMA MaxMore ==
  ASSUME NEW S \in SUBSET Int, Max(S) \in S, \A x \in S : x <= Max(S), NEW y \in Int
  PROVE  Max(S \union {y}) = Max({Max(S), y})
<1> DEFINE m == Max(S)
<1>0. m \in S /\ m \in Int /\ \A x \in S : x \in Int /\ x <= m
  OBVIOUS
<1> HIDE DEF m
<1>1. CASE m <= y
  <2>1. Max(S \union {y}) = y
    <3>1. \A x \in S \union {y} : x <= y
      BY <1>0, <1>1
    <3> QED
      BY <1>0, <3>1, MaxOf
  <2>2. Max({m, y}) = y
    BY <1>0, <1>1, MaxOfTwo
  <2> QED
    BY <2>1, <2>2 DEF m
<1>2. CASE ~(m <= y)
  <2>1. Max(S \union {y}) = m
    <3>1. \A x \in S \union {y} : x <= m
      BY <1>0, <1>2
    <3> QED
      BY <1>0, <3>1, MaxOf
  <2>2. Max({m, y}) = m
    BY <1>0, <1>2, MaxOfTwo
  <2> QED
    BY <2>1, <2>2 DEF m
<1> QED
  BY <1>1, <1>2 DEF m

(* One more element lowers Min to itself or leaves it.                     *)
LEMMA MinMore ==
  ASSUME NEW S \in SUBSET Int, Min(S) \in S, \A x \in S : Min(S) <= x, NEW y \in Int
  PROVE  Min(S \union {y}) = Min({Min(S), y})
<1> DEFINE m == Min(S)
<1>0. m \in S /\ m \in Int /\ \A x \in S : x \in Int /\ m <= x
  OBVIOUS
<1> HIDE DEF m
<1>1. CASE m <= y
  <2>1. Min(S \union {y}) = m
    <3>1. \A x \in S \union {y} : m <= x
      BY <1>0, <1>1
    <3> QED
      BY <1>0, <3>1, MinOf
  <2>2. Min({m, y}) = m
    BY <1>0, <1>1, MinOfTwo
  <2> QED
    BY <2>1, <2>2 DEF m
<1>2. CASE ~(m <= y)
  <2>1. Min(S \union {y}) = y
    <3>1. \A x \in S \union {y} : y <= x
      BY <1>0, <1>2
    <3> QED
      BY <1>0, <3>1, MinOf
  <2>2. Min({m, y}) = y
    BY <1>0, <1>2, MinOfTwo
  <2> QED
    BY <2>1, <2>2 DEF m
<1> QED
  BY <1>1, <1>2 DEF m

(* The newest of a sequence. *)
LEMMA NewestOf ==
  ASSUME NEW S, NEW q \in Seq(S), NEW n \in Nat \ {0}
  PROVE  LET r == Newest(q, n)
         IN  /\ r \in Seq(S)
             /\ Len(r) \in Nat /\ Len(r) = IF Len(q) > n THEN n ELSE Len(q)
             /\ Len(q) \in Nat
             /\ \A i \in 1..Len(r) : r[i] = q[i + (Len(q) - Len(r))] /\ i + (Len(q) - Len(r)) \in 1..Len(q)
<1> DEFINE l == Len(q)
           from == IF l > n THEN l - n + 1 ELSE 1
           r == SubSeq(q, from, l)
<1>1. l \in Nat /\ \A i \in 1..l : q[i] \in S
  BY LenProperties, ElementOfSeq
<1> HIDE DEF l
<1>2. from \in Nat \ {0} /\ from <= l + 1 /\ (l > n => l - from + 1 = n) /\ (~(l > n) => from = 1)
  BY <1>1
<1>3. \A i \in from..l : i \in 1..l
  BY <1>1, <1>2
<1> HIDE DEF from
<1>4. \A i \in from..l : q[i] \in S
  BY <1>1, <1>3
<1>5. /\ r \in Seq(S)
      /\ Len(r) = IF from <= l THEN l - from + 1 ELSE 0
      /\ \A i \in 1..(l - from + 1) : r[i] = q[from + i - 1]
  BY <1>1, <1>2, <1>4, SubSeqProperties
<1>6. Len(r) = l - from + 1
  BY <1>1, <1>2, <1>5
<1>7. Len(r) \in Nat /\ Len(r) = IF l > n THEN n ELSE l
  BY <1>1, <1>2, <1>6
<1> HIDE DEF r
<1>8. \A i \in 1..Len(r) : r[i] = q[i + (l - Len(r))] /\ i + (l - Len(r)) \in 1..l
  <2> SUFFICES ASSUME NEW i \in 1..Len(r)
               PROVE  r[i] = q[i + (l - Len(r))] /\ i + (l - Len(r)) \in 1..l
    OBVIOUS
  <2>1. i \in 1..(l - from + 1)
    BY <1>6
  <2>2. from + i - 1 = i + (l - Len(r)) /\ i + (l - Len(r)) \in 1..l
    BY <1>1, <1>2, <1>6, <2>1
  <2> QED
    BY <1>5, <2>1, <2>2
<1>9. r = Newest(q, n)
  BY DEF r, from, l, Newest
<1> QED
  BY <1>1, <1>5, <1>7, <1>8, <1>9 DEF l

(* The bars of the builder.                                                *)
Bar == [open_ts : Nat, volume : Nat, open : Nat, high : Nat, low : Nat, close : Nat]

(* The bars of a timeframe: those of the newest periods in starts, in      *)
(* order, none missing among them, each as ref has it.                     *)
Book(bars, starts, ref, size) ==
  /\ bars \in Seq(Bar)
  /\ \A i, j \in 1..Len(bars) : i < j => bars[i].open_ts < bars[j].open_ts
  /\ \A i \in 1..Len(bars) : bars[i].open_ts \in starts /\ bars[i] = ref[bars[i].open_ts]
  /\ \A t \in starts : \/ \E i \in 1..Len(bars) : bars[i].open_ts = t
                       \/ \A i \in 1..Len(bars) : t < bars[i].open_ts
  /\ Len(bars) = IF Cardinality(starts) <= size THEN Cardinality(starts) ELSE size + 1

(* The newest bar completes and the next one opens.                        *)
LEMMA BookAdd ==
  ASSUME NEW bars, NEW starts \in SUBSET Nat, IsFiniteSet(starts), NEW ref, NEW size \in Nat \ {0},
         Book(bars, starts, ref, size), NEW bar \in Bar, NEW next,
         \A t \in starts : t < bar.open_ts /\ next[t] = ref[t], next[bar.open_ts] = bar
  PROVE  Book(Append(Newest(bars, size), bar), starts \union {bar.open_ts}, next, size)
<1> DEFINE r == Newest(bars, size)
           l == Len(bars)
           n == Len(r)
           new == Append(r, bar)
           ts == bar.open_ts
           more == starts \union {ts}
<1>1. bars \in Seq(Bar) /\ l \in Nat
  BY LenProperties DEF Book
<1>2. /\ r \in Seq(Bar) /\ n \in Nat /\ n = IF l > size THEN size ELSE l
      /\ \A i \in 1..n : r[i] = bars[i + (l - n)] /\ i + (l - n) \in 1..l
  BY <1>1, NewestOf
<1> HIDE DEF r
<1>3. /\ new \in Seq(Bar) /\ Len(new) = n + 1 /\ new[n + 1] = bar /\ \A i \in 1..n : new[i] = r[i]
  BY <1>2, AppendProperties
<1>4. /\ \A i, j \in 1..l : i < j => bars[i].open_ts < bars[j].open_ts
      /\ \A i \in 1..l : bars[i].open_ts \in starts /\ bars[i] = ref[bars[i].open_ts]
      /\ \A t \in starts : \/ \E i \in 1..l : bars[i].open_ts = t
                           \/ \A i \in 1..l : t < bars[i].open_ts
      /\ l = IF Cardinality(starts) <= size THEN Cardinality(starts) ELSE size + 1
  BY DEF Book
<1> HIDE DEF l, n, new
<1>5. n <= l
  BY <1>1, <1>2
<1>6. \A i \in 1..n : new[i] = bars[i + (l - n)] /\ i + (l - n) \in 1..l
  BY <1>2, <1>3
<1>7. \A i \in 1..n + 1 : i \in 1..n \/ i = n + 1
  BY <1>2
<1>8. ts \in Nat /\ ts \notin starts
  BY DEF Bar
<1> HIDE DEF ts
<1>9. ASSUME NEW i \in 1..n + 1
      PROVE  new[i].open_ts \in more /\ new[i] = next[new[i].open_ts]
  <2>1. CASE i \in 1..n
    <3> DEFINE j == i + (l - n)
    <3>1. new[i] = bars[j] /\ j \in 1..l
      BY <1>6, <2>1
    <3>2. bars[j].open_ts \in starts /\ bars[j] = ref[bars[j].open_ts]
      BY <1>4, <3>1
    <3> HIDE DEF j
    <3> QED
      BY <3>1, <3>2
  <2>2. CASE i = n + 1
    BY <1>3, <2>2 DEF ts
  <2> QED
    BY <1>7, <2>1, <2>2
<1>10. ASSUME NEW i \in 1..n + 1, NEW j \in 1..n + 1, i < j
       PROVE  new[i].open_ts < new[j].open_ts
  <2>1. i \in 1..n
    BY <1>2, <1>10
  <2> DEFINE a == i + (l - n)
             b == j + (l - n)
  <2>2. new[i] = bars[a] /\ a \in 1..l
    BY <1>6, <2>1
  <2>3. CASE j \in 1..n
    <3>1. new[j] = bars[b] /\ b \in 1..l
      BY <1>6, <2>3
    <3>2. a < b
      BY <1>1, <1>2, <1>10
    <3> HIDE DEF a, b
    <3> QED
      BY <1>4, <2>2, <3>1, <3>2
  <2>4. CASE j = n + 1
    <3> HIDE DEF a
    <3>1. bars[a].open_ts \in starts
      BY <1>4, <2>2
    <3> QED
      BY <1>3, <2>2, <2>4, <3>1
  <2> QED
    BY <1>7, <2>3, <2>4
<1>11. ASSUME NEW t \in more
       PROVE  \/ \E i \in 1..n + 1 : new[i].open_ts = t
              \/ \A i \in 1..n + 1 : t < new[i].open_ts
  <2>1. CASE t = ts
    <3>1. n + 1 \in 1..n + 1
      BY <1>2
    <3> QED
      BY <1>3, <2>1, <3>1 DEF ts
  <2>2. CASE t \in starts /\ \E k \in 1..l : bars[k].open_ts = t
    <3>1. PICK k \in 1..l : bars[k].open_ts = t
      BY <2>2
    <3>2. CASE k > l - n
      <4> DEFINE i == k - (l - n)
      <4>1. i \in 1..n /\ i + (l - n) = k
        BY <1>1, <1>2, <1>5, <3>2
      <4> HIDE DEF i
      <4>2. new[i] = bars[k]
        BY <1>6, <4>1
      <4>3. i \in 1..n + 1
        BY <1>2, <4>1
      <4> QED
        BY <3>1, <4>2, <4>3
    <3>3. CASE ~(k > l - n)
      <4>1. ASSUME NEW i \in 1..n PROVE t < new[i].open_ts
        <5> DEFINE j == i + (l - n)
        <5>1. new[i] = bars[j] /\ j \in 1..l
          BY <1>6
        <5>2. k < j
          BY <1>1, <1>2, <3>3
        <5> HIDE DEF j
        <5> QED
          BY <1>4, <3>1, <5>1, <5>2
      <4>2. t < new[n + 1].open_ts
        BY <1>3, <2>2
      <4> QED
        BY <1>7, <4>1, <4>2
    <3> QED
      BY <3>2, <3>3
  <2>3. CASE t \in starts /\ \A k \in 1..l : t < bars[k].open_ts
    <3>1. ASSUME NEW i \in 1..n PROVE t < new[i].open_ts
      <4> DEFINE j == i + (l - n)
      <4>1. new[i] = bars[j] /\ j \in 1..l
        BY <1>6
      <4> HIDE DEF j
      <4> QED
        BY <2>3, <4>1
    <3>2. t < new[n + 1].open_ts
      BY <1>3, <2>3
    <3> QED
      BY <1>7, <3>1, <3>2
  <2> QED
    BY <1>4, <2>1, <2>2, <2>3
<1>12. n + 1 = IF Cardinality(more) <= size THEN Cardinality(more) ELSE size + 1
  <2>1. Cardinality(more) = Cardinality(starts) + 1 /\ Cardinality(starts) \in Nat
    BY <1>8, FS_AddElement, FS_CardinalityType
  <2> DEFINE c == Cardinality(starts)
             d == Cardinality(more)
  <2>2. c \in Nat /\ d = c + 1 /\ l = IF c <= size THEN c ELSE size + 1
    BY <1>4, <2>1
  <2> HIDE DEF c, d
  <2>3. n + 1 = IF d <= size THEN d ELSE size + 1
    BY <1>1, <1>2, <2>2
  <2> QED
    BY <2>3 DEF d
<1> HIDE DEF more
<1>13. Book(new, more, next, size)
  BY <1>3, <1>9, <1>10, <1>11, <1>12 DEF Book
<1> QED
  BY <1>13 DEF new, r, more, ts

(* The newest bar is updated. *)
LEMMA BookUpdate ==
  ASSUME NEW buffer \in Seq(Bar), NEW bar \in Bar, NEW starts, NEW ref, NEW size,
         Book(Append(buffer, bar), starts, ref, size),
         NEW updated \in Bar, updated.open_ts = bar.open_ts, NEW next,
         \A t \in starts \ {bar.open_ts} : next[t] = ref[t], next[bar.open_ts] = updated
  PROVE  Book(Append(buffer, updated), starts, next, size)
<1> DEFINE old == Append(buffer, bar)
           new == Append(buffer, updated)
           n == Len(buffer)
<1>1. n \in Nat
  BY LenProperties
<1>2. /\ old \in Seq(Bar) /\ Len(old) = n + 1 /\ old[n + 1] = bar
      /\ \A i \in 1..n : old[i] = buffer[i]
  BY AppendProperties
<1>3. /\ new \in Seq(Bar) /\ Len(new) = n + 1 /\ new[n + 1] = updated
      /\ \A i \in 1..n : new[i] = buffer[i]
  BY AppendProperties
<1>4. /\ \A i, j \in 1..n + 1 : i < j => old[i].open_ts < old[j].open_ts
      /\ \A i \in 1..n + 1 : old[i].open_ts \in starts /\ old[i] = ref[old[i].open_ts]
      /\ \A t \in starts : \/ \E i \in 1..n + 1 : old[i].open_ts = t
                           \/ \A i \in 1..n + 1 : t < old[i].open_ts
      /\ n + 1 = IF Cardinality(starts) <= size THEN Cardinality(starts) ELSE size + 1
  BY <1>2 DEF Book
<1> HIDE DEF old, new, n
<1>5. \A i \in 1..n + 1 : i \in 1..n \/ i = n + 1
  BY <1>1
<1>6. \A i \in 1..n + 1 : new[i].open_ts = old[i].open_ts
  BY <1>2, <1>3, <1>5
<1>7. ASSUME NEW i \in 1..n + 1 PROVE new[i] = next[new[i].open_ts]
  <2>1. CASE i \in 1..n
    <3>1. new[i] = old[i] /\ old[i].open_ts \in starts /\ old[i] = ref[old[i].open_ts]
      BY <1>2, <1>3, <1>4, <2>1
    <3>2. old[i].open_ts < bar.open_ts
      <4>1. i < n + 1 /\ n + 1 \in 1..n + 1
        BY <1>1, <2>1
      <4> QED
        BY <1>2, <1>4, <4>1
    <3>3. old[i].open_ts # bar.open_ts
      <4>1. old[i] \in Bar
        BY <1>2, <1>5, ElementOfSeq
      <4>2. old[i].open_ts \in Nat /\ bar.open_ts \in Nat
        BY <4>1 DEF Bar
      <4> QED
        BY <3>2, <4>2
    <3> QED
      BY <3>1, <3>3
  <2>2. CASE i = n + 1
    BY <1>3, <2>2
  <2> QED
    BY <1>5, <2>1, <2>2
<1>8. Book(new, starts, next, size)
  <2>1. \A i, j \in 1..n + 1 : i < j => new[i].open_ts < new[j].open_ts
    BY <1>4, <1>6
  <2>2. \A i \in 1..n + 1 : new[i].open_ts \in starts
    BY <1>4, <1>6
  <2>3. \A t \in starts : \/ \E i \in 1..n + 1 : new[i].open_ts = t
                         \/ \A i \in 1..n + 1 : t < new[i].open_ts
    BY <1>4, <1>6
  <2> QED
    BY <1>3, <1>4, <1>7, <2>1, <2>2, <2>3 DEF Book
<1> QED
  BY <1>8 DEF new

-----------------------------------------------------------------------------
(* The ticks of the history.                                               *)
Tick == [ts : Nat, price : Nat \ {0}, volume : Nat, session : Sessions]

(* The latest time seen.                                                   *)
Top(history, i) == Max({history[j].ts : j \in 1..i})

(* The grid of a timeframe is at or before an instant, and in its order.   *)
LEMMA Grid ==
  ASSUME NEW tf \in Timeframes
  PROVE  /\ \A a \in Nat : Snapped(a, tf) \in Nat /\ Snapped(a, tf) <= a
         /\ \A a, b \in Nat : a <= b => Snapped(a, tf) <= Snapped(b, tf)
<1>1. CASE tf = "M1"
  BY <1>1 DEF Snapped, TIMEFRAME
<1>2. CASE tf = "M3"
  BY <1>2 DEF Snapped, TIMEFRAME
<1>3. CASE tf = "M5"
  BY <1>3 DEF Snapped, TIMEFRAME
<1> QED
  BY <1>1, <1>2, <1>3 DEF Timeframes

(* Of the newest timestamp so far.                                         *)
LEMMA TopOf ==
  ASSUME NEW q \in Seq(Tick), NEW i \in 1..Len(q)
  PROVE  /\ Top(q, i) \in Nat /\ \E j \in 1..i : Top(q, i) = q[j].ts
         /\ \A j \in 1..i : q[j].ts <= Top(q, i)
         /\ Top(q, i) \in {q[j].ts : j \in 1..i}
<1> DEFINE f == [j \in 1..i |-> q[j].ts]
           V == {f[j] : j \in 1..i}
<1>1. Len(q) \in Nat /\ \A j \in 1..i : j \in 1..Len(q)
  BY LenProperties
<1>2. \A j \in 1..i : q[j].ts \in Nat
  <2>1. \A j \in 1..i : q[j] \in Tick
    BY <1>1, ElementOfSeq
  <2> QED
    BY <2>1 DEF Tick
<1>3. IsFiniteSet(1..i) /\ 1..i # {}
  <2>1. i \in Int /\ i \in 1..i
    BY <1>1
  <2>2. 1 \in Int
    OBVIOUS
  <2>3. IsFiniteSet(1..i)
    BY <2>1, <2>2, FS_Interval
  <2> QED
    BY <2>1, <2>3
<1>4. V = {q[j].ts : j \in 1..i} /\ \A j \in 1..i : f[j] = q[j].ts /\ f[j] \in Int
  BY <1>2
<1> HIDE DEF f
<1>5. Max(V) \in V /\ \A j \in 1..i : f[j] <= Max(V)
  <2>1. \A j \in 1..i : f[j] \in Int
    BY <1>4
  <2> QED
    BY <1>3, <2>1, ImageMax
<1>6. Top(q, i) = Max(V)
  BY <1>4 DEF Top
<1> QED
  BY <1>2, <1>4, <1>5, <1>6

(* The latest time seen never goes back.                                   *)
LEMMA TopGrows ==
  ASSUME NEW q \in Seq(Tick), NEW i \in 1..Len(q), NEW j \in 1..i
  PROVE  Top(q, j) <= Top(q, i)
<1>1. j \in 1..Len(q) /\ \A k \in 1..j : k \in 1..i
  BY LenProperties
<1>2. PICK k \in 1..j : Top(q, j) = q[k].ts
  BY <1>1, TopOf
<1> QED
  BY <1>1, <1>2, TopOf

(* One tick more. *)
LEMMA OneMore ==
  ASSUME NEW q \in Seq(Tick), NEW tick \in Tick
  PROVE  LET new == Append(q, tick)
             n == Len(q)
         IN  /\ new \in Seq(Tick) /\ n \in Nat /\ Len(new) = n + 1 /\ new[n + 1] = tick
             /\ DOMAIN new = 1..n + 1 /\ DOMAIN q = 1..n
             /\ \A i \in 1..n : new[i] = q[i] /\ q[i] \in Tick /\ Top(new, i) = Top(q, i)
             /\ Top(new, n + 1) = IF n = 0 THEN tick.ts ELSE Max({Top(q, n), tick.ts})
<1> DEFINE new == Append(q, tick)
           n == Len(q)
<1>1. /\ new \in Seq(Tick) /\ n \in Nat /\ Len(new) = n + 1 /\ new[n + 1] = tick
      /\ \A i \in 1..n : new[i] = q[i] /\ q[i] \in Tick
      /\ DOMAIN new = 1..n + 1 /\ DOMAIN q = 1..n
  BY AppendProperties, LenProperties, ElementOfSeq
<1> HIDE DEF new, n
<1>2. ASSUME NEW i \in 1..n PROVE Top(new, i) = Top(q, i)
  <2>1. \A j \in 1..i : j \in 1..n
    BY <1>1
  <2>2. {new[j].ts : j \in 1..i} = {q[j].ts : j \in 1..i}
    BY <1>1, <2>1
  <2> QED
    BY <2>2 DEF Top
<1>3. Top(new, n + 1) = IF n = 0 THEN tick.ts ELSE Max({Top(q, n), tick.ts})
  <2> DEFINE V == {q[j].ts : j \in 1..n}
  <2>1. {new[j].ts : j \in 1..n + 1} = V \union {tick.ts}
    <3>1. \A j \in 1..n + 1 : j \in 1..n \/ j = n + 1
      BY <1>1
    <3>2. n + 1 \in 1..n + 1 /\ \A j \in 1..n : j \in 1..n + 1
      BY <1>1
    <3> QED
      BY <1>1, <3>1, <3>2
  <2>2. tick.ts \in Nat
    BY DEF Tick
  <2>3. CASE n = 0
    <3>1. V = {}
      BY <2>3
    <3>2. Max({tick.ts}) = tick.ts
      <4>1. {tick.ts} \in SUBSET Int /\ tick.ts \in {tick.ts} /\ \A x \in {tick.ts} : x <= tick.ts
        BY <2>2
      <4> QED
        BY <4>1, MaxOf
    <3> QED
      BY <2>1, <2>3, <3>1, <3>2 DEF Top
  <2>4. CASE n # 0
    <3>1. n \in 1..n
      BY <1>1, <2>4
    <3>2. Top(q, n) = Max(V)
      BY DEF Top
    <3>3. Top(q, n) \in V /\ \A x \in V : x <= Top(q, n)
      BY <3>1, TopOf DEF n
    <3>4. V \in SUBSET Int
      BY <1>1 DEF Tick
    <3> HIDE DEF V
    <3>5. Max(V \union {tick.ts}) = Max({Max(V), tick.ts})
      BY <2>2, <3>2, <3>3, <3>4, MaxMore
    <3> QED
      BY <2>1, <2>4, <3>2, <3>5 DEF Top
  <2> QED
    BY <2>3, <2>4
<1> QED
  BY <1>1, <1>2, <1>3 DEF new, n

(* The bars of the history, with one tick more: all but that of the tick   *)
(* are what they were.                                                     *)
LEMMA OtherBars ==
  ASSUME NEW q \in Seq(Tick), NEW tick \in Tick, NEW tf \in Timeframes,
         NEW start \in Starts(q, tf), start # BarOf(Append(q, tick), Len(q) + 1, tf)
  PROVE  ReferenceBar(Append(q, tick), start, tf) = ReferenceBar(q, start, tf)
<1> DEFINE new == Append(q, tick)
           n == Len(q)
           M == Members(q, start, tf)
<1>1. /\ new \in Seq(Tick) /\ n \in Nat /\ Len(new) = n + 1
      /\ DOMAIN new = 1..n + 1 /\ DOMAIN q = 1..n
      /\ \A i \in 1..n : new[i] = q[i] /\ q[i] \in Tick /\ Top(new, i) = Top(q, i)
  BY OneMore
<1>2. start # BarOf(new, n + 1, tf)
  OBVIOUS
<1> HIDE DEF new, n
<1>3. Members(new, start, tf) = M
  <2>1. \A i \in 1..n : BarOf(new, i, tf) = BarOf(q, i, tf)
    BY <1>1 DEF BarOf, Top
  <2>2. \A i \in 1..n + 1 : i \in 1..n \/ i = n + 1
    BY <1>1
  <2>3. \A i \in 1..n : i \in 1..n + 1
    BY <1>1
  <2> QED
    BY <1>1, <1>2, <2>1, <2>2, <2>3 DEF Members
<1>4. M \subseteq 1..n /\ M # {} /\ M \in SUBSET Int
  BY <1>1 DEF Members, Starts
<1>5. IsFiniteSet(M)
  <2>1. 1 \in Int /\ n \in Int
    BY <1>1
  <2>2. IsFiniteSet(1..n)
    BY <2>1, FS_Interval
  <2> QED
    BY <1>4, <2>2, FS_Subset
<1>6. Min(M) \in M /\ Max(M) \in M
  BY <1>4, <1>5, EndsOf
<1>7. {new[i].price : i \in M} = {q[i].price : i \in M}
  BY <1>1, <1>4
<1>8. new[Min(M)] = q[Min(M)] /\ new[Max(M)] = q[Max(M)]
  BY <1>1, <1>4, <1>6
<1> DEFINE rest == M \ {Min(M)}
<1>9. SumFunctionOnSet(Volumes(new), rest) = SumFunctionOnSet(Volumes(q), rest)
  <2>1. IsFiniteSet(rest)
    BY <1>5, FS_RemoveElement
  <2>2. \A i \in rest : Volumes(q)[i] \in Nat /\ Volumes(q)[i] = Volumes(new)[i]
    <3>1. \A i \in 1..n : i \in 1..n + 1 /\ q[i].volume \in Nat
      BY <1>1 DEF Tick
    <3> QED
      BY <1>1, <1>4, <3>1 DEF Volumes
  <2> HIDE DEF rest
  <2> QED
    BY <2>1, <2>2, SumAgrees
<1> HIDE DEF M
<1>10. ReferenceBar(new, start, tf) = ReferenceBar(q, start, tf)
  BY <1>3, <1>7, <1>8, <1>9 DEF ReferenceBar, M
<1> QED
  BY <1>10 DEF new

(* A sum with one more term.                                               *)
LEMMA SumMore ==
  ASSUME NEW T, IsFiniteSet(T), NEW m, m \notin T, NEW f, NEW g,
         \A i \in T : f[i] \in Nat /\ g[i] = f[i], g[m] \in Nat
  PROVE  SumFunctionOnSet(g, T \union {m}) = SumFunctionOnSet(f, T) + g[m]
<1>1. SumFunctionOnSet(f, T) = SumFunctionOnSet(g, T) /\ SumFunctionOnSet(f, T) \in Nat
  BY SumAgrees, SumIsNat
<1> DEFINE more == T \union {m}
<1>2. IsFiniteSet(more) /\ m \in more /\ more \ {m} = T /\ \A i \in more : g[i] \in Nat
  BY FS_AddElement
<1> HIDE DEF more
<1>3. SumFunctionOnSet(g, more) = g[m] + SumFunctionOnSet(g, T)
  BY <1>2, SumAdd
<1>4. SumFunctionOnSet(g, more) = SumFunctionOnSet(f, T) + g[m]
  BY <1>1, <1>3
<1> QED
  BY <1>4 DEF more

(* A tick belongs to the bar of the latest time seen.                      *)
LEMMA BarsOf ==
  ASSUME NEW q \in Seq(Tick), NEW tf \in Timeframes
  PROVE  /\ \A i \in 1..Len(q) : BarOf(q, i, tf) \in Nat
         /\ \A i \in 1..Len(q) : \A j \in 1..i : BarOf(q, j, tf) <= BarOf(q, i, tf)
<1>1. \A i \in 1..Len(q) : Top(q, i) \in Nat
  BY TopOf
<1>2. \A i \in 1..Len(q) : \A j \in 1..i : Top(q, j) <= Top(q, i) /\ j \in 1..Len(q)
  BY TopGrows, LenProperties
<1>3. \A i : BarOf(q, i, tf) = Snapped(Top(q, i), tf)
  BY DEF BarOf, Top
<1> QED
  BY <1>1, <1>2, <1>3, Grid

(* The bar of a tick: the one in progress, or a later one.                 *)
LEMMA BarOfNext ==
  ASSUME NEW q \in Seq(Tick), NEW tick \in Tick, NEW tf \in Timeframes
  PROVE  LET new == Append(q, tick)
             n == Len(q)
             b == BarOf(new, n + 1, tf)
         IN  /\ \A i \in 1..n : BarOf(new, i, tf) = BarOf(q, i, tf)
             /\ b = IF n = 0 \/ Snapped(tick.ts, tf) > BarOf(q, n, tf)
                    THEN Snapped(tick.ts, tf) ELSE BarOf(q, n, tf)
             /\ b \in Nat
             /\ Starts(new, tf) = Starts(q, tf) \union {b}
<1> DEFINE new == Append(q, tick)
           n == Len(q)
           b == BarOf(new, n + 1, tf)
           s == Snapped(tick.ts, tf)
<1>1. /\ new \in Seq(Tick) /\ n \in Nat /\ Len(new) = n + 1
      /\ DOMAIN new = 1..n + 1 /\ DOMAIN q = 1..n
      /\ \A i \in 1..n : Top(new, i) = Top(q, i)
      /\ Top(new, n + 1) = IF n = 0 THEN tick.ts ELSE Max({Top(q, n), tick.ts})
  BY OneMore
<1>2. \A i \in 1..n : Top(q, i) \in Nat
  BY TopOf
<1>3. tick.ts \in Nat
  BY DEF Tick
<1> HIDE DEF new, n
<1>4. \A i : BarOf(q, i, tf) = Snapped(Top(q, i), tf) /\ BarOf(new, i, tf) = Snapped(Top(new, i), tf)
  BY DEF BarOf, Top
<1>5. \A i \in 1..n : BarOf(new, i, tf) = BarOf(q, i, tf)
  BY <1>1, <1>4
<1>6. b = IF n = 0 \/ s > BarOf(q, n, tf) THEN s ELSE BarOf(q, n, tf)
  <2>1. CASE n = 0
    BY <1>1, <1>4, <2>1
  <2>2. CASE n # 0
    <3>1. n \in 1..n
      BY <1>1, <2>2
    <3> DEFINE a == Top(q, n)
               c == BarOf(q, n, tf)
    <3>2. a \in Nat /\ c = Snapped(a, tf)
      BY <1>2, <1>4, <3>1
    <3>3. Top(new, n + 1) = IF a <= tick.ts THEN tick.ts ELSE a
      BY <1>1, <1>3, <2>2, <3>2, MaxOfTwo
    <3> HIDE DEF a, c
    <3>4. s \in Nat /\ c \in Nat /\ (a <= tick.ts => c <= s) /\ (tick.ts <= a => s <= c)
      BY <1>3, <3>2, Grid
    <3>5. b = IF a <= tick.ts THEN s ELSE c
      BY <1>4, <3>2, <3>3
    <3> HIDE DEF b, s
    <3>6. b = IF s > c THEN s ELSE c
      BY <1>3, <3>2, <3>4, <3>5
    <3> QED
      BY <2>2, <3>6 DEF c
  <2> QED
    BY <2>1, <2>2
<1>7. b \in Nat
  <2>1. s \in Nat
    BY <1>3, Grid
  <2>2. n # 0 => n \in 1..n
    BY <1>1
  <2>3. \A i \in 1..n : BarOf(q, i, tf) \in Nat
    BY <1>2, <1>4, Grid
  <2> QED
    BY <1>6, <2>1, <2>2, <2>3
<1>8. Starts(new, tf) = Starts(q, tf) \union {b}
  <2>1. \A i \in 1..n + 1 : i \in 1..n \/ i = n + 1
    BY <1>1
  <2>2. n + 1 \in 1..n + 1 /\ \A i \in 1..n : i \in 1..n + 1
    BY <1>1
  <2> QED
    BY <1>1, <1>5, <2>1, <2>2 DEF Starts
<1> QED
  BY <1>5, <1>6, <1>7, <1>8 DEF new, n

(* The bar of the newest tick is the newest one.                           *)
LEMMA StartsOf ==
  ASSUME NEW q \in Seq(Tick), NEW tf \in Timeframes
  PROVE  /\ Starts(q, tf) \in SUBSET Nat /\ IsFiniteSet(Starts(q, tf))
         /\ Len(q) # 0 => /\ BarOf(q, Len(q), tf) \in Starts(q, tf)
                          /\ \A t \in Starts(q, tf) : t <= BarOf(q, Len(q), tf)
<1> DEFINE n == Len(q)
           f == [i \in 1..n |-> BarOf(q, i, tf)]
<1>1. n \in Nat /\ DOMAIN q = 1..n
  BY LenProperties
<1>2. \A i \in 1..n : BarOf(q, i, tf) \in Nat /\ \A j \in 1..i : BarOf(q, j, tf) <= BarOf(q, i, tf)
  BY BarsOf
<1> HIDE DEF n
<1>3. f \in Surjection(1..n, Starts(q, tf))
  BY <1>1 DEF Surjection, Starts
<1> HIDE DEF f
<1>4. IsFiniteSet(1..n)
  <2>1. 1 \in Int /\ n \in Int
    BY <1>1
  <2> QED
    BY <2>1, FS_Interval
<1>5. IsFiniteSet(Starts(q, tf))
  BY <1>3, <1>4, FS_Surjection
<1>6. n # 0 => n \in 1..n /\ \A j \in 1..n : j \in 1..n
  BY <1>1
<1> QED
  BY <1>1, <1>2, <1>5, <1>6 DEF Starts, n

(* The tick goes to the bar in progress.                                   *)
LEMMA SameBar ==
  ASSUME NEW q \in Seq(Tick), NEW tick \in Tick, NEW tf \in Timeframes,
         Len(q) # 0, ~(Snapped(tick.ts, tf) > BarOf(q, Len(q), tf))
  PROVE  LET new == Append(q, tick)
             b == BarOf(q, Len(q), tf)
         IN  /\ BarOf(new, Len(q) + 1, tf) = b
             /\ Starts(new, tf) = Starts(q, tf)
             /\ ReferenceBar(new, b, tf) = Updated(ReferenceBar(q, b, tf), tick)
<1> DEFINE new == Append(q, tick)
           n == Len(q)
           b == BarOf(q, n, tf)
           M == Members(q, b, tf)
           P == {q[i].price : i \in M}
<1>1. /\ new \in Seq(Tick) /\ n \in Nat /\ Len(new) = n + 1 /\ new[n + 1] = tick
      /\ DOMAIN new = 1..n + 1 /\ DOMAIN q = 1..n
      /\ \A i \in 1..n : new[i] = q[i] /\ q[i] \in Tick
  BY OneMore
<1>2. /\ \A i \in 1..n : BarOf(new, i, tf) = BarOf(q, i, tf)
      /\ BarOf(new, n + 1, tf) = b /\ Starts(new, tf) = Starts(q, tf) \union {b}
  BY BarOfNext
<1>3. b \in Starts(q, tf)
  BY StartsOf
<1>4. n \in 1..n
  BY <1>1
<1> HIDE DEF new, n
<1>5. Starts(new, tf) = Starts(q, tf)
  BY <1>2, <1>3
<1>6. Members(new, b, tf) = M \union {n + 1}
  <2>1. \A i \in 1..n + 1 : i \in 1..n \/ i = n + 1
    BY <1>1
  <2>2. n + 1 \in 1..n + 1 /\ \A i \in 1..n : i \in 1..n + 1
    BY <1>1
  <2> QED
    BY <1>1, <1>2, <2>1, <2>2 DEF Members
<1>7. M \in SUBSET (1..n) /\ n \in M /\ M # {} /\ M \in SUBSET Int
  BY <1>1, <1>4 DEF Members
<1> HIDE DEF M
<1>8. IsFiniteSet(M)
  <2>1. 1 \in Int /\ n \in Int
    BY <1>1
  <2>2. IsFiniteSet(1..n)
    BY <2>1, FS_Interval
  <2> QED
    BY <1>7, <2>2, FS_Subset
<1>9. Min(M) \in M /\ \A i \in M : Min(M) <= i
  BY <1>7, <1>8, EndsOf
<1>10. Min(M \union {n + 1}) = Min(M)
  <2>1. Min(M) \in M \union {n + 1} /\ \A i \in M \union {n + 1} : Min(M) <= i
    <3>1. Min(M) \in 1..n
      BY <1>7, <1>9
    <3>2. Min(M) <= n + 1
      BY <1>1, <3>1
    <3> QED
      BY <1>9, <3>2
  <2>2. M \union {n + 1} \in SUBSET Int
    BY <1>1, <1>7
  <2> HIDE DEF M
  <2> QED
    BY <2>1, <2>2, MinOf
<1>11. Max(M \union {n + 1}) = n + 1 /\ Max(M) \in M
  <2>1. \A i \in M \union {n + 1} : i <= n + 1
    BY <1>1, <1>7
  <2>2. M \union {n + 1} \in SUBSET Int /\ n + 1 \in M \union {n + 1}
    BY <1>1, <1>7
  <2>3. Max(M) \in M
    BY <1>7, <1>8, EndsOf
  <2> QED
    BY <2>1, <2>2, <2>3, MaxOf
<1>12. {new[i].price : i \in M \union {n + 1}} = P \union {tick.price}
  BY <1>1, <1>7
<1>13. /\ P \in SUBSET Int /\ Max(P) \in P /\ Min(P) \in P
       /\ \A x \in P : x <= Max(P) /\ Min(P) <= x
  <2> DEFINE f == [i \in M |-> q[i].price]
             V == {f[i] : i \in M}
  <2>1. V = P /\ \A i \in M : f[i] \in Int /\ f[i] = q[i].price
    <3>1. \A i \in M : q[i] \in Tick
      BY <1>1, <1>7
    <3>2. \A i \in M : q[i].price \in Int
      BY <3>1 DEF Tick
    <3>3. \A i \in M : f[i] = q[i].price
      OBVIOUS
    <3> HIDE DEF f
    <3>4. V = P
      BY <3>3, Zenon
    <3> QED
      BY <3>2, <3>3, <3>4
  <2> HIDE DEF f
  <2>2. \A i \in M : f[i] \in Int
    BY <2>1
  <2>3. /\ Max(V) \in V /\ \A i \in M : f[i] <= Max(V)
        /\ Min(V) \in V /\ \A i \in M : Min(V) <= f[i]
    BY <1>7, <1>8, <2>2, ImageMax, ImageMin
  <2> QED
    BY <2>1, <2>3
<1>14. tick.price \in Int /\ tick.volume \in Nat
  BY DEF Tick
<1> HIDE DEF P
<1>15. /\ Max(P \union {tick.price}) = Max({Max(P), tick.price})
       /\ Min(P \union {tick.price}) = Min({Min(P), tick.price})
  BY <1>13, <1>14, MaxMore, MinMore
<1> DEFINE rest == M \ {Min(M)}
           f == Volumes(q)
           g == Volumes(new)
<1>16. (M \union {n + 1}) \ {Min(M)} = rest \union {n + 1}
  <2>1. Min(M) # n + 1
    BY <1>1, <1>7, <1>9
  <2> QED
    BY <2>1
<1>17. SumFunctionOnSet(g, rest \union {n + 1}) = SumFunctionOnSet(f, rest) + tick.volume
  <2>1. /\ \A i \in 1..n : f[i] \in Nat /\ g[i] = f[i]
        /\ g[n + 1] = tick.volume
    <3>1. n + 1 \in 1..n + 1 /\ \A i \in 1..n : i \in 1..n + 1
      BY <1>1
    <3>2. \A i \in 1..n : q[i].volume \in Nat
      BY <1>1 DEF Tick
    <3> QED
      BY <1>1, <3>1, <3>2 DEF Volumes
  <2>2. /\ IsFiniteSet(rest) /\ n + 1 \notin rest
        /\ \A i \in rest : f[i] \in Nat /\ g[i] = f[i]
    <3>1. n + 1 \notin M
      BY <1>1, <1>7
    <3> QED
      BY <1>7, <1>8, <2>1, <3>1, FS_RemoveElement
  <2>3. g[n + 1] \in Nat
    BY <1>14, <2>1
  <2> HIDE DEF rest, f, g
  <2>4. SumFunctionOnSet(g, rest \union {n + 1}) = SumFunctionOnSet(f, rest) + g[n + 1]
    BY <2>2, <2>3, SumMore
  <2> QED
    BY <2>1, <2>4
<1>18. new[Min(M)] = q[Min(M)]
  BY <1>1, <1>7, <1>9
<1> DEFINE old == ReferenceBar(q, b, tf)
<1>19. old = [open_ts |-> b, open |-> q[Min(M)].price, close |-> q[Max(M)].price,
              high |-> Max(P), low |-> Min(P), volume |-> SumFunctionOnSet(f, rest)]
  BY DEF ReferenceBar, M, P
<1>20. ReferenceBar(new, b, tf) =
         [open_ts |-> b, open |-> q[Min(M)].price, close |-> tick.price,
          high |-> Max({Max(P), tick.price}), low |-> Min({Min(P), tick.price}),
          volume |-> SumFunctionOnSet(f, rest) + tick.volume]
  <2>1. ReferenceBar(new, b, tf) =
         [open_ts |-> b, open |-> new[Min(M)].price, close |-> new[n + 1].price,
          high |-> Max(P \union {tick.price}), low |-> Min(P \union {tick.price}),
          volume |-> SumFunctionOnSet(g, rest \union {n + 1})]
    BY <1>6, <1>10, <1>11, <1>12, <1>16 DEF ReferenceBar
  <2> QED
    BY <1>1, <1>15, <1>17, <1>18, <2>1
<1> HIDE DEF old, rest, f, g, b
<1>21. /\ old.open_ts = b /\ old.open = q[Min(M)].price
       /\ old.high = Max(P) /\ old.low = Min(P) /\ old.volume = SumFunctionOnSet(f, rest)
  BY <1>19
<1>22. Updated(old, tick) = ReferenceBar(new, b, tf)
  BY <1>20, <1>21 DEF Updated
<1> QED
  BY <1>2, <1>5, <1>22 DEF new, n, b, old

(* The tick opens a bar.                                                   *)
LEMMA NextBar ==
  ASSUME NEW q \in Seq(Tick), NEW tick \in Tick, NEW tf \in Timeframes,
         Len(q) = 0 \/ Snapped(tick.ts, tf) > BarOf(q, Len(q), tf)
  PROVE  LET new == Append(q, tick)
             b == BarOf(new, Len(q) + 1, tf)
         IN  /\ b = Snapped(tick.ts, tf) /\ b \in Nat
             /\ Starts(new, tf) = Starts(q, tf) \union {b}
             /\ \A t \in Starts(q, tf) : t < b
             /\ ReferenceBar(new, b, tf) = OpenBar(tick, tf)
<1> DEFINE new == Append(q, tick)
           n == Len(q)
           b == BarOf(new, n + 1, tf)
<1>1. /\ new \in Seq(Tick) /\ n \in Nat /\ Len(new) = n + 1 /\ new[n + 1] = tick
      /\ DOMAIN new = 1..n + 1 /\ DOMAIN q = 1..n
      /\ \A i \in 1..n : new[i] = q[i] /\ q[i] \in Tick
  BY OneMore
<1>2. /\ \A i \in 1..n : BarOf(new, i, tf) = BarOf(q, i, tf)
      /\ b = Snapped(tick.ts, tf) /\ b \in Nat
      /\ Starts(new, tf) = Starts(q, tf) \union {b}
  BY BarOfNext
<1>3. \A t \in Starts(q, tf) : t < b
  <2>1. CASE n = 0
    <3>1. Starts(q, tf) = {}
      BY <1>1, <2>1 DEF Starts
    <3> QED
      BY <3>1
  <2>2. CASE n # 0
    <3>1. /\ Starts(q, tf) \in SUBSET Nat /\ \A t \in Starts(q, tf) : t <= BarOf(q, n, tf)
          /\ BarOf(q, n, tf) \in Starts(q, tf)
      BY <2>2, StartsOf
    <3>2. BarOf(q, n, tf) < b
      BY <1>2, <2>2, <3>1
    <3> DEFINE c == BarOf(q, n, tf)
    <3> HIDE DEF b, c
    <3>3. c \in Nat /\ c < b /\ \A t \in Starts(q, tf) : t <= c /\ t \in Nat
      BY <3>1, <3>2 DEF c
    <3> QED
      BY <1>2, <3>3
  <2> QED
    BY <2>1, <2>2
<1>4. \A i \in 1..n : BarOf(q, i, tf) # b
  <2>1. \A i \in 1..n : BarOf(q, i, tf) < b /\ BarOf(q, i, tf) \in Nat
    BY <1>1, <1>3, StartsOf DEF Starts
  <2> QED
    BY <1>2, <2>1
<1> HIDE DEF new, n
<1>5. Members(new, b, tf) = {n + 1}
  <2>1. \A i \in 1..n + 1 : i \in 1..n \/ i = n + 1
    BY <1>1
  <2>2. n + 1 \in 1..n + 1 /\ \A i \in 1..n : i \in 1..n + 1
    BY <1>1
  <2> QED
    BY <1>1, <1>2, <1>4, <2>1, <2>2 DEF Members
<1>6. /\ Min({n + 1}) = n + 1 /\ Max({n + 1}) = n + 1
      /\ Min({tick.price}) = tick.price /\ Max({tick.price}) = tick.price
  <2>1. n + 1 \in Int /\ tick.price \in Int
    BY <1>1 DEF Tick
  <2>2. ASSUME NEW x \in Int PROVE Min({x}) = x /\ Max({x}) = x
    <3>1. {x} \in SUBSET Int /\ x \in {x} /\ \A y \in {x} : x <= y /\ y <= x
      OBVIOUS
    <3> QED
      BY <3>1, MinOf, MaxOf
  <2> QED
    BY <2>1, <2>2
<1>7. {new[i].price : i \in {n + 1}} = {tick.price}
  BY <1>1
<1>8. SumFunctionOnSet(Volumes(new), {n + 1} \ {n + 1}) = 0
  <2>1. {n + 1} \ {n + 1} = {}
    OBVIOUS
  <2> QED
    BY <2>1, SumOfNothing
<1> HIDE DEF b
<1>9. ReferenceBar(new, b, tf) = OpenBar(tick, tf)
  <2>1. ReferenceBar(new, b, tf) =
         [open_ts |-> b, open |-> tick.price, close |-> tick.price,
          high |-> tick.price, low |-> tick.price, volume |-> 0]
    BY <1>1, <1>5, <1>6, <1>7, <1>8 DEF ReferenceBar
  <2> QED
    BY <1>2, <2>1 DEF OpenBar
<1> QED
  BY <1>2, <1>3, <1>9 DEF new, n, b

(* The bars a replay gives.                                                *)
Reference(history, tf) == [t \in Starts(history, tf) |-> ReferenceBar(history, t, tf)]

(* The buffer and the bar in progress of a timeframe, after the ticks q.   *)
Cut(q, buffer, open, tf) ==
  /\ buffer \in Seq(Bar)
  /\ Len(q) = 0 => buffer = <<>> /\ open = <<>>
  /\ Len(q) # 0 => LET bar == open[1] IN
       /\ bar \in Bar /\ open = <<bar>> /\ bar.open_ts = BarOf(q, Len(q), tf)
       /\ Book(Append(buffer, bar), Starts(q, tf), Reference(q, tf), MaxSize[tf])

(* A tick keeps the books of a timeframe, closing the bar or not.          *)
LEMMA CutNext ==
  ASSUME NEW q \in Seq(Tick), NEW tick \in Tick, NEW tf \in Timeframes,
         NEW buffer, NEW open, Cut(q, buffer, open, tf)
  PROVE  LET done == open # <<>> /\ should_close(open[1], tick, tf)
         IN  Cut(Append(q, tick),
                 IF done THEN Newest(buffer \o open, MaxSize[tf]) ELSE buffer,
                 IF open = <<>> \/ done THEN <<OpenBar(tick, tf)>> ELSE <<Updated(open[1], tick)>>,
                 tf)
<1> DEFINE new == Append(q, tick)
           n == Len(q)
           done == open # <<>> /\ should_close(open[1], tick, tf)
           size == MaxSize[tf]
           fresh == OpenBar(tick, tf)
<1>1. new \in Seq(Tick) /\ Len(new) = n + 1 /\ n \in Nat
  BY OneMore
<1>2. size \in Nat \ {0}
  BY MarketAssumption
<1>3. tick.ts \in Nat /\ tick.price \in Nat /\ tick.volume \in Nat
  BY DEF Tick
<1>4. fresh \in Bar /\ fresh.open_ts = Snapped(tick.ts, tf)
  <2>1. Snapped(tick.ts, tf) \in Nat
    BY <1>3, Grid
  <2> QED
    BY <1>3, <2>1 DEF OpenBar, Bar
<1>5. ASSUME n = 0 \/ Snapped(tick.ts, tf) > BarOf(q, n, tf),
             NEW bars, Book(bars, Starts(q, tf), Reference(q, tf), size)
      PROVE  /\ fresh.open_ts = BarOf(new, n + 1, tf)
             /\ Book(Append(Newest(bars, size), fresh), Starts(new, tf), Reference(new, tf), size)
  <2>1. /\ fresh.open_ts = BarOf(new, n + 1, tf)
        /\ Starts(new, tf) = Starts(q, tf) \union {fresh.open_ts}
        /\ \A t \in Starts(q, tf) : t < fresh.open_ts
        /\ ReferenceBar(new, fresh.open_ts, tf) = fresh
    BY <1>4, <1>5, NextBar
  <2>2. Starts(q, tf) \in SUBSET Nat /\ IsFiniteSet(Starts(q, tf))
    BY StartsOf
  <2>3. \A t \in Starts(q, tf) : t # fresh.open_ts
    BY <1>4, <2>1, <2>2 DEF Bar
  <2>4. \A t \in Starts(q, tf) : Reference(new, tf)[t] = Reference(q, tf)[t]
    <3>1. \A t \in Starts(q, tf) : ReferenceBar(new, t, tf) = ReferenceBar(q, t, tf)
      BY <2>1, <2>3, OtherBars
    <3> QED
      BY <2>1, <3>1 DEF Reference
  <2>5. Reference(new, tf)[fresh.open_ts] = fresh
    BY <2>1 DEF Reference
  <2> HIDE DEF new, fresh, size
  <2> DEFINE ref == Reference(q, tf)
             next == Reference(new, tf)
             starts == Starts(q, tf)
  <2>6. /\ \A t \in starts : t < fresh.open_ts /\ next[t] = ref[t]
        /\ next[fresh.open_ts] = fresh
        /\ starts \in SUBSET Nat /\ IsFiniteSet(starts)
        /\ Book(bars, starts, ref, size)
    BY <1>5, <2>1, <2>2, <2>4, <2>5
  <2> HIDE DEF ref, next, starts
  <2>7. Book(Append(Newest(bars, size), fresh), starts \union {fresh.open_ts}, next, size)
    BY <1>2, <1>4, <2>6, BookAdd
  <2> QED
    BY <2>1, <2>7 DEF starts, next
<1>6. CASE n = 0
  <2>1. open = <<>> /\ buffer = <<>> /\ ~done
    BY <1>6 DEF Cut
  <2>2. Book(<<>>, Starts(q, tf), Reference(q, tf), size)
    <3>1. Starts(q, tf) = {}
      BY <1>6, LenProperties DEF Starts
    <3>2. Cardinality({}) = 0
      BY FS_EmptySet
    <3>3. <<>> \in Seq(Bar) /\ Len(<<>>) = 0
      OBVIOUS
    <3> QED
      BY <1>2, <3>1, <3>2, <3>3 DEF Book
  <2>3. Newest(<<>>, size) = <<>>
    BY <1>2 DEF Newest
  <2>4. /\ fresh.open_ts = BarOf(new, n + 1, tf)
        /\ Book(Append(<<>>, fresh), Starts(new, tf), Reference(new, tf), size)
    BY <1>5, <1>6, <2>2, <2>3
  <2>5. <<>> \in Seq(Bar)
    OBVIOUS
  <2> HIDE DEF fresh, new, size
  <2>6. Cut(new, <<>>, <<fresh>>, tf)
    BY <1>1, <1>4, <2>4, <2>5 DEF Cut, size
  <2> QED
    BY <2>1, <2>6 DEF new, fresh
<1>7. CASE n # 0
  <2>1. PICK bar \in Bar :
          /\ open = <<bar>> /\ bar.open_ts = BarOf(q, n, tf)
          /\ Book(Append(buffer, bar), Starts(q, tf), Reference(q, tf), size)
    BY <1>7 DEF Cut
  <2>2. buffer \in Seq(Bar) /\ buffer \o open = Append(buffer, bar)
    BY <2>1, AppendIsConcat DEF Cut
  <2>3. open # <<>> /\ open[1] = bar
    BY <2>1
  <2>4. done <=> Snapped(tick.ts, tf) > BarOf(q, n, tf)
    BY <2>1, <2>3 DEF should_close
  <2>5. CASE done
    <3> DEFINE bars == Append(buffer, bar)
    <3>1. /\ fresh.open_ts = BarOf(new, n + 1, tf)
          /\ Book(Append(Newest(bars, size), fresh), Starts(new, tf), Reference(new, tf), size)
      BY <1>5, <2>1, <2>4, <2>5
    <3>2. Newest(bars, size) \in Seq(Bar)
      BY <1>2, <2>2, AppendProperties, NewestOf
    <3> HIDE DEF bars, fresh, new, size
    <3>3. Cut(new, Newest(bars, size), <<fresh>>, tf)
      BY <1>1, <1>4, <3>1, <3>2 DEF Cut, size
    <3> HIDE DEF done
    <3> QED
      BY <2>2, <2>5, <3>3 DEF new, fresh, size, bars, done
  <2>6. CASE ~done
    <3> DEFINE b == BarOf(q, n, tf)
               next == Updated(bar, tick)
    <3>1. /\ BarOf(new, n + 1, tf) = b
          /\ Starts(new, tf) = Starts(q, tf)
          /\ ReferenceBar(new, b, tf) = Updated(ReferenceBar(q, b, tf), tick)
      BY <1>7, <2>4, <2>6, SameBar
    <3>2. b \in Starts(q, tf)
      BY <1>7, StartsOf
    <3>3. bar = ReferenceBar(q, b, tf)
      <4> DEFINE bars == Append(buffer, bar)
                 m == Len(buffer)
      <4>1. bars[m + 1] = bar /\ m + 1 \in 1..Len(bars)
        BY <2>2, AppendProperties, LenProperties
      <4>2. bars[m + 1] = Reference(q, tf)[bars[m + 1].open_ts]
        BY <2>1, <4>1 DEF Book
      <4> QED
        BY <2>1, <3>2, <4>1, <4>2 DEF Reference
    <3>4. ReferenceBar(new, b, tf) = next
      BY <3>1, <3>3
    <3>5. next \in Bar /\ next.open_ts = b
      <4>1. bar.high \in Int /\ bar.low \in Int /\ tick.price \in Int
        BY <1>3 DEF Bar
      <4>2. Max({bar.high, tick.price}) \in Nat /\ Min({bar.low, tick.price}) \in Nat
        BY <1>3, <4>1, MaxOfTwo, MinOfTwo DEF Bar
      <4> QED
        BY <1>3, <2>1, <4>2 DEF Bar, Updated
    <3>6. \A t \in Starts(q, tf) \ {b} : Reference(new, tf)[t] = Reference(q, tf)[t]
      <4>1. \A t \in Starts(q, tf) \ {b} : ReferenceBar(new, t, tf) = ReferenceBar(q, t, tf)
        BY <3>1, OtherBars
      <4> QED
        BY <3>1, <4>1 DEF Reference
    <3>7. Reference(new, tf)[b] = next
      BY <3>1, <3>2, <3>4 DEF Reference
    <3> HIDE DEF new, next, size, b
    <3> DEFINE ref == Reference(q, tf)
               then == Reference(new, tf)
               starts == Starts(q, tf)
    <3>8. /\ \A t \in starts \ {bar.open_ts} : then[t] = ref[t]
          /\ then[bar.open_ts] = next
          /\ next.open_ts = bar.open_ts
          /\ Book(Append(buffer, bar), starts, ref, size)
      BY <2>1, <3>5, <3>6, <3>7 DEF b
    <3> HIDE DEF ref, then, starts
    <3>9. Book(Append(buffer, next), starts, then, size)
      BY <2>2, <3>5, <3>8, BookUpdate
    <3>10. Cut(new, buffer, <<next>>, tf)
      BY <1>1, <2>2, <3>1, <3>5, <3>9 DEF Cut, size, starts, then, b
    <3> HIDE DEF done
    <3>11. /\ (IF done THEN Newest(buffer \o open, MaxSize[tf]) ELSE buffer) = buffer
           /\ (IF open = <<>> \/ done THEN <<OpenBar(tick, tf)>> ELSE <<Updated(open[1], tick)>>)
              = <<next>>
      BY <2>3, <2>6 DEF next
    <3> QED
      BY <3>10, <3>11 DEF new, done
  <2> QED
    BY <2>5, <2>6
<1> QED
  BY <1>1, <1>6, <1>7

(* Books that are kept are the history.                                    *)
LEMMA CutIsHistory ==
  ASSUME NEW q \in Seq(Tick), NEW tf \in Timeframes,
         NEW buffer, NEW open, Cut(q, buffer, open, tf)
  PROVE  LET starts == Starts(q, tf)
             bars == buffer \o open
             kept == {bars[i].open_ts : i \in DOMAIN bars}
         IN  /\ Cardinality(kept) = Len(bars)
             /\ Len(bars) = Min({Cardinality(starts), MaxSize[tf] + 1})
             /\ kept \subseteq starts /\ \A t \in starts \ kept, k \in kept : t < k
             /\ \A i \in DOMAIN bars : bars[i] = ReferenceBar(q, bars[i].open_ts, tf)
             /\ \A i, j \in DOMAIN bars : i < j => bars[i].open_ts < bars[j].open_ts
<1> DEFINE starts == Starts(q, tf)
           bars == buffer \o open
           kept == {bars[i].open_ts : i \in DOMAIN bars}
           size == MaxSize[tf]
           l == Len(bars)
<1>1. size \in Nat \ {0}
  BY MarketAssumption
<1>2. Book(bars, starts, Reference(q, tf), size)
  <2>1. CASE Len(q) = 0
    <3>1. Starts(q, tf) = {}
      BY <2>1, LenProperties DEF Starts
    <3>2. Cardinality({}) = 0
      BY FS_EmptySet
    <3>3. bars = <<>> /\ <<>> \in Seq(Bar) /\ Len(<<>>) = 0
      BY <2>1 DEF Cut
    <3> HIDE DEF bars, size
    <3> QED
      BY <1>1, <3>1, <3>2, <3>3 DEF Book
  <2>2. CASE Len(q) # 0
    <3>1. PICK bar \in Bar :
          /\ open = <<bar>> 
          /\ Book(Append(buffer, bar), Starts(q, tf), Reference(q, tf), size)
      BY <2>2 DEF Cut
    <3>2. bars = Append(buffer, bar)
      BY <3>1, AppendIsConcat DEF Cut
    <3> QED
      BY <3>1, <3>2
  <2> QED
    BY <2>1, <2>2
<1> HIDE DEF bars
<1>3. /\ l \in Nat /\ DOMAIN bars = 1..l /\ \A i \in 1..l : bars[i] \in Bar
  BY <1>2, LenProperties, ElementOfSeq DEF Book
<1>4. starts \in SUBSET Nat /\ IsFiniteSet(starts)
  BY StartsOf
<1>5. /\ \A i, j \in 1..l : i < j => bars[i].open_ts < bars[j].open_ts
      /\ \A i \in 1..l : bars[i].open_ts \in starts /\ bars[i] = Reference(q, tf)[bars[i].open_ts]
      /\ \A t \in starts : \/ \E i \in 1..l : bars[i].open_ts = t
                           \/ \A i \in 1..l : t < bars[i].open_ts
      /\ l = IF Cardinality(starts) <= size THEN Cardinality(starts) ELSE size + 1
  BY <1>2 DEF Book
<1> HIDE DEF l
<1>6. Cardinality(kept) = l
  <2> DEFINE f == [i \in 1..l |-> bars[i].open_ts]
  <2>1. f \in Bijection(1..l, kept)
    <3>1. f \in Surjection(1..l, kept)
      BY <1>3 DEF Surjection
    <3>2. ASSUME NEW i \in 1..l, NEW j \in 1..l, f[i] = f[j] PROVE i = j
      <4>1. bars[i].open_ts = bars[j].open_ts /\ bars[i].open_ts \in Nat /\ bars[j].open_ts \in Nat
        BY <1>3, <3>2 DEF Bar
      <4>2. ~(i < j) /\ ~(j < i)
        BY <1>5, <4>1
      <4> QED
        BY <1>3, <4>2
    <3> QED
      BY <3>1, <3>2 DEF Bijection, Injection, IsInjective, Surjection
  <2>2. IsFiniteSet(1..l) /\ Cardinality(1..l) = l
    <3>1. 1 \in Int /\ l \in Int
      BY <1>3
    <3>2. IsFiniteSet(1..l) /\ Cardinality(1..l) = IF 1 > l THEN 0 ELSE l - 1 + 1
      BY <3>1, FS_Interval
    <3> QED
      BY <1>3, <3>2
  <2> HIDE DEF f, kept
  <2>3. Cardinality(kept) = Cardinality(1..l)
    <3>1. ExistsBijection(1..l, kept)
      BY <2>1 DEF ExistsBijection
    <3> QED
      BY <2>2, <3>1, FS_Bijection
  <2> QED
    BY <2>2, <2>3
<1>7. l = Min({Cardinality(starts), size + 1})
  <2> DEFINE c == Cardinality(starts)
  <2>1. c \in Nat
    BY <1>4, FS_CardinalityType
  <2>2. c \in Int /\ size + 1 \in Int
    BY <1>1, <2>1
  <2>3. l = IF c <= size THEN c ELSE size + 1
    BY <1>5
  <2> HIDE DEF c, size
  <2>4. Min({c, size + 1}) = IF c <= size + 1 THEN c ELSE size + 1
    BY <2>2, MinOfTwo
  <2>5. Min({c, size + 1}) = l
    BY <1>1, <2>1, <2>3, <2>4
  <2> QED
    BY <2>5 DEF c
<1>8. kept \subseteq starts /\ \A t \in starts \ kept, k \in kept : t < k
  BY <1>3, <1>5
<1>9. \A i \in DOMAIN bars : bars[i] = ReferenceBar(q, bars[i].open_ts, tf)
  BY <1>3, <1>5 DEF Reference
<1> HIDE DEF starts, kept
<1> QED
  BY <1>3, <1>5, <1>6, <1>7, <1>8, <1>9 DEF starts, kept, bars, l, size

(* The ticks since the session last changed, with one tick more.           *)
LEMMA SessionNext ==
  ASSUME NEW q \in Seq(Tick), NEW tick \in Tick
  PROVE  LET new == Append(q, tick)
             n == Len(q)
             T == SessionTicks(q)
         IN  /\ T \in SUBSET (1..n) /\ IsFiniteSet(T) /\ n + 1 \notin T
             /\ SessionTicks(new) =
                  (IF n # 0 /\ q[n].session = tick.session THEN T ELSE {}) \union {n + 1}
<1> DEFINE new == Append(q, tick)
           n == Len(q)
           T == SessionTicks(q)
           S == SessionTicks(new)
<1>1. /\ new \in Seq(Tick) /\ n \in Nat /\ Len(new) = n + 1 /\ new[n + 1] = tick
      /\ \A i \in 1..n : new[i] = q[i]
  BY OneMore
<1> HIDE DEF new
<1>2. S = {i \in 1..n + 1 : \A j \in i..n + 1 : new[j].session = tick.session}
  BY <1>1 DEF SessionTicks
<1>3. T = {i \in 1..n : \A j \in i..n : q[j].session = q[n].session}
  BY DEF SessionTicks
<1>4. T \in SUBSET (1..n) /\ IsFiniteSet(T) /\ n + 1 \notin T
  <2>1. 1 \in Int /\ n \in Int
    BY <1>1
  <2>2. T \in SUBSET (1..n)
    BY <1>3
  <2>3. IsFiniteSet(1..n) /\ n + 1 \notin 1..n
    BY <2>1, FS_Interval
  <2> HIDE DEF T
  <2> QED
    BY <2>2, <2>3, FS_Subset
<1> HIDE DEF n, T, S
<1>5. n + 1 \in S
  <2>1. n + 1 \in 1..n + 1 /\ \A j \in n + 1..n + 1 : j = n + 1
    BY <1>1
  <2> QED
    BY <1>1, <1>2, <2>1
<1>6. \A i \in 1..n + 1 : i \in 1..n \/ i = n + 1
  BY <1>1
<1>7. CASE n # 0 /\ q[n].session = tick.session
  <2>1. ASSUME NEW i \in 1..n PROVE i \in S <=> i \in T
    <3>1. \A j \in i..n + 1 : j \in i..n \/ j = n + 1
      BY <1>1
    <3>2. \A j \in i..n : j \in i..n + 1 /\ j \in 1..n
      BY <1>1
    <3>3. i \in 1..n + 1
      BY <1>1
    <3>4. \A j \in i..n : new[j] = q[j]
      BY <1>1, <3>2
    <3> QED
      BY <1>1, <1>2, <1>3, <1>7, <3>1, <3>2, <3>3, <3>4
  <2>2. \A i \in S : i \in 1..n \/ i = n + 1
    BY <1>2, <1>6
  <2>3. S = T \union {n + 1}
    BY <1>4, <1>5, <2>1, <2>2
  <2> QED
    BY <1>4, <1>7, <2>3 DEF new, n, T, S
<1>8. CASE ~(n # 0 /\ q[n].session = tick.session)
  <2>1. ASSUME NEW i \in 1..n PROVE i \notin S
    <3>1. n \in i..n + 1 /\ n \in 1..n /\ n # 0
      BY <1>1
    <3> QED
      BY <1>1, <1>2, <1>8, <3>1
  <2>2. \A i \in S : i \in 1..n \/ i = n + 1
    BY <1>2, <1>6
  <2>3. S = {} \union {n + 1}
    BY <1>5, <2>1, <2>2
  <2> QED
    BY <1>4, <1>8, <2>3 DEF new, n, T, S
<1> QED
  BY <1>7, <1>8

(* A sum over them.                                                        *)
LEMMA SessionSum ==
  ASSUME NEW q \in Seq(Tick), NEW tick \in Tick, NEW f, NEW g,
         \A i \in 1..Len(q) : f[i] \in Nat /\ g[i] = f[i], g[Len(q) + 1] \in Nat
  PROVE  SumFunctionOnSet(g, SessionTicks(Append(q, tick))) =
           (IF Len(q) # 0 /\ q[Len(q)].session = tick.session
            THEN SumFunctionOnSet(f, SessionTicks(q)) ELSE 0) + g[Len(q) + 1]
<1> DEFINE n == Len(q)
           T == SessionTicks(q)
           S == SessionTicks(Append(q, tick))
           same == n # 0 /\ q[n].session = tick.session
<1>1. /\ T \in SUBSET (1..n) /\ IsFiniteSet(T) /\ n + 1 \notin T
      /\ S = (IF same THEN T ELSE {}) \union {n + 1}
  BY SessionNext
<1>2. \A i \in T : f[i] \in Nat /\ g[i] = f[i]
  BY <1>1
<1>3. g[n + 1] \in Nat
  OBVIOUS
<1> HIDE DEF n, T, S, same
<1>4. CASE same
  <2>1. S = T \union {n + 1}
    BY <1>1, <1>4
  <2>2. SumFunctionOnSet(g, T \union {n + 1}) = SumFunctionOnSet(f, T) + g[n + 1]
    <3> DEFINE m == n + 1
    <3>1. IsFiniteSet(T) /\ m \notin T /\ g[m] \in Nat
      BY <1>1, <1>3
    <3> HIDE DEF m
    <3>2. SumFunctionOnSet(g, T \union {m}) = SumFunctionOnSet(f, T) + g[m]
      BY <1>2, <3>1, SumMore
    <3> QED
      BY <3>2 DEF m
  <2> QED
    BY <1>4, <2>1, <2>2 DEF n, T, S, same
<1>5. CASE ~same
  <2>1. SumFunctionOnSet(f, {}) = 0
    BY SumOfNothing
  <2>2. SumFunctionOnSet(g, {} \union {n + 1}) = SumFunctionOnSet(f, {}) + g[n + 1]
    <3> DEFINE E == {}
    <3>1. IsFiniteSet(E) /\ n + 1 \notin E /\ \A i \in E : f[i] \in Nat /\ g[i] = f[i]
      BY FS_EmptySet
    <3> HIDE DEF E
    <3>2. SumFunctionOnSet(g, E \union {n + 1}) = SumFunctionOnSet(f, E) + g[n + 1]
      BY <1>3, <3>1, SumMore
    <3> QED
      BY <3>2 DEF E
  <2> QED
    BY <1>1, <1>5, <2>1, <2>2 DEF n, T, S, same
<1> QED
  BY <1>4, <1>5

(* The CVD values and their averages.                                      *)
Pure(buffer, smoothed) ==
  /\ buffer \in Seq(Sessions \union {Marker}) /\ smoothed \in Seq(SUBSET Sessions)
  /\ Len(smoothed) = Len(buffer)
  /\ \A k \in 1..Len(buffer) : smoothed[k] = {buffer[k]} \ {Marker}
  /\ \A k \in 1..Len(buffer) - 1 :
       Marker \in {buffer[k], buffer[k + 1]} \/ buffer[k] = buffer[k + 1]

(* A value, or the marker between sessions, is appended.                   *)
LEMMA PureNext ==
  ASSUME NEW buffer, NEW smoothed, Pure(buffer, smoothed), NEW v \in Sessions \union {Marker},
         \/ Len(buffer) = 0
         \/ Marker \in {v, buffer[Len(buffer)]}
         \/ buffer[Len(buffer)] = v
  PROVE  LET b == Newest(Append(buffer, v), RingSize)
             s == Newest(Append(smoothed, {v} \ {Marker}), RingSize)
         IN  /\ Pure(b, s) /\ Len(b) # 0 /\ b[Len(b)] = v
<1> DEFINE V == Sessions \union {Marker}
           w == {v} \ {Marker}
           n == Len(buffer)
           b1 == Append(buffer, v)
           s1 == Append(smoothed, w)
           b == Newest(b1, RingSize)
           s == Newest(s1, RingSize)
           m == Len(b)
<1>0. RingSize \in Nat \ {0}
  BY MarketAssumption
<1>1. /\ b1 \in Seq(V) /\ Len(b1) = n + 1 /\ b1[n + 1] = v /\ n \in Nat
      /\ \A k \in 1..n : b1[k] = buffer[k]
  BY AppendProperties, LenProperties DEF Pure
<1>2. /\ s1 \in Seq(SUBSET Sessions) /\ Len(s1) = n + 1 /\ s1[n + 1] = w
      /\ \A k \in 1..n : s1[k] = smoothed[k]
  <2>1. w \in SUBSET Sessions
    OBVIOUS
  <2>2. smoothed \in Seq(SUBSET Sessions) /\ Len(smoothed) = n
    BY DEF Pure
  <2> HIDE DEF w, n
  <2> QED
    BY <2>1, <2>2, AppendProperties
<1>3. /\ \A k \in 1..n : smoothed[k] = {buffer[k]} \ {Marker}
      /\ \A k \in 1..n - 1 : Marker \in {buffer[k], buffer[k + 1]} \/ buffer[k] = buffer[k + 1]
      /\ n = 0 \/ Marker \in {v, buffer[n]} \/ buffer[n] = v
  BY DEF Pure
<1> HIDE DEF V, n, b1, s1
<1>4. /\ b \in Seq(V) /\ m \in Nat /\ m = IF n + 1 > RingSize THEN RingSize ELSE n + 1
      /\ \A k \in 1..m : b[k] = b1[k + ((n + 1) - m)] /\ k + ((n + 1) - m) \in 1..n + 1
  <2>1. /\ b \in Seq(V) /\ Len(b) \in Nat
        /\ Len(b) = IF Len(b1) > RingSize THEN RingSize ELSE Len(b1)
        /\ \A k \in 1..Len(b) : /\ b[k] = b1[k + (Len(b1) - Len(b))]
                               /\ k + (Len(b1) - Len(b)) \in 1..Len(b1)
    BY <1>0, <1>1, NewestOf
  <2> HIDE DEF b, b1
  <2>2. Len(b1) = n + 1
    BY <1>1
  <2> HIDE DEF n
  <2>3. /\ Len(b) = IF n + 1 > RingSize THEN RingSize ELSE n + 1
        /\ \A k \in 1..Len(b) : /\ b[k] = b1[k + ((n + 1) - Len(b))]
                               /\ k + ((n + 1) - Len(b)) \in 1..n + 1
    BY <2>1, <2>2, Zenon
  <2> QED
    BY <2>1, <2>3, Zenon
<1>5. /\ s \in Seq(SUBSET Sessions) /\ Len(s) = m
      /\ \A k \in 1..m : s[k] = s1[k + ((n + 1) - m)]
  <2> DEFINE W == SUBSET Sessions
  <2>0. s1 \in Seq(W)
    BY <1>2
  <2> HIDE DEF W
  <2>3. /\ s \in Seq(W)
        /\ Len(s) = IF Len(s1) > RingSize THEN RingSize ELSE Len(s1)
        /\ \A k \in 1..Len(s) : s[k] = s1[k + (Len(s1) - Len(s))]
    BY <1>0, <2>0, NewestOf
  <2>1. /\ s \in Seq(SUBSET Sessions)
        /\ Len(s) = IF Len(s1) > RingSize THEN RingSize ELSE Len(s1)
        /\ \A k \in 1..Len(s) : s[k] = s1[k + (Len(s1) - Len(s))]
    BY <2>3, Zenon DEF W
  <2> HIDE DEF b, s
  <2>2. Len(s) = m
    <3>1. Len(s) = IF n + 1 > RingSize THEN RingSize ELSE n + 1
      BY <1>2, <2>1, Zenon
    <3>2. m = IF n + 1 > RingSize THEN RingSize ELSE n + 1
      BY <1>4
    <3> QED
      BY <3>1, <3>2
  <2> QED
    BY <1>2, <2>1, <2>2, Zenon
<1> HIDE DEF b, s, w, m
<1>6. \A k \in 1..n + 1 : s1[k] = {b1[k]} \ {Marker}
  <2>1. \A k \in 1..n + 1 : k \in 1..n \/ k = n + 1
    BY <1>1
  <2> QED
    BY <1>1, <1>2, <1>3, <2>1 DEF w
<1>7. \A k \in 1..n : Marker \in {b1[k], b1[k + 1]} \/ b1[k] = b1[k + 1]
  <2> SUFFICES ASSUME NEW k \in 1..n
               PROVE  Marker \in {b1[k], b1[k + 1]} \/ b1[k] = b1[k + 1]
    OBVIOUS
  <2>1. CASE k = n
    <3>1. n # 0 /\ b1[k] = buffer[n] /\ b1[k + 1] = v
      BY <1>1, <2>1
    <3> QED
      BY <1>3, <3>1
  <2>2. CASE k # n
    <3>1. k \in 1..n - 1 /\ k + 1 \in 1..n
      BY <1>1, <2>2
    <3>2. b1[k] = buffer[k] /\ b1[k + 1] = buffer[k + 1]
      BY <1>1, <3>1
    <3> QED
      BY <1>3, <3>1, <3>2
  <2> QED
    BY <2>1, <2>2
<1>8. \A k \in 1..m : s[k] = {b[k]} \ {Marker}
  <2> SUFFICES ASSUME NEW k \in 1..m PROVE s[k] = {b[k]} \ {Marker}
    OBVIOUS
  <2> DEFINE j == k + ((n + 1) - m)
  <2>1. s[k] = s1[j] /\ b[k] = b1[j] /\ j \in 1..n + 1
    BY <1>4, <1>5
  <2> HIDE DEF j
  <2>2. s1[j] = {b1[j]} \ {Marker}
    BY <1>6, <2>1
  <2> QED
    BY <2>1, <2>2
<1>9. \A k \in 1..m - 1 : Marker \in {b[k], b[k + 1]} \/ b[k] = b[k + 1]
  <2> SUFFICES ASSUME NEW k \in 1..m - 1
               PROVE  Marker \in {b[k], b[k + 1]} \/ b[k] = b[k + 1]
    OBVIOUS
  <2> DEFINE j == k + ((n + 1) - m)
  <2>1. k \in 1..m /\ k + 1 \in 1..m
    BY <1>4
  <2>2. b[k] = b1[j] /\ b[k + 1] = b1[k + 1 + ((n + 1) - m)]
    BY <1>4, <2>1
  <2>3. k + 1 + ((n + 1) - m) = j + 1 /\ j \in 1..n
    BY <1>0, <1>1, <1>4
  <2> HIDE DEF j
  <2> QED
    BY <1>7, <2>2, <2>3
<1>10. m # 0 /\ b[m] = v
  <2>1. m # 0 /\ m \in 1..m /\ m + ((n + 1) - m) = n + 1
    BY <1>0, <1>1, <1>4
  <2> QED
    BY <1>1, <1>4, <2>1
<1>11. Pure(b, s)
  BY <1>4, <1>5, <1>8, <1>9 DEF Pure, m, V
<1> QED
  BY <1>10, <1>11 DEF b, s, b1, s1, m, w

(* The ring of a session and its averages, the newest value last.          *)
Averages(c) ==
  /\ Pure(c.buffer, c.smoothed)
  /\ \/ c.of = {} /\ Len(c.buffer) = 0
     \/ \E x \in Sessions : c.of = {x} /\ Len(c.buffer) # 0 /\ c.buffer[Len(c.buffer)] = x

(* A completed bar keeps the averages of one session each.                 *)
LEMMA AveragesNext ==
  ASSUME Averages(cvd), NEW s \in Sessions
  PROVE  Averages(on_bar_close(s))
<1> DEFINE changed == cvd.of # {} /\ cvd.of # {s}
           buffer == IF changed THEN Newest(Append(cvd.buffer, Marker), RingSize) ELSE cvd.buffer
           smoothed == IF changed THEN Newest(Append(cvd.smoothed, {}), RingSize) ELSE cvd.smoothed
           before == IF smoothed = <<>> THEN {} ELSE smoothed[Len(smoothed)]
<1>0. Marker \notin Sessions
  BY MarketAssumption
<1>1. /\ Pure(buffer, smoothed)
      /\ \/ Len(buffer) = 0
         \/ Len(buffer) # 0 /\ buffer[Len(buffer)] \in {Marker, s}
  <2>1. CASE changed
    <3>1. {Marker} \ {Marker} = {} /\ Marker \in {Marker, cvd.buffer[Len(cvd.buffer)]}
      OBVIOUS
    <3>2. Pure(cvd.buffer, cvd.smoothed) /\ Marker \in Sessions \union {Marker}
      BY DEF Averages
    <3> DEFINE b == Newest(Append(cvd.buffer, Marker), RingSize)
               t == Newest(Append(cvd.smoothed, {Marker} \ {Marker}), RingSize)
    <3>3. Pure(b, t) /\ Len(b) # 0 /\ b[Len(b)] = Marker
      BY <3>1, <3>2, PureNext
    <3>4. buffer = b /\ smoothed = t
      BY <2>1, <3>1
    <3> HIDE DEF b, t, buffer, smoothed
    <3> QED
      BY <3>3, <3>4
  <2>2. CASE ~changed
    <3>1. buffer = cvd.buffer /\ smoothed = cvd.smoothed
      BY <2>2
    <3> HIDE DEF buffer, smoothed
    <3> QED
      BY <2>2, <3>1 DEF Averages
  <2> QED
    BY <2>1, <2>2
<1> HIDE DEF buffer, smoothed
<1>2. before \union {s} = {s} \ {Marker}
  <2>1. /\ smoothed \in Seq(SUBSET Sessions) /\ Len(smoothed) = Len(buffer) /\ Len(buffer) \in Nat
        /\ \A k \in 1..Len(buffer) : smoothed[k] = {buffer[k]} \ {Marker}
    BY <1>1, LenProperties DEF Pure
  <2>2. CASE Len(buffer) = 0
    <3>1. smoothed = <<>>
      BY <2>1, <2>2, EmptySeq
    <3> QED
      BY <1>0, <3>1
  <2>3. CASE Len(buffer) # 0
    <3>1. smoothed # <<>> /\ Len(buffer) \in 1..Len(buffer)
      BY <2>1, <2>3
    <3>2. before = {buffer[Len(buffer)]} \ {Marker}
      BY <2>1, <3>1
    <3> HIDE DEF before
    <3> QED
      BY <1>0, <1>1, <2>3, <3>2
  <2> QED
    BY <2>2, <2>3
<1> DEFINE b == Newest(Append(buffer, s), RingSize)
           t == Newest(Append(smoothed, {s} \ {Marker}), RingSize)
<1>3. Pure(b, t) /\ Len(b) # 0 /\ b[Len(b)] = s
  <2>1. \/ Len(buffer) = 0
        \/ Marker \in {s, buffer[Len(buffer)]}
        \/ buffer[Len(buffer)] = s
    BY <1>1
  <2> QED
    BY <1>1, <2>1, PureNext
<1>4. on_bar_close(s) = [buffer |-> b, smoothed |-> Newest(Append(smoothed, before \union {s}), RingSize),
                         of |-> {s}]
  BY DEF on_bar_close, buffer, smoothed
<1>5. on_bar_close(s) = [buffer |-> b, smoothed |-> t, of |-> {s}]
  BY <1>2, <1>4
<1> HIDE DEF b, t
<1> QED
  BY <1>3, <1>5 DEF Averages

(* Two completed M5 bars take ten minutes: there is an M3 bar.             *)
LEMMA ThirdTimeframe ==
  ASSUME NEW q \in Seq(Tick), NEW b3, NEW o3, NEW b5, NEW o5,
         Cut(q, b3, o3, "M3"), Cut(q, b5, o5, "M5"), Len(b5) > 1
  PROVE  b3 # <<>>
<1> DEFINE n == Len(q)
<1>1. n # 0 /\ DOMAIN q = 1..n
  <2>1. b5 # <<>>
    OBVIOUS
  <2> QED
    BY <2>1, LenProperties DEF Cut
<1>2. PICK bar5 \in Bar : Book(Append(b5, bar5), Starts(q, "M5"), Reference(q, "M5"), MaxSize["M5"])
  BY <1>1 DEF Cut
<1>3. PICK bar3 \in Bar : Book(Append(b3, bar3), Starts(q, "M3"), Reference(q, "M3"), MaxSize["M3"])
  BY <1>1 DEF Cut
<1>4. /\ b3 \in Seq(Bar) /\ Len(Append(b3, bar3)) = Len(b3) + 1 /\ Len(b3) \in Nat
      /\ b5 \in Seq(Bar) /\ Len(Append(b5, bar5)) = Len(b5) + 1 /\ Len(b5) \in Nat
  BY AppendProperties, LenProperties DEF Cut
<1>5. PICK x \in Nat, y \in Nat, z \in Nat :
        /\ Snapped(x, "M5") < Snapped(y, "M5") /\ Snapped(y, "M5") < Snapped(z, "M5")
        /\ Snapped(x, "M3") \in Starts(q, "M3") /\ Snapped(z, "M3") \in Starts(q, "M3")
  <2> DEFINE bars == Append(b5, bar5)
             l == Len(bars)
  <2>1. 1 \in 1..l /\ 2 \in 1..l /\ 3 \in 1..l
    BY <1>4
  <2>2. /\ bars[1].open_ts < bars[2].open_ts /\ bars[2].open_ts < bars[3].open_ts
        /\ \A i \in 1..l : bars[i].open_ts \in Starts(q, "M5")
    <3>1. \A i, j \in 1..l : i < j => bars[i].open_ts < bars[j].open_ts
      BY <1>2 DEF Book
    <3>2. 1 < 2 /\ 2 < 3
      OBVIOUS
    <3>3. \A i \in 1..l : bars[i].open_ts \in Starts(q, "M5")
      BY <1>2 DEF Book
    <3> HIDE DEF bars, l
    <3> QED
      BY <2>1, <3>1, <3>2, <3>3
  <2> HIDE DEF bars, l
  <2>3. PICK i \in 1..n, j \in 1..n, k \in 1..n :
          /\ bars[1].open_ts = BarOf(q, i, "M5") /\ bars[2].open_ts = BarOf(q, j, "M5")
          /\ bars[3].open_ts = BarOf(q, k, "M5")
    <3>1. Starts(q, "M5") = {BarOf(q, g, "M5") : g \in 1..n}
      BY DEF Starts
    <3>2. \A m \in 1..l : \E g \in 1..n : bars[m].open_ts = BarOf(q, g, "M5")
      BY <2>2, <3>1
    <3>3. /\ \E g \in 1..n : bars[1].open_ts = BarOf(q, g, "M5")
          /\ \E g \in 1..n : bars[2].open_ts = BarOf(q, g, "M5")
          /\ \E g \in 1..n : bars[3].open_ts = BarOf(q, g, "M5")
      BY <2>1, <3>2, Zenon
    <3> QED
      BY <3>3, Zenon
  <2>4. /\ Top(q, i) \in Nat /\ Top(q, j) \in Nat /\ Top(q, k) \in Nat
        /\ \A m : BarOf(q, m, "M5") = Snapped(Top(q, m), "M5")
        /\ \A m : BarOf(q, m, "M3") = Snapped(Top(q, m), "M3")
    BY TopOf DEF BarOf, Top
  <2>5. \A m \in 1..n : Snapped(Top(q, m), "M3") \in Starts(q, "M3")
    BY <1>1, <2>4 DEF Starts
  <2> QED
    BY <2>2, <2>3, <2>4, <2>5
<1>6. Snapped(x, "M3") # Snapped(z, "M3")
  <2>1. /\ (x \div 5) * 5 < (y \div 5) * 5 /\ (y \div 5) * 5 < (z \div 5) * 5
    BY <1>5 DEF Snapped, TIMEFRAME
  <2>2. (x \div 3) * 3 # (z \div 3) * 3
    BY <2>1
  <2> QED
    BY <2>2 DEF Snapped, TIMEFRAME
<1> DEFINE S == Starts(q, "M3")
           c == Cardinality(S)
           size == MaxSize["M3"]
<1>7. c \in Nat /\ c >= 2
  <2> DEFINE a == Snapped(x, "M3")
             d == Snapped(z, "M3")
             R == (S \ {a}) \ {d}
  <2>1. a \in S /\ d \in S \ {a} /\ IsFiniteSet(S)
    BY <1>5, <1>6, StartsOf, Zenon DEF Timeframes
  <2> HIDE DEF a, d, S
  <2>2. IsFiniteSet(S \ {a}) /\ Cardinality(S \ {a}) = Cardinality(S) - 1
    BY <2>1, FS_RemoveElement
  <2>3. IsFiniteSet(R) /\ Cardinality(R) = Cardinality(S \ {a}) - 1
    BY <2>1, <2>2, FS_RemoveElement
  <2>4. Cardinality(R) \in Nat /\ c \in Nat
    BY <2>1, <2>3, FS_CardinalityType
  <2> QED
    BY <2>2, <2>3, <2>4
<1>8. size \in Nat \ {0}
  BY MarketAssumption DEF Timeframes
<1>9. Len(b3) + 1 = IF c <= size THEN c ELSE size + 1
  BY <1>3, <1>4 DEF Book
<1> HIDE DEF c, size
<1>10. Len(b3) # 0
  BY <1>4, <1>7, <1>8, <1>9
<1> QED
  BY <1>10

-----------------------------------------------------------------------------
(* VWAP and price history are those of the running session.                *)
SessionKept ==
  LET n == Len(ticks)
      of == IF n = 0 THEN {} ELSE {ticks[n].session}
  IN  /\ vwap.of = of /\ last_session = of
      /\ vwap.volume = SumFunctionOnSet(Volumes(ticks), SessionTicks(ticks))
      /\ vwap.tp_volume = SumFunctionOnSet(Turnovers(ticks), SessionTicks(ticks))
      /\ price_history \in Seq(Nat)
      /\ Len(price_history) = Min({PriceWindow, Cardinality(SessionTicks(ticks))})

(* Before an ATR there are fewer ranges than its period, and no more bars. *)
RangesKept ==
  \A tf \in {"M1", "M5"} :
    \/ atr[tf].initialised
    \/ /\ atr[tf].ranges \in Nat /\ Len(buffers[tf]) <= atr[tf].ranges
       /\ atr[tf].ranges < Period

(* The books of every timeframe, the session, the ranges and the averages, *)
(* and what was offered.                                                   *)
MarketInv ==
  /\ session \in Sessions
  /\ ticks \in Seq(Tick)
  /\ \A tf \in Timeframes : Cut(ticks, buffers[tf], open_bars[tf], tf)
  /\ SessionKept
  /\ RangesKept
  /\ Averages(cvd)
  /\ SnapshotSound

LEMMA MarketBegins == MarketInit => MarketInv
<1> SUFFICES ASSUME MarketInit PROVE MarketInv
  OBVIOUS
<1>1. ticks = <<>> /\ Len(<<>>) = 0
  BY DEF MarketInit
<1>2. ticks \in Seq(Tick) /\ session \in Sessions
  BY <1>1 DEF MarketInit
<1>3. \A tf \in Timeframes : Cut(ticks, buffers[tf], open_bars[tf], tf)
  <2> SUFFICES ASSUME NEW tf \in Timeframes PROVE Cut(ticks, buffers[tf], open_bars[tf], tf)
    OBVIOUS
  <2>1. buffers[tf] = <<>> /\ open_bars[tf] = <<>> /\ <<>> \in Seq(Bar)
    BY DEF MarketInit
  <2> QED
    BY <1>1, <2>1 DEF Cut
<1>4. SessionKept
  <2>1. SessionTicks(ticks) = {}
    BY <1>1 DEF SessionTicks
  <2>2. Cardinality({}) = 0
    BY FS_EmptySet
  <2>3. PriceWindow \in Nat
    BY MarketAssumption
  <2>4. Min({PriceWindow, 0}) = 0
    BY <2>3, MinOfTwo
  <2>5. /\ SumFunctionOnSet(Volumes(ticks), {}) = 0
        /\ SumFunctionOnSet(Turnovers(ticks), {}) = 0
    BY SumOfNothing
  <2>6. <<>> \in Seq(Nat)
    OBVIOUS
  <2>7. /\ vwap.of = {} /\ vwap.volume = 0 /\ vwap.tp_volume = 0
        /\ last_session = {} /\ price_history = <<>>
    BY DEF MarketInit
  <2> QED
    BY <1>1, <2>1, <2>2, <2>4, <2>5, <2>6, <2>7 DEF SessionKept
<1>5. RangesKept
  <2>1. Period \in Nat \ {0}
    BY MarketAssumption
  <2> QED
    BY <1>1, <2>1 DEF RangesKept, MarketInit, Timeframes
<1>6. Averages(cvd)
  BY DEF Averages, Pure, MarketInit
<1>7. SnapshotSound
  BY DEF SnapshotSound, MarketInit
<1> QED
  BY <1>2, <1>3, <1>4, <1>5, <1>6, <1>7 DEF MarketInv

(* Another session begins.                                                 *)
LEMMA SessionTurns == MarketInv /\ (SessionChanges \/ UNCHANGED market) => MarketInv'
<1> SUFFICES ASSUME MarketInv, SessionChanges \/ UNCHANGED market PROVE MarketInv'
  OBVIOUS
<1>1. /\ session' \in Sessions
      /\ UNCHANGED <<open_bars, buffers, vwap, cvd, atr, price_history, last_session, offered, ticks>>
  BY DEF MarketInv, SessionChanges, market
<1>2. SessionKept' /\ RangesKept'
  BY <1>1 DEF MarketInv, SessionKept, RangesKept
<1>5. Averages(cvd')
  BY <1>1 DEF MarketInv
<1>6. SnapshotSound'
  <2>1. SnapshotSound
    BY DEF MarketInv
  <2>2. offered' = offered /\ ticks' = ticks
    BY <1>1, Zenon
  <2>3. price_history' = price_history /\ cvd' = cvd
    BY <1>1, Zenon
  <2> QED
    BY <2>1, <2>2, <2>3, ZenonT(40) DEF SnapshotSound
<1>3. ticks' \in Seq(Tick)
  BY <1>1 DEF MarketInv
<1>4. \A tf \in Timeframes : Cut(ticks', buffers'[tf], open_bars'[tf], tf)
  BY <1>1 DEF MarketInv
<1> QED
  BY <1>1, <1>2, <1>3, <1>4, <1>5, <1>6 DEF MarketInv

(* A tick as the builder takes it.                                         *)
TickOf(ts, quote) == [ts |-> ts, price |-> quote.price, volume |-> quote.volume, session |-> session]

(* A tick the clock and the broker can give is a tick.                     *)
LEMMA TickTyped ==
  ASSUME MarketInv, NEW ts \in Timestamps, NEW quote \in Quotes
  PROVE  TickOf(ts, quote) \in Tick
<1>1. quote.price \in Nat \ {0} /\ quote.volume \in Nat
  BY MarketAssumption
<1>2. ts \in Nat
  <2>1. CASE ticks = <<>>
    BY <2>1, MarketAssumption DEF Timestamps
  <2>2. CASE ticks # <<>>
    <3>1. PICK a \in Advances : ts = Max({0, ticks[Len(ticks)].ts + a})
      BY <2>2 DEF Timestamps
    <3>2. Len(ticks) \in 1..Len(ticks)
      BY <2>2, LenProperties, EmptySeq DEF MarketInv
    <3>3. ticks[Len(ticks)] \in Tick
      BY <3>2, ElementOfSeq DEF MarketInv
    <3>4. a \in Int
      BY MarketAssumption
    <3> DEFINE t == ticks[Len(ticks)].ts + a
    <3>5. t \in Int /\ 0 \in Int
      BY <3>3, <3>4 DEF Tick
    <3> HIDE DEF t
    <3>6. Max({0, t}) \in Nat
      BY <3>5, MaxOfTwo
    <3> QED
      BY <3>1, <3>6 DEF t
  <2> QED
    BY <2>1, <2>2
<1>3. session \in Sessions
  BY DEF MarketInv
<1> QED
  BY <1>1, <1>2, <1>3 DEF TickOf, Tick

(* What the tick leaves of the bars.                                       *)
LEMMA BarsNext ==
  ASSUME MarketInv, NEW tick \in Tick, Aggregate(tick)
  PROVE  /\ \A tf \in Timeframes : Cut(Append(ticks, tick), buffers'[tf], open_bars'[tf], tf)
         /\ \A tf \in Timeframes :
              /\ Len(buffers'[tf]) \in Nat /\ Len(buffers[tf]) \in Nat
              /\ IF tf \in Completed(tick) THEN Len(buffers'[tf]) <= Len(buffers[tf]) + 1
                                           ELSE buffers'[tf] = buffers[tf]
<1> SUFFICES ASSUME NEW tf \in Timeframes
             PROVE  /\ Cut(Append(ticks, tick), buffers'[tf], open_bars'[tf], tf)
                    /\ Len(buffers'[tf]) \in Nat /\ Len(buffers[tf]) \in Nat
                    /\ IF tf \in Completed(tick) THEN Len(buffers'[tf]) <= Len(buffers[tf]) + 1
                                                 ELSE buffers'[tf] = buffers[tf]
  OBVIOUS
<1> DEFINE buffer == buffers[tf]
           open == open_bars[tf]
           done == open # <<>> /\ should_close(open[1], tick, tf)
<1>1. ticks \in Seq(Tick) /\ Cut(ticks, buffer, open, tf)
  BY DEF MarketInv
<1>2. done <=> tf \in Completed(tick)
  BY DEF Completed
<1>3. /\ buffers'[tf] = IF done THEN Newest(buffer \o open, MaxSize[tf]) ELSE buffer
      /\ open_bars'[tf] = IF open = <<>> \/ done
                          THEN <<OpenBar(tick, tf)>> ELSE <<Updated(open[1], tick)>>
  BY <1>2 DEF Aggregate
<1>4. Cut(Append(ticks, tick), buffers'[tf], open_bars'[tf], tf)
  <2> HIDE DEF done
  <2>1. Cut(Append(ticks, tick),
            IF done THEN Newest(buffer \o open, MaxSize[tf]) ELSE buffer,
            IF open = <<>> \/ done THEN <<OpenBar(tick, tf)>> ELSE <<Updated(open[1], tick)>>, tf)
    BY <1>1, CutNext DEF done
  <2> QED
    BY <1>3, <2>1
<1>5. Len(buffers'[tf]) \in Nat /\ Len(buffer) \in Nat
  BY <1>1, <1>4, LenProperties DEF Cut
<1>6. ASSUME done PROVE Len(buffers'[tf]) <= Len(buffer) + 1
  <2>1. Len(ticks) # 0
    BY <1>1, <1>6 DEF Cut
  <2>2. PICK bar \in Bar : open = <<bar>>
    BY <1>1, <2>1 DEF Cut
  <2>3. buffer \in Seq(Bar) /\ buffer \o open = Append(buffer, bar)
    BY <1>1, <2>2, AppendIsConcat DEF Cut
  <2>4. Append(buffer, bar) \in Seq(Bar) /\ Len(Append(buffer, bar)) = Len(buffer) + 1
    BY <2>3, AppendProperties
  <2>5. MaxSize[tf] \in Nat \ {0}
    BY MarketAssumption
  <2> DEFINE r == Newest(Append(buffer, bar), MaxSize[tf])
  <2>6. Len(r) = IF Len(Append(buffer, bar)) > MaxSize[tf] THEN MaxSize[tf]
                 ELSE Len(Append(buffer, bar))
    BY <2>4, <2>5, NewestOf
  <2>7. buffers'[tf] = r
    BY <1>3, <1>6, <2>3
  <2> HIDE DEF r, buffer
  <2> QED
    BY <1>5, <2>4, <2>5, <2>6, <2>7
<1> QED
  BY <1>2, <1>3, <1>4, <1>5, <1>6

(* A tick is counted for its own session.                                  *)
LEMMA SessionStep ==
  ASSUME MarketInv, NEW tick \in Tick, tick.session = session,
         vwap' = VwapUpdate(tick), ticks' = Append(ticks, tick), last_session' = {session},
         price_history' = Newest(Append(IF last_session = {session} THEN price_history ELSE <<>>,
                                        tick.price), PriceWindow)
  PROVE  SessionKept'
<1> DEFINE n == Len(ticks)
           same == n # 0 /\ ticks[n].session = tick.session
           T == SessionTicks(ticks)
           S == SessionTicks(ticks')
           of == IF n = 0 THEN {} ELSE {ticks[n].session}
<1>1. /\ ticks \in Seq(Tick)
      /\ vwap.of = of /\ last_session = of
      /\ vwap.volume = SumFunctionOnSet(Volumes(ticks), T)
      /\ vwap.tp_volume = SumFunctionOnSet(Turnovers(ticks), T)
      /\ price_history \in Seq(Nat)
      /\ Len(price_history) = Min({PriceWindow, Cardinality(T)})
  BY DEF MarketInv, SessionKept
<1>2. /\ n \in Nat /\ Len(ticks') = n + 1 /\ ticks'[n + 1] = tick
      /\ DOMAIN ticks' = 1..n + 1 /\ DOMAIN ticks = 1..n
      /\ \A i \in 1..n : ticks'[i] = ticks[i] /\ ticks[i] \in Tick
  BY <1>1, OneMore
<1>3. tick.price \in Nat /\ tick.volume \in Nat
  BY DEF Tick
<1>4. /\ n + 1 \in 1..n + 1 /\ \A i \in 1..n : i \in 1..n + 1
  BY <1>2
<1>5. tick.session \in vwap.of <=> same
  BY <1>1
<1>6. last_session = {session} <=> same
  BY <1>1
<1>7. vwap'.of = {tick.session} /\ last_session' = {tick.session}
  BY DEF VwapUpdate
<1>8. /\ vwap'.volume = (IF same THEN SumFunctionOnSet(Volumes(ticks), T) ELSE 0) + tick.volume
      /\ vwap'.tp_volume = (IF same THEN SumFunctionOnSet(Turnovers(ticks), T) ELSE 0)
                           + tick.price * tick.volume
  BY <1>1, <1>5 DEF VwapUpdate
<1>9. vwap'.volume = SumFunctionOnSet(Volumes(ticks'), S)
  <2> DEFINE f == Volumes(ticks)
             g == Volumes(ticks')
  <2>1. (\A i \in 1..n : f[i] \in Nat /\ g[i] = f[i]) /\ g[n + 1] = tick.volume
    <3>1. \A i \in 1..n : ticks[i].volume \in Nat
      BY <1>2 DEF Tick
    <3> QED
      BY <1>2, <1>4, <3>1 DEF Volumes
  <2>2. g[n + 1] \in Nat
    BY <1>3, <2>1
  <2> HIDE DEF f, g
  <2>3. SumFunctionOnSet(g, SessionTicks(Append(ticks, tick))) =
          (IF Len(ticks) # 0 /\ ticks[Len(ticks)].session = tick.session
           THEN SumFunctionOnSet(f, SessionTicks(ticks)) ELSE 0) + g[Len(ticks) + 1]
    <3>1. /\ \A i \in 1..Len(ticks) : f[i] \in Nat /\ g[i] = f[i]
          /\ g[Len(ticks) + 1] \in Nat /\ ticks \in Seq(Tick) /\ tick \in Tick
      BY <1>1, <2>1, <2>2
    <3> HIDE DEF n, same, T, S
    <3> QED
      BY <3>1, SessionSum
  <2> QED
    BY <1>8, <2>1, <2>3 DEF f, g
<1>10. vwap'.tp_volume = SumFunctionOnSet(Turnovers(ticks'), S)
  <2> DEFINE f == Turnovers(ticks)
             g == Turnovers(ticks')
  <2>1. (\A i \in 1..n : f[i] \in Nat /\ g[i] = f[i]) /\ g[n + 1] = tick.price * tick.volume
    <3>1. \A i \in 1..n : ticks[i].price \in Nat /\ ticks[i].volume \in Nat
      BY <1>2 DEF Tick
    <3>2. \A i \in 1..n : ticks[i].price * ticks[i].volume \in Nat
      BY <3>1
    <3> QED
      BY <1>2, <1>4, <3>2 DEF Turnovers
  <2>2. g[n + 1] \in Nat
    BY <1>3, <2>1
  <2> HIDE DEF f, g
  <2>3. SumFunctionOnSet(g, SessionTicks(Append(ticks, tick))) =
          (IF Len(ticks) # 0 /\ ticks[Len(ticks)].session = tick.session
           THEN SumFunctionOnSet(f, SessionTicks(ticks)) ELSE 0) + g[Len(ticks) + 1]
    <3>1. /\ \A i \in 1..Len(ticks) : f[i] \in Nat /\ g[i] = f[i]
          /\ g[Len(ticks) + 1] \in Nat /\ ticks \in Seq(Tick) /\ tick \in Tick
      BY <1>1, <2>1, <2>2
    <3> HIDE DEF n, same, T, S
    <3> QED
      BY <3>1, SessionSum
  <2> QED
    BY <1>8, <2>1, <2>3 DEF f, g
<1>11. /\ price_history' \in Seq(Nat)
       /\ Len(price_history') = Min({PriceWindow, Cardinality(S)})
  <2> DEFINE before == IF last_session = {session} THEN price_history ELSE <<>>
             R == IF same THEN T ELSE {}
             c == Cardinality(R)
             l == Len(before)
  <2>1. IsFiniteSet(T) /\ n + 1 \notin T /\ S = R \union {n + 1}
    BY <1>1, SessionNext
  <2>2. PriceWindow \in Nat \ {0}
    BY MarketAssumption
  <2>3. before \in Seq(Nat) /\ l = Min({PriceWindow, c})
    <3>1. CASE same
      BY <1>1, <1>6, <3>1
    <3>2. CASE ~same
      <4>1. Cardinality({}) = 0
        BY FS_EmptySet
      <4>2. Min({PriceWindow, 0}) = 0
        BY <2>2, MinOfTwo
      <4>3. before = <<>> /\ R = {}
        BY <1>6, <3>2
      <4>4. <<>> \in Seq(Nat) /\ Len(<<>>) = 0
        OBVIOUS
      <4> HIDE DEF before, R
      <4> QED
        BY <4>1, <4>2, <4>3, <4>4
    <3> QED
      BY <3>1, <3>2
  <2> HIDE DEF before, R
  <2>4. IsFiniteSet(R) /\ n + 1 \notin R
    BY <2>1, FS_EmptySet DEF R
  <2>5. c \in Nat /\ Cardinality(S) = c + 1
    <3>1. Cardinality(R \union {n + 1}) = Cardinality(R) + 1 /\ Cardinality(R) \in Nat
      BY <2>4, FS_AddElement, FS_CardinalityType
    <3> QED
      BY <2>1, <3>1
  <2>6. /\ Append(before, tick.price) \in Seq(Nat)
        /\ Len(Append(before, tick.price)) = l + 1 /\ l \in Nat
    BY <1>3, <2>3, AppendProperties, LenProperties
  <2> DEFINE more == Append(before, tick.price)
             r == Newest(more, PriceWindow)
  <2>7. r \in Seq(Nat) /\ Len(r) = IF Len(more) > PriceWindow THEN PriceWindow ELSE Len(more)
    BY <2>2, <2>6, NewestOf
  <2>8. price_history' = r
    BY DEF before
  <2>9. Len(r) = IF l + 1 > PriceWindow THEN PriceWindow ELSE l + 1
    BY <2>6, <2>7, Zenon
  <2> DEFINE k == Len(r)
  <2>10. k = IF l + 1 > PriceWindow THEN PriceWindow ELSE l + 1
    BY <2>9
  <2> HIDE DEF c, l, k, r
  <2>11. l = IF PriceWindow <= c THEN PriceWindow ELSE c
    BY <2>2, <2>3, <2>5, MinOfTwo
  <2>12. Min({PriceWindow, c + 1}) = IF PriceWindow <= c + 1 THEN PriceWindow ELSE c + 1
    BY <2>2, <2>5, MinOfTwo
  <2>13. k = IF PriceWindow <= c + 1 THEN PriceWindow ELSE c + 1
    BY <2>2, <2>5, <2>6, <2>10, <2>11
  <2> QED
    BY <2>5, <2>7, <2>8, <2>12, <2>13 DEF k
<1>12. n + 1 # 0
  BY <1>2
<1> QED
  BY <1>2, <1>7, <1>9, <1>10, <1>11, <1>12 DEF SessionKept

(* A completed bar is counted for the average of ranges.                   *)
LEMMA RangesStep ==
  ASSUME MarketInv, NEW tick \in Tick, Aggregate(tick),
         atr' = [tf \in {"M1", "M5"} |-> IF tf \in Completed(tick) THEN AtrUpdate(atr[tf]) ELSE atr[tf]]
  PROVE  RangesKept'
<1> SUFFICES ASSUME NEW tf \in {"M1", "M5"}, ~atr'[tf].initialised
             PROVE  /\ atr'[tf].ranges \in Nat /\ Len(buffers'[tf]) <= atr'[tf].ranges
                    /\ atr'[tf].ranges < Period
  BY DEF RangesKept
<1> DEFINE a == atr[tf]
           b == atr'[tf]
           l == Len(buffers[tf])
           m == Len(buffers'[tf])
<1>1. b = IF tf \in Completed(tick) THEN AtrUpdate(a) ELSE a
  OBVIOUS
<1>2. a.initialised \/ (a.ranges \in Nat /\ l <= a.ranges /\ a.ranges < Period)
  BY DEF MarketInv, RangesKept
<1>3. /\ l \in Nat /\ m \in Nat
      /\ IF tf \in Completed(tick) THEN m <= l + 1 ELSE m = l
  BY BarsNext DEF Timeframes
<1>4. ~b.initialised
  OBVIOUS
<1>5. Period \in Nat
  BY MarketAssumption
<1> HIDE DEF a, b, l, m
<1>6. CASE tf \in Completed(tick)
  <2>1. ~a.initialised /\ b.ranges = a.ranges + 1 /\ ~(a.ranges + 1 = Period)
    BY <1>1, <1>4, <1>6 DEF AtrUpdate
  <2>2. b.ranges \in Nat /\ m <= b.ranges /\ b.ranges < Period
    BY <1>2, <1>3, <1>5, <1>6, <2>1
  <2> QED
    BY <2>2 DEF b, m
<1>7. CASE tf \notin Completed(tick)
  <2>1. b = a /\ m = l
    BY <1>1, <1>3, <1>7
  <2>2. b.ranges \in Nat /\ m <= b.ranges /\ b.ranges < Period
    BY <1>2, <1>4, <2>1
  <2> QED
    BY <2>2 DEF b, m
<1> QED
  BY <1>6, <1>7

(* A tick keeps the invariant, whatever it completes.                      *)
LEMMA TickKept == MarketInv /\ TickArrives => MarketInv'
<1> SUFFICES ASSUME MarketInv, NEW ts \in Timestamps, NEW quote \in Quotes, on_tick(ts, quote)
             PROVE  MarketInv'
  BY DEF TickArrives
<1> DEFINE tick == TickOf(ts, quote)
<1>1. tick \in Tick /\ tick.session = session /\ session \in Sessions
  BY TickTyped DEF TickOf, MarketInv
<1>2. /\ Aggregate(tick)
      /\ vwap' = VwapUpdate(tick) /\ last_session' = {session}
      /\ price_history' = Newest(Append(IF last_session = {session} THEN price_history ELSE <<>>,
                                        tick.price), PriceWindow)
      /\ cvd' = IF "M1" \in Completed(tick) THEN on_bar_close(session) ELSE cvd
      /\ atr' = [tf \in {"M1", "M5"} |->
                   IF tf \in Completed(tick) THEN AtrUpdate(atr[tf]) ELSE atr[tf]]
      /\ offered' = IF Warm THEN <<Assembled(tick)>> ELSE <<>>
      /\ ticks' = Append(ticks, tick)
      /\ session' = session
  BY DEF on_tick, TickOf
<1> HIDE DEF tick
<1>3. ticks' \in Seq(Tick)
  BY <1>1, <1>2, AppendProperties DEF MarketInv
<1>4. /\ \A tf \in Timeframes : Cut(ticks', buffers'[tf], open_bars'[tf], tf)
      /\ \A tf \in Timeframes : Len(buffers'[tf]) \in Nat
  BY <1>1, <1>2, BarsNext
<1>5. SessionKept'
  BY <1>1, <1>2, SessionStep
<1>6. RangesKept'
  BY <1>1, <1>2, RangesStep
<1>7. Averages(cvd')
  <2>1. Averages(cvd)
    BY DEF MarketInv
  <2> QED
    BY <1>1, <1>2, <2>1, AveragesNext
<1>8. SnapshotSound'
  <2>1. CASE ~Warm
    BY <1>2, <2>1 DEF SnapshotSound
  <2>2. CASE Warm
    <3> DEFINE s == Assembled(tick)
               h == cvd'.buffer
    <3>1. offered' = <<s>>
      BY <1>2, <2>2
    <3>2. /\ s.m1 = Newest(buffers'["M1"], 1) /\ s.m3 = Newest(buffers'["M3"], 1)
          /\ s.m5 = Newest(buffers'["M5"], 1) /\ s.cvd_history = h /\ s.vwap = vwap'
          /\ s.atr_1m = atr'["M1"].initialised /\ s.atr_5m = atr'["M5"].initialised
      BY DEF Assembled, Latest
    <3>3. /\ WarmM1 \in Nat \ {0} /\ WarmM5 \in Nat /\ WarmM5 > 1 /\ Period \in Nat
          /\ Period <= WarmM1 /\ Period <= WarmM5
      BY MarketAssumption
    <3>4. /\ Len(buffers'["M1"]) >= WarmM1 /\ Len(buffers'["M5"]) >= WarmM5
          /\ Len(buffers'["M1"]) \in Nat /\ Len(buffers'["M5"]) \in Nat
      BY <1>4, <2>2 DEF Warm, Timeframes
    <3>5. buffers'["M1"] # <<>> /\ buffers'["M5"] # <<>>
      BY <3>3, <3>4
    <3>6. buffers'["M3"] # <<>>
      <4>1. Len(buffers'["M5"]) > 1
        BY <3>3, <3>4
      <4>2. /\ Cut(ticks', buffers'["M3"], open_bars'["M3"], "M3")
            /\ Cut(ticks', buffers'["M5"], open_bars'["M5"], "M5")
        BY <1>4 DEF Timeframes
      <4> QED
        BY <1>3, <4>1, <4>2, ThirdTimeframe
    <3>7. \A tf \in Timeframes : buffers'[tf] # <<>> => Newest(buffers'[tf], 1) # <<>>
      <4> SUFFICES ASSUME NEW tf \in Timeframes, buffers'[tf] # <<>>
                   PROVE  Newest(buffers'[tf], 1) # <<>>
        OBVIOUS
      <4>1. buffers'[tf] \in Seq(Bar) /\ 1 \in Nat \ {0}
        BY <1>4 DEF Cut
      <4>2. Len(buffers'[tf]) # 0
        BY <4>1, EmptySeq
      <4>3. Len(Newest(buffers'[tf], 1)) = IF Len(buffers'[tf]) > 1 THEN 1 ELSE Len(buffers'[tf])
        BY <4>1, NewestOf
      <4>4. Len(Newest(buffers'[tf], 1)) # 0
        BY <4>2, <4>3
      <4> QED
        BY <4>4
    <3>8. s.m1 # <<>> /\ s.m3 # <<>> /\ s.m5 # <<>>
      BY <3>2, <3>5, <3>6, <3>7 DEF Timeframes
    <3>9. s.atr_1m /\ s.atr_5m
      <4> DEFINE a == atr'["M1"]
                 b == atr'["M5"]
                 l == Len(buffers'["M1"])
                 m == Len(buffers'["M5"])
      <4>1. /\ a.initialised \/ (a.ranges \in Nat /\ l <= a.ranges /\ a.ranges < Period)
            /\ b.initialised \/ (b.ranges \in Nat /\ m <= b.ranges /\ b.ranges < Period)
        BY <1>6 DEF RangesKept
      <4>2. l \in Nat /\ m \in Nat /\ l >= WarmM1 /\ m >= WarmM5
        BY <3>4
      <4> HIDE DEF a, b, l, m
      <4>3. a.initialised /\ b.initialised
        BY <3>3, <4>1, <4>2
      <4> QED
        BY <3>2, <4>3 DEF a, b
    <3>10. /\ s.vwap.volume = SumFunctionOnSet(Volumes(ticks'), SessionTicks(ticks'))
           /\ s.vwap.tp_volume = SumFunctionOnSet(Turnovers(ticks'), SessionTicks(ticks'))
           /\ Len(price_history') = Min({PriceWindow, Cardinality(SessionTicks(ticks'))})
      BY <1>5, <3>2 DEF SessionKept
    <3>11. /\ \A k \in 1..Len(h) - 1 : Marker \in {h[k], h[k + 1]} \/ h[k] = h[k + 1]
           /\ Len(cvd'.smoothed) = Len(h)
           /\ \A k \in DOMAIN h : cvd'.smoothed[k] = {h[k]} \ {Marker}
      <4>1. Pure(h, cvd'.smoothed)
        BY <1>7 DEF Averages
      <4>2. DOMAIN h = 1..Len(h)
        BY <4>1, LenProperties DEF Pure
      <4> QED
        BY <4>1, <4>2 DEF Pure
    <3>12. s.cvd_history = h
      BY <3>2
    <3> HIDE DEF s, h
    <3>13. DOMAIN offered' = {1} /\ offered'[1] = s
      BY <3>1
    <3>14. \A i \in DOMAIN offered' : offered'[i] = s
      BY <3>13
    <3> QED
      BY <3>8, <3>9, <3>10, <3>11, <3>12, <3>14, Zenon DEF SnapshotSound
  <2> QED
    BY <2>1, <2>2
<1> QED
  BY <1>1, <1>2, <1>3, <1>4, <1>5, <1>6, <1>7, <1>8 DEF MarketInv

(* Every step of the builder keeps the invariant.                          *)
LEMMA MarketKept == MarketSpec => []MarketInv
<1>1. MarketInv /\ [MarketNext]_market => MarketInv'
  BY TickKept, SessionTurns DEF MarketNext
<1> QED
  BY <1>1, MarketBegins, PTL DEF MarketSpec

(* Whatever ticks arrive, late ones and after a gap, the bars of every     *)
(* timeframe, the current one included, are those of the whole history:    *)
(* in order, each period once, none missing among those the deque keeps.   *)
THEOREM AlwaysHistory == MarketSpec => []BarsAreHistory
<1>1. MarketInv => BarsAreHistory
  BY CutIsHistory DEF MarketInv, BarsAreHistory
<1> QED
  BY <1>1, MarketKept, PTL

(* What the builder offers to the classifier is complete and of the        *)
(* running session: its VWAP and price history count that session's ticks  *)
(* alone, and no CVD average mixes the values of two sessions.             *)
THEOREM AlwaysSound == MarketSpec => []SnapshotSound
<1>1. MarketInv => SnapshotSound
  BY DEF MarketInv
<1> QED
  BY <1>1, MarketKept, PTL
=============================================================================
