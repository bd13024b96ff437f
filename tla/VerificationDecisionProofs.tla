--------------------- MODULE VerificationDecisionProofs ---------------------
(***************************************************************************)
(* Theorems about the matching rule, for every embedding space, matcher    *)
(* and number of templates.                                                *)
(***************************************************************************)
EXTENDS VerificationDecision, FiniteSetTheorems, TLAPS

(* The quorum is half the templates, rounded up: with at least one         *)
(* template it is at least one and never out of reach, and with none it is *)
(* zero, which is why an empty bundle must be refused before counting.     *)
THEOREM QuorumBounds ==
  /\ template_quorum_required(0) = 0
  /\ \A n \in Nat \ {0} :
       /\ template_quorum_required(n) \in 1 .. n
       /\ 2 * template_quorum_required(n) \in {n, n + 1}
<1>1. ASSUME NEW n \in Nat \ {0}
      PROVE  2 * ((n + 1) \div 2) \in {n, n + 1}
  OBVIOUS
<1>2. ASSUME NEW n \in Nat \ {0}
      PROVE  (n + 1) \div 2 \in 1 .. n
  BY <1>1
<1>3. (0 + 1) \div 2 = 0
  OBVIOUS
<1> QED
  BY <1>1, <1>2, <1>3 DEF template_quorum_required

LEMMA PassesFinite ==
  ASSUME NEW p, NEW templates \in Seq(Embedding)
  PROVE  /\ IsFiniteSet({i \in DOMAIN templates : <<p, templates[i]>> \in Match})
         /\ PassCount(p, templates) \in Nat
<1>1. DOMAIN templates = 1 .. Len(templates) /\ Len(templates) \in Nat
  OBVIOUS
<1>2. IsFiniteSet(1 .. Len(templates))
  BY <1>1, FS_Interval
<1>3. IsFiniteSet({i \in DOMAIN templates : <<p, templates[i]>> \in Match})
  BY <1>1, <1>2, FS_Subset
<1> QED
  BY <1>3, FS_CardinalityType DEF PassCount

(* One more template adds one vote or none.                                *)
LEMMA PassCountAppend ==
  ASSUME NEW p, NEW templates \in Seq(Embedding), NEW t \in Embedding
  PROVE  PassCount(p, Append(templates, t))
           = PassCount(p, templates) + (IF <<p, t>> \in Match THEN 1 ELSE 0)
<1> DEFINE n == Len(templates)
           longer == Append(templates, t)
           passes == {i \in DOMAIN templates : <<p, templates[i]>> \in Match}
           passesLonger == {i \in DOMAIN longer : <<p, longer[i]>> \in Match}
<1>1. /\ n \in Nat
      /\ DOMAIN templates = 1 .. n
      /\ DOMAIN longer = 1 .. n + 1
      /\ longer[n + 1] = t
      /\ \A i \in 1 .. n : longer[i] = templates[i]
  OBVIOUS
<1>2. passesLonger = IF <<p, t>> \in Match THEN passes \cup {n + 1} ELSE passes
  BY <1>1
<1>3. n + 1 \notin passes
  BY <1>1
<1>4. IsFiniteSet(passes) /\ Cardinality(passes) \in Nat
  BY PassesFinite DEF PassCount
<1>5. Cardinality(passes \cup {n + 1}) = Cardinality(passes) + 1
  BY <1>3, <1>4, FS_AddElement
<1>6. Cardinality(passesLonger)
        = Cardinality(passes) + (IF <<p, t>> \in Match THEN 1 ELSE 0)
  <2> HIDE DEF passes, passesLonger, n
  <2>1. CASE <<p, t>> \in Match
    BY <1>2, <1>5, <2>1
  <2>2. CASE <<p, t>> \notin Match
    BY <1>2, <1>4, <2>2
  <2> QED
    BY <2>1, <2>2
<1> QED
  BY <1>6 DEF PassCount

(* add_template can lock out a face that was accepted only when the number *)
(* of templates was even (the quorum then rises by one) and the new        *)
(* template is not one the face matches.                                   *)
THEOREM AddTemplateKeepsAccept ==
  ASSUME NEW p, NEW templates \in Seq(Embedding), NEW t \in Embedding,
         evaluate_probe_vs_templates(p, templates),
         Len(templates) % 2 = 1 \/ <<p, t>> \in Match
  PROVE  evaluate_probe_vs_templates(p, Append(templates, t))
<1> DEFINE n == Len(templates)
<1>1. /\ n \in Nat
      /\ Append(templates, t) \in Seq(Embedding)
      /\ Len(Append(templates, t)) = n + 1
      /\ Append(templates, t) # <<>>
  <2>1. n \in Nat
    OBVIOUS
  <2>2. Append(templates, t) \in Seq(Embedding)
    OBVIOUS
  <2>3. Len(Append(templates, t)) = n + 1
    OBVIOUS
  <2>4. Len(<<>>) = 0
    OBVIOUS
  <2> QED
    BY <2>1, <2>2, <2>3, <2>4
<1>2. PassCount(p, templates) \in Nat
  BY PassesFinite
<1>3. PassCount(p, templates) >= (n + 1) \div 2
  BY DEF evaluate_probe_vs_templates, template_quorum_required
<1>4. CASE <<p, t>> \in Match
  <2>1. PassCount(p, Append(templates, t)) = PassCount(p, templates) + 1
    BY <1>4, PassCountAppend
  <2>2. (n + 2) \div 2 <= (n + 1) \div 2 + 1
    BY <1>1
  <2>3. PassCount(p, Append(templates, t)) >= (n + 2) \div 2
    BY <1>1, <1>2, <1>3, <2>1, <2>2
  <2> QED
    BY <1>1, <2>3 DEF evaluate_probe_vs_templates, template_quorum_required
<1>5. CASE n % 2 = 1
  <2>1. PassCount(p, Append(templates, t)) >= PassCount(p, templates)
    BY <1>2, PassCountAppend
  <2>2. (n + 2) \div 2 = (n + 1) \div 2
    BY <1>1, <1>5
  <2>3. PassCount(p, Append(templates, t)) \in Nat
    BY PassesFinite, <1>1
  <2>4. PassCount(p, Append(templates, t)) >= (n + 2) \div 2
    BY <1>1, <1>2, <1>3, <2>1, <2>2, <2>3
  <2> QED
    BY <1>1, <2>4 DEF evaluate_probe_vs_templates, template_quorum_required
<1> QED
  BY <1>4, <1>5

(* Judging a burst frame by frame and stopping at the first accept decides *)
(* as judging the whole burst does: whatever frames follow an accepted     *)
(* burst, the longer burst is accepted too.                                *)
THEOREM EarlyAcceptAgrees ==
  ASSUME NEW templates, NEW burst \in Seq(Probe), NEW rest \in Seq(Probe),
         verify_burst(templates, burst)
  PROVE  verify_burst(templates, burst \o rest)
<1>1. PICK i \in DOMAIN burst : evaluate_probe_vs_templates(burst[i], templates)
  BY DEF verify_burst
<1>2. i \in DOMAIN (burst \o rest) /\ (burst \o rest)[i] = burst[i]
  OBVIOUS
<1> QED
  BY <1>1, <1>2 DEF verify_burst

===============================================================================
