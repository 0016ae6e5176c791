------------------------ MODULE SessionConfig_proofs ------------------------
(***************************************************************************)
(* Theorems about where a session gets its addresses and routes from       *)
(* (SessionConfig), for reports made from any children, with any number of *)
(* them and any bound on the routes, and documents of any elements.        *)
(***************************************************************************)
EXTENDS SessionConfig, SequenceTheorems, FiniteSetTheorems, TLAPS

-----------------------------------------------------------------------------
(* The invariant of the walk over the report of the daemon, in parts.      *)

InfoTypeOK ==
    /\ pc \in {"message", "vips", "child", "remote", "done"}
    /\ verdict \in {"none", "ok", "error"}
    /\ verdict # "none" <=> pc = "done"
    /\ vips \in Seq(Vip)
    /\ children \in Seq(Children)
    /\ ipv4 \in Address4 \cup {None} /\ ipv6 \in Address6 \cup {None}
    /\ routes4 \in Seq(Remote) /\ routes6 \in Seq(Remote)
    /\ selector \in {0, 1} /\ at \in Nat \ {0} /\ remote \in Nat \ {0}

\* The address kept for a family is the only one of it.
AddressInv ==
    pc # "done" =>
        /\ pc # "message" => peer = "requested"
        /\ pc = "message" => peer = "unread" /\ vips = <<>>
        /\ "malformed" \notin Range(vips)
        /\ \A k \in {0, 1} :
              IF LocalOf(k) = None THEN \A q \in DOMAIN vips : vips[q] \notin AddressesOf(k)
              ELSE \E p \in DOMAIN vips : IsOnly(p, k) /\ vips[p] = LocalOf(k)

\* No child before the one looked at stands for the selector; the one that stands
\* for the selector before has been found to be right, and all of its routes taken.
SearchInv ==
    pc \in {"child", "remote"} =>
        /\ ~FamiliesRefused
        /\ selector = 1 => dual
        /\ \A j \in 1..(at - 1) : children[j].index # selector \/ ~children[j].installed
        /\ selector = 1 =>
              /\ \E i \in DOMAIN children : Stands(i, 0) /\ Fits(children[i])
              /\ Range(routes4) = Negotiated(0)
        /\ pc = "remote" =>
              /\ at \in DOMAIN children
              /\ children[at].index = selector /\ children[at].installed
              /\ Fits(children[at])

\* The routes are those of the remote selectors seen so far, once each.
RouteInv ==
    /\ pc \in {"message", "vips"} => routes4 = <<>> /\ routes6 = <<>> /\ selector = 0 /\ at = 1
    /\ pc \in {"child", "remote"} =>
          /\ IsInjective(routes4) /\ IsInjective(routes6)
          /\ Range(routes4) \subseteq Route4 \ Forbidden
          /\ Range(routes6) \subseteq Route6 \ Forbidden
          /\ Len(routes4) + Len(routes6) <= MaxNegotiatedRoutes
          /\ selector = 0 => routes6 = <<>>
          /\ pc = "child" => (IF selector = 0 THEN routes4 ELSE routes6) = <<>>
          /\ pc = "remote" =>
                /\ remote <= Len(children[at].remotes) + 1
                /\ Range(IF selector = 0 THEN routes4 ELSE routes6)
                       = {children[at].remotes[r] : r \in 1..(remote - 1)}

\* What becomes of the routes and the addresses.
VerdictInv ==
    verdict = "ok" => ipv4 # None /\ (routes6 # <<>> => ipv6 # None)

InfoInv ==
    InfoTypeOK /\ AddressInv /\ SearchInv /\ RouteInv /\ VerdictInv /\ InfoIsReference

-----------------------------------------------------------------------------
(* Sequences                                                               *)

LEMMA RangeOfEmpty == Range(<<>>) = {} /\ IsInjective(<<>>)
<1>1. <<>> \in Seq({}) /\ Len(<<>>) = 0 /\ DOMAIN <<>> = {}
  OBVIOUS
<1> QED
  BY <1>1 DEF Range, IsInjective

LEMMA RangeOfAppend ==
  ASSUME NEW S, NEW s \in Seq(S), NEW e \in S
  PROVE  Range(Append(s, e)) = Range(s) \cup {e}
<1> DEFINE t == Append(s, e)
<1>1. /\ t \in Seq(S) /\ Len(t) = Len(s) + 1 /\ t[Len(s) + 1] = e
      /\ \A i \in 1..Len(s) : t[i] = s[i]
  BY AppendProperties
<1>2. Len(s) \in Nat /\ DOMAIN s = 1..Len(s) /\ DOMAIN t = 1..(Len(s) + 1)
  BY <1>1, LenProperties
<1>3. 1..(Len(s) + 1) = (1..Len(s)) \cup {Len(s) + 1}
  BY <1>2
<1> HIDE DEF t
<1> QED
  BY <1>1, <1>2, <1>3 DEF Range, t

LEMMA InjectiveAppend ==
  ASSUME NEW S, NEW s \in Seq(S), NEW e \in S, IsInjective(s), e \notin Range(s)
  PROVE  IsInjective(Append(s, e))
<1> DEFINE t == Append(s, e)
<1>1. /\ t \in Seq(S) /\ Len(t) = Len(s) + 1 /\ t[Len(s) + 1] = e
      /\ \A i \in 1..Len(s) : t[i] = s[i]
  BY AppendProperties
<1>2. Len(s) \in Nat /\ DOMAIN s = 1..Len(s) /\ DOMAIN t = 1..(Len(s) + 1)
  BY <1>1, LenProperties
<1> HIDE DEF t
<1>3. \A i \in 1..Len(s) : s[i] # e
  BY <1>2 DEF Range
<1>4. IsInjective(t)
  BY <1>1, <1>2, <1>3 DEF IsInjective
<1> QED
  BY <1>4 DEF t

LEMMA RangeCount ==
  ASSUME NEW S, NEW s \in Seq(S), IsInjective(s)
  PROVE  IsFiniteSet(Range(s)) /\ Cardinality(Range(s)) = Len(s)
<1>1. Len(s) \in Nat /\ DOMAIN s = 1..Len(s) /\ s \in [1..Len(s) -> S]
  BY LenProperties
<1>2. s \in [1..Len(s) -> Range(s)]
  BY <1>1 DEF Range
<1>3. s \in Bijection(1..Len(s), Range(s))
  BY <1>1, <1>2 DEF Bijection, Injection, Surjection, IsInjective, Range
<1>4. ExistsBijection(1..Len(s), Range(s))
  BY <1>3 DEF ExistsBijection
<1> QED
  BY <1>1, <1>4, FS_CountingElements, FS_NatBijection

\* appendRoute adds a route once.
LEMMA AppendOnce ==
  ASSUME NEW S, NEW s \in Seq(S), NEW e \in S, IsInjective(s)
  PROVE  /\ appendRoute(s, e) \in Seq(S)
         /\ IsInjective(appendRoute(s, e))
         /\ Range(appendRoute(s, e)) = Range(s) \cup {e}
<1>1. CASE e \in Range(s)
  BY <1>1 DEF appendRoute
<1>2. CASE e \notin Range(s)
  <2>1. appendRoute(s, e) = Append(s, e)
    BY <1>2 DEF appendRoute
  <2> QED
    BY <1>2, <2>1, AppendProperties, RangeOfAppend, InjectiveAppend
<1> QED
  BY <1>1, <1>2

\* The routes of two families are counted together.
LEMMA TwoRanges ==
  ASSUME NEW S, NEW s \in Seq(S), NEW t \in Seq(S), IsInjective(s), IsInjective(t),
         Range(s) \cap Range(t) = {}
  PROVE  /\ IsFiniteSet(Range(s) \cup Range(t))
         /\ Cardinality(Range(s) \cup Range(t)) = Len(s) + Len(t)
<1>1. /\ IsFiniteSet(Range(s)) /\ Cardinality(Range(s)) = Len(s)
      /\ IsFiniteSet(Range(t)) /\ Cardinality(Range(t)) = Len(t)
  BY RangeCount
<1>2. Cardinality(Range(s) \cap Range(t)) = 0 /\ Len(s) \in Nat /\ Len(t) \in Nat
  BY FS_EmptySet, LenProperties
<1> DEFINE a == Range(s)
           b == Range(t)
<1>3. /\ IsFiniteSet(a \cup b)
      /\ Cardinality(a \cup b) = Cardinality(a) + Cardinality(b) - Cardinality(a \cap b)
  <2> HIDE DEF a, b
  <2>1. IsFiniteSet(a) /\ IsFiniteSet(b)
    BY <1>1 DEF a, b
  <2> QED
    BY <2>1, FS_Union
<1> QED
  BY <1>1, <1>2, <1>3

-----------------------------------------------------------------------------
(* The report                                                              *)

LEMMA ChildTypes ==
  ASSUME children \in Seq(Children), NEW i \in DOMAIN children
  PROVE  /\ DOMAIN children = 1..Len(children) /\ Len(children) \in Nat
         /\ children[i] \in ChildSA
         /\ children[i].index \in {0, 1}
         /\ children[i].remotes \in Seq(Remote)
<1>1. Len(children) \in Nat /\ DOMAIN children = 1..Len(children)
  BY LenProperties
<1>2. children[i] \in Children
  BY <1>1, ElementOfSeq
<1>3. children[i] \in ChildSA
  BY <1>2, NegotiatedAssumption
<1> QED
  BY <1>1, <1>3 DEF ChildSA

LEMMA OneStands ==
  ASSUME children \in Seq(Children), NEW k, NEW i \in DOMAIN children, Stands(i, k)
  PROVE  /\ \A j \in DOMAIN children : Stands(j, k) => j = i
         /\ Negotiated(k) = Range(children[i].remotes)
<1>1. DOMAIN children = 1..Len(children) /\ Len(children) \in Nat
  BY ChildTypes
<1>2. \A j \in DOMAIN children : Stands(j, k) => j = i
  BY <1>1 DEF Stands
<1>3. {j \in DOMAIN children : Stands(j, k)} = {i}
  BY <1>2
<1> QED
  BY <1>2, <1>3 DEF Negotiated

\* The definition depends on the report alone.
LEMMA SameReport ==
  ASSUME UNCHANGED <<options, report>>
  PROVE  /\ Acceptable' <=> Acceptable
         /\ Forbidden' = Forbidden
         /\ \A k : Negotiated(k)' = Negotiated(k)
         /\ \A k : \A i : Stands(i, k)' <=> Stands(i, k)
<1>1. UNCHANGED <<dual, tcp, peer, vips, children>>
  BY DEF options, report
<1>2. Forbidden' = Forbidden /\ Selectors' = Selectors
  BY <1>1 DEF Forbidden, Selectors
<1>3. \A k : \A i : Stands(i, k)' <=> Stands(i, k)
  BY <1>1 DEF Stands
<1>4. \A k : Negotiated(k)' = Negotiated(k)
  BY <1>1, <1>3 DEF Negotiated
<1>5. \A k : \A p : IsOnly(p, k)' <=> IsOnly(p, k)
  BY <1>1 DEF IsOnly
<1>6. Acceptable' <=> Acceptable
  BY <1>1, <1>2, <1>3, <1>4, <1>5 DEF Acceptable
<1> QED
  BY <1>2, <1>3, <1>4, <1>6

LEMMA RouteFamilies ==
  /\ Route4 \cap Route6 = {} /\ Route4 \subseteq Remote /\ Route6 \subseteq Remote
  /\ Address4 \cap Address6 = {} /\ "malformed" \notin Address4 \cup Address6
  /\ Address4 \subseteq Vip /\ Address6 \subseteq Vip
  /\ None \notin Vip
BY DEF Route4, Route6, Remote, Address4, Address6, Vip, None

-----------------------------------------------------------------------------
(* Type correctness                                                        *)

\* The children that are reported, and the routes that are added, are of the kinds
\* that the walk expects.
LEMMA InfoTypeNext ==
  ASSUME InfoTypeOK, SearchInv, InfoNext
  PROVE  InfoTypeOK'
<1> USE DEF InfoTypeOK, options, report, cfg, place, Done, Reject
<1>1. CASE Message
  BY <1>1 DEF Message
<1>2. ASSUME NEW vip \in Vip, ReadVip(vip)
      PROVE  InfoTypeOK'
  <2>1. vips' \in Seq(Vip)
    BY <1>2, AppendProperties DEF ReadVip
  <2> QED
    BY <1>2, <2>1 DEF ReadVip
<1>3. CASE EndVips
  <2>1. children' \in Seq(Children)
    <3>1. PICK n \in 0..MaxChildren : children' \in [1..n -> Children]
      BY <1>3 DEF EndVips
    <3>2. n \in Nat
      BY NegotiatedAssumption
    <3> QED
      BY <3>1, <3>2, SeqDef
  <2> QED
    BY <1>3, <2>1 DEF EndVips
<1>4. CASE LookAtChild
  BY <1>4 DEF LookAtChild
<1>5. CASE LookAtRemote
  <2> DEFINE p == children[at].remotes[remote]
  <2>1. at \in DOMAIN children
    BY <1>5 DEF LookAtRemote, SearchInv
  <2>2. children[at].remotes \in Seq(Remote)
    BY <2>1, ChildTypes
  <2>3. p \in Remote
    <3>1. remote \in 1..Len(children[at].remotes)
      BY <1>5, <2>2, LenProperties DEF LookAtRemote
    <3> QED
      BY <2>2, <3>1, ElementOfSeq
  <2> HIDE DEF p
  <2>4. /\ appendRoute(routes4, p) \in Seq(Remote)
        /\ appendRoute(routes6, p) \in Seq(Remote)
    BY <2>3, AppendProperties DEF appendRoute
  <2>5. routes4' \in Seq(Remote) /\ routes6' \in Seq(Remote)
    BY <1>5, <2>4 DEF LookAtRemote, p
  <2>6. UNCHANGED <<vips, children, ipv4, ipv6, selector, at>>
    BY <1>5 DEF LookAtRemote
  <2>7. \/ pc' = "done" /\ verdict' = "error" /\ remote' = remote
        \/ pc' = pc /\ verdict' = verdict /\ remote' = remote + 1
    BY <1>5 DEF LookAtRemote
  <2> QED
    BY <2>5, <2>6, <2>7
<1>6. CASE EndRemotes
  BY <1>6 DEF EndRemotes
<1> QED
  BY <1>1, <1>2, <1>3, <1>4, <1>5, <1>6 DEF InfoNext

-----------------------------------------------------------------------------
(* The steps of the walk                                                   *)

\* A report that is refused leaves nothing to show but that it has to be.
LEMMA Rejected ==
  ASSUME InfoTypeOK', pc' = "done", verdict' = "error", ~Acceptable'
  PROVE  InfoInv'
<1>1. AddressInv' /\ SearchInv' /\ RouteInv' /\ VerdictInv'
  BY DEF AddressInv, SearchInv, RouteInv, VerdictInv
<1>2. InfoIsReference'
  BY DEF InfoIsReference
<1> QED
  BY <1>1, <1>2 DEF InfoInv

LEMMA OnlyPrimed ==
  ASSUME NEW k, NEW p
  PROVE  IsOnly(p, k)' <=>
             /\ vips'[p] \in AddressesOf(k)
             /\ \A q \in DOMAIN vips' : vips'[q] \in AddressesOf(k) => q = p
BY DEF IsOnly, AddressesOf

LEMMA MessageStep ==
  ASSUME InfoInv, Message, InfoTypeOK'
  PROVE  InfoInv'
<1> USE DEF options, report, cfg, place, Done, Reject
<1>0. pc = "message" /\ verdict = "none" /\ peer = "unread" /\ UNCHANGED <<vips, children>>
  BY DEF InfoInv, InfoTypeOK, AddressInv, Message
<1>1. CASE pc' = "done"
  <2>1. verdict' = "error" /\ peer' # "requested"
    BY <1>0, <1>1 DEF Message
  <2> QED
    BY <1>1, <2>1, Rejected DEF Acceptable
<1>2. CASE pc' # "done"
  <2>1. /\ pc' = "vips" /\ peer' = "requested"
        /\ UNCHANGED <<dual, tcp, vips, children, ipv4, ipv6, routes4, routes6,
                       selector, at, remote, verdict>>
    BY <1>2 DEF Message
  <2>2. AddressInv'
    BY <1>0, <2>1 DEF InfoInv, AddressInv, LocalOf, IsOnly
  <2>3. SearchInv' /\ RouteInv' /\ VerdictInv' /\ InfoIsReference'
    BY <1>0, <2>1 DEF InfoInv, SearchInv, RouteInv, VerdictInv, InfoIsReference
  <2> QED
    BY <2>2, <2>3 DEF InfoInv
<1> QED
  BY <1>1, <1>2

LEMMA ReadVipStep ==
  ASSUME InfoInv, NEW vip \in Vip, ReadVip(vip), InfoTypeOK'
  PROVE  InfoInv'
<1> USE DEF options, report, cfg, place, Done, Reject
<1>0. /\ pc = "vips" /\ verdict = "none" /\ vips' = Append(vips, vip)
      /\ UNCHANGED <<dual, tcp, peer, children, routes4, routes6, selector, at, remote>>
  BY DEF InfoInv, InfoTypeOK, ReadVip
<1>a. PICK n \in Nat : n = Len(vips)
  BY LenProperties DEF InfoInv, InfoTypeOK
<1>1. /\ n \in Nat /\ DOMAIN vips = 1..n /\ DOMAIN vips' = 1..(n + 1)
      /\ vips'[n + 1] = vip /\ \A i \in 1..n : vips'[i] = vips[i]
      /\ Range(vips') = Range(vips) \cup {vip}
  <2>1. vips \in Seq(Vip) /\ vips' \in Seq(Vip)
    BY DEF InfoInv, InfoTypeOK
  <2>2. /\ Len(vips') = n + 1 /\ vips'[n + 1] = vip
        /\ \A i \in 1..n : vips'[i] = vips[i]
    BY <1>0, <1>a, <2>1, AppendProperties
  <2> QED
    BY <1>0, <1>a, <2>1, <2>2, LenProperties, RangeOfAppend
<1>2. \A k \in {0, 1} :
          IF LocalOf(k) = None THEN \A q \in 1..n : vips[q] \notin AddressesOf(k)
          ELSE \E p \in 1..n : IsOnly(p, k) /\ vips[p] = LocalOf(k)
  BY <1>0, <1>1 DEF InfoInv, AddressInv
\* A second address of a family is refused.
<1>3. ASSUME NEW k \in {0, 1}, vip \in AddressesOf(k), LocalOf(k) # None
      PROVE  ~Acceptable'
  <2>1. PICK p \in 1..n : vips[p] \in AddressesOf(k)
    BY <1>2, <1>3 DEF IsOnly
  <2>2. /\ p \in 1..(n + 1) /\ n + 1 \in 1..(n + 1) /\ p # n + 1
        /\ vips'[p] \in AddressesOf(k) /\ vips'[n + 1] \in AddressesOf(k)
    BY <1>1, <1>3, <2>1
  <2>3. \A q \in DOMAIN vips' : ~IsOnly(q, k)'
    BY <1>1, <2>2 DEF IsOnly, AddressesOf
  <2>4. CASE k \in Selectors'
    BY <2>3, <2>4 DEF Acceptable
  <2>5. CASE k \notin Selectors'
    <3>1. k = 1 /\ ~dual'
      BY <2>5 DEF Selectors
    <3>2. vip \in Range(vips') \cap Address6
      BY <1>1, <1>3, <3>1 DEF AddressesOf
    <3> QED
      BY <3>1, <3>2 DEF Acceptable
  <2> QED
    BY <2>4, <2>5
<1>4. CASE pc' = "done"
  <2>1. verdict' = "error"
    BY <1>0, <1>4 DEF ReadVip
  <2>2. \/ vip = "malformed"
        \/ vip \in AddressesOf(0) /\ LocalOf(0) # None
        \/ vip \in AddressesOf(1) /\ LocalOf(1) # None
    BY <1>0, <1>4 DEF ReadVip, AddressesOf, LocalOf
  <2>3. vip = "malformed" => ~Acceptable'
    BY <1>1 DEF Acceptable
  <2>4. ~Acceptable'
    BY <1>3, <2>2, <2>3
  <2> QED
    BY <1>4, <2>1, <2>4, Rejected
<1>5. CASE pc' # "done"
  <2>0. pc' = "vips" /\ verdict' = "none"
    BY <1>0, <1>5 DEF ReadVip
  <2>1. PICK k \in {0, 1} : /\ vip \in AddressesOf(k) /\ LocalOf(k) = None
                            /\ LocalOf(k)' = vip /\ LocalOf(1 - k)' = LocalOf(1 - k)
    BY <1>0, <1>5 DEF ReadVip, AddressesOf, LocalOf
  <2>2. vip \notin AddressesOf(1 - k) /\ vip # None /\ vip # "malformed"
    BY <2>1, RouteFamilies DEF AddressesOf
  <2>3. "malformed" \notin Range(vips')
    BY <1>0, <1>1, <2>2 DEF InfoInv, AddressInv
  <2>4. IsOnly(n + 1, k)'
    <3>1. \A q \in 1..n : vips[q] \notin AddressesOf(k)
      BY <1>2, <2>1
    <3>2. \A q \in 1..(n + 1) : vips'[q] \in AddressesOf(k) => q = n + 1
      BY <1>1, <3>1
    <3>3. vips'[n + 1] \in AddressesOf(k)
      BY <1>1, <2>1
    <3> QED
      BY <1>1, <3>2, <3>3, OnlyPrimed
  <2>5. IF LocalOf(1 - k)' = None THEN \A q \in 1..(n + 1) : vips'[q] \notin AddressesOf(1 - k)
        ELSE \E p \in 1..(n + 1) : IsOnly(p, 1 - k)' /\ vips'[p] = LocalOf(1 - k)'
    <3>1. 1 - k \in {0, 1} /\ vips'[n + 1] \notin AddressesOf(1 - k)
      BY <1>1, <2>2
    <3>2. CASE LocalOf(1 - k) = None
      <4>1. \A q \in 1..n : vips[q] \notin AddressesOf(1 - k)
        BY <1>2, <3>1, <3>2
      <4> QED
        BY <1>1, <2>1, <3>1, <3>2, <4>1
    <3>3. CASE LocalOf(1 - k) # None
      <4>1. PICK p \in 1..n : IsOnly(p, 1 - k) /\ vips[p] = LocalOf(1 - k)
        BY <1>2, <3>1, <3>3
      <4>2. \A q \in 1..(n + 1) : vips'[q] \in AddressesOf(1 - k) => q = p
        BY <1>1, <3>1, <4>1 DEF IsOnly
      <4>3. p \in 1..(n + 1) /\ vips'[p] = vips[p] /\ vips[p] \in AddressesOf(1 - k)
        BY <1>1, <4>1 DEF IsOnly
      <4>4. IsOnly(p, 1 - k)'
        BY <1>1, <4>2, <4>3 DEF IsOnly, AddressesOf
      <4> QED
        BY <2>1, <3>3, <4>1, <4>3, <4>4
    <3> QED
      BY <3>2, <3>3
  <2>6. \A j \in {0, 1} :
            IF LocalOf(j)' = None THEN \A q \in 1..(n + 1) : vips'[q] \notin AddressesOf(j)
            ELSE \E p \in 1..(n + 1) : IsOnly(p, j)' /\ vips'[p] = LocalOf(j)'
    <3>1. ASSUME NEW j \in {0, 1}, j = k
          PROVE  IF LocalOf(j)' = None THEN \A q \in 1..(n + 1) : vips'[q] \notin AddressesOf(j)
                 ELSE \E p \in 1..(n + 1) : IsOnly(p, j)' /\ vips'[p] = LocalOf(j)'
      <4>1. n + 1 \in 1..(n + 1) /\ vips'[n + 1] = LocalOf(k)' /\ LocalOf(k)' # None
        BY <1>1, <2>1, <2>2
      <4>2. IsOnly(n + 1, j)'
        BY <2>4, <3>1, OnlyPrimed
      <4> QED
        BY <3>1, <4>1, <4>2
    <3>2. ASSUME NEW j \in {0, 1}, j # k
          PROVE  IF LocalOf(j)' = None THEN \A q \in 1..(n + 1) : vips'[q] \notin AddressesOf(j)
                 ELSE \E p \in 1..(n + 1) : IsOnly(p, j)' /\ vips'[p] = LocalOf(j)'
      <4>1. j = 1 - k
        BY <3>2
      <4> QED
        BY <2>5, <4>1
    <3> QED
      BY <3>1, <3>2
  <2>7. AddressInv'
    <3>1. peer' = "requested"
      BY <1>0 DEF InfoInv, AddressInv
    <3>2. \A j : AddressesOf(j)' = AddressesOf(j)
      BY DEF AddressesOf
    <3> QED
      BY <1>1, <2>0, <2>3, <2>6, <3>1, <3>2 DEF AddressInv
  <2>8. SearchInv' /\ RouteInv' /\ VerdictInv' /\ InfoIsReference'
    BY <1>0, <2>0 DEF InfoInv, SearchInv, RouteInv, VerdictInv, InfoIsReference
  <2> QED
    BY <2>7, <2>8 DEF InfoInv
<1> QED
  BY <1>4, <1>5

\* No address of a family that is asked for.
LEMMA AddressMissing ==
  ASSUME AddressInv, pc # "done", NEW k \in {0, 1}, LocalOf(k) = None, k \in Selectors,
         UNCHANGED <<options, vips>>
  PROVE  ~Acceptable'
<1>1. \A q \in DOMAIN vips : vips[q] \notin AddressesOf(k)
  BY DEF AddressInv
<1>2. Selectors' = Selectors /\ vips' = vips
  BY DEF Selectors, options
<1>3. \A p \in DOMAIN vips' : ~IsOnly(p, k)'
  BY <1>1, <1>2, OnlyPrimed
<1> QED
  BY <1>2, <1>3 DEF Acceptable

LEMMA EndVipsStep ==
  ASSUME InfoInv, EndVips, InfoTypeOK'
  PROVE  InfoInv'
<1> USE DEF options, report, cfg, place, Done, Reject
<1>0. /\ pc = "vips" /\ verdict = "none"
      /\ UNCHANGED <<dual, tcp, peer, vips, ipv4, ipv6, routes4, routes6, selector, at, remote>>
  BY DEF InfoInv, InfoTypeOK, EndVips
<1>1. CASE FamiliesRefused
  <2>1. pc' = "done" /\ verdict' = "error"
    BY <1>1 DEF EndVips
  <2>2. AddressInv /\ pc # "done" /\ UNCHANGED <<options, vips>>
    BY <1>0 DEF InfoInv
  <2>3. CASE ipv4 = None
    <3>1. LocalOf(0) = None /\ 0 \in Selectors
      BY <2>3 DEF LocalOf, Selectors
    <3>2. ~Acceptable'
      BY <2>2, <3>1, AddressMissing
    <3> QED
      BY <2>1, <3>2, Rejected
  <2>4. CASE dual /\ ipv6 = None
    <3>1. LocalOf(1) = None /\ 1 \in Selectors
      BY <2>4 DEF LocalOf, Selectors
    <3>2. ~Acceptable'
      BY <2>2, <3>1, AddressMissing
    <3> QED
      BY <2>1, <3>2, Rejected
  <2>5. CASE ~dual /\ ipv6 # None
    <3>1. LocalOf(1) # None
      BY <2>5 DEF LocalOf
    <3>2. PICK p \in DOMAIN vips : IsOnly(p, 1)
      BY <1>0, <3>1 DEF InfoInv, AddressInv
    <3>3. vips[p] \in Range(vips) \cap Address6
      BY <3>2 DEF IsOnly, AddressesOf, Range
    <3>4. ~Acceptable'
      BY <1>0, <2>5, <3>3 DEF Acceptable
    <3> QED
      BY <2>1, <3>4, Rejected
  <2> QED
    BY <1>1, <2>3, <2>4, <2>5 DEF FamiliesRefused
<1>2. CASE ~FamiliesRefused
  <2>1. pc' = "child" /\ verdict' = "none"
    BY <1>0, <1>2 DEF EndVips
  <2>2. routes4 = <<>> /\ routes6 = <<>> /\ selector = 0 /\ at = 1
    BY <1>0 DEF InfoInv, RouteInv
  <2>3. AddressInv'
    BY <1>0, <2>1 DEF InfoInv, AddressInv, LocalOf, IsOnly
  <2>4. SearchInv'
    <3>1. ~FamiliesRefused'
      BY <1>0, <1>2 DEF FamiliesRefused
    <3>2. selector' = 0 /\ at' = 1 /\ 1..(1 - 1) = {}
      BY <1>0, <2>2
    <3> QED
      BY <2>1, <3>1, <3>2 DEF SearchInv
  <2>5. RouteInv'
    <3>1. /\ Range(routes4') = {} /\ Range(routes6') = {}
          /\ IsInjective(routes4') /\ IsInjective(routes6')
      BY <1>0, <2>2, RangeOfEmpty
    <3>2. Len(routes4') + Len(routes6') <= MaxNegotiatedRoutes
      BY <1>0, <2>2, NegotiatedAssumption
    <3> QED
      BY <1>0, <2>1, <2>2, <3>1, <3>2 DEF RouteInv
  <2>6. VerdictInv' /\ InfoIsReference'
    BY <2>1 DEF VerdictInv, InfoIsReference
  <2> QED
    BY <2>3, <2>4, <2>5, <2>6 DEF InfoInv
<1> QED
  BY <1>1, <1>2

\* What the search has found stands as long as the report and the addresses do.
LEMMA SameSearch ==
  ASSUME UNCHANGED <<options, report, ipv4, ipv6>>
  PROVE  /\ \A c : Fits(c)' <=> Fits(c)
         /\ \A k : LocalOf(k)' = LocalOf(k)
         /\ FamiliesRefused' <=> FamiliesRefused
         /\ AddressInv /\ pc # "done" /\ pc # "message" /\ pc' # "message" => AddressInv'
<1>1. UNCHANGED <<dual, tcp, peer, vips, children, ipv4, ipv6>>
  BY DEF options, report
<1>2. \A k : LocalOf(k)' = LocalOf(k)
  BY <1>1 DEF LocalOf
<1>3. \A c : Fits(c)' <=> Fits(c)
  BY <1>2 DEF Fits
<1>4. FamiliesRefused' <=> FamiliesRefused
  BY <1>1 DEF FamiliesRefused
<1>5. AddressInv /\ pc # "done" /\ pc # "message" /\ pc' # "message" => AddressInv'
  BY <1>1, <1>2 DEF AddressInv, IsOnly
<1> QED
  BY <1>2, <1>3, <1>4, <1>5

LEMMA SelectorAsked ==
  ASSUME InfoInv, pc \in {"child", "remote"}
  PROVE  /\ selector \in Selectors /\ selector \in {0, 1}
         /\ LocalOf(selector) # None
         /\ \E p \in DOMAIN vips : IsOnly(p, selector) /\ vips[p] = LocalOf(selector)
<1>1. selector \in {0, 1} /\ (selector = 1 => dual) /\ ~FamiliesRefused
  BY DEF InfoInv, InfoTypeOK, SearchInv
<1>2. selector \in Selectors /\ LocalOf(selector) # None
  BY <1>1 DEF Selectors, LocalOf, FamiliesRefused
<1> QED
  BY <1>1, <1>2 DEF InfoInv, AddressInv

\* The child that has been found for the first selector.
LEMMA FoundKept ==
  ASSUME SearchInv, pc \in {"child", "remote"}, selector = 1, routes4' = routes4,
         UNCHANGED <<options, report, ipv4, ipv6>>
  PROVE  /\ \E i \in DOMAIN children' : Stands(i, 0)' /\ Fits(children[i])'
         /\ Range(routes4') = Negotiated(0)'
<1>1. PICK i \in DOMAIN children : Stands(i, 0) /\ Fits(children[i])
  BY DEF SearchInv
<1>2. UNCHANGED <<children, ipv4, ipv6>>
  BY DEF report
<1>3. Stands(i, 0)'
  BY <1>1, SameReport
<1>4. Fits(children[i])'
  BY <1>1, <1>2 DEF Fits, LocalOf
<1>5. Range(routes4') = Negotiated(0)'
  BY SameReport DEF SearchInv
<1> QED
  BY <1>1, <1>2, <1>3, <1>4, <1>5

LEMMA LookAtChildStep ==
  ASSUME InfoInv, LookAtChild, InfoTypeOK'
  PROVE  InfoInv'
<1> USE DEF Done
<1>0. /\ pc = "child" /\ verdict = "none" /\ children \in Seq(Children)
      /\ at \in Nat \ {0} /\ selector \in {0, 1}
      /\ UNCHANGED <<options, report, cfg>>
  BY DEF InfoInv, InfoTypeOK, LookAtChild
<1>a. UNCHANGED <<dual, tcp, peer, vips, children, ipv4, ipv6, routes4, routes6>>
  BY <1>0 DEF options, report, cfg
<1>b. Acceptable' <=> Acceptable
  BY <1>0, SameReport
<1>c. DOMAIN children = 1..Len(children) /\ Len(children) \in Nat
  BY <1>0, LenProperties
<1>1. CASE at > Len(children)
  <2>1. pc' = "done" /\ verdict' = "error"
    BY <1>1 DEF LookAtChild
  <2>2. \A i \in DOMAIN children : ~Stands(i, selector)
    BY <1>0, <1>1, <1>c DEF InfoInv, SearchInv, Stands
  <2>3. ~Acceptable
    BY <1>0, <2>2, SelectorAsked DEF Acceptable
  <2> QED
    BY <1>b, <2>1, <2>3, Rejected
<1>2. CASE at <= Len(children)
  <2>0. at \in DOMAIN children
    BY <1>0, <1>2, <1>c
  <2>a. ~(at > Len(children))
    BY <1>0, <1>2, <1>c
  <2>1. CASE children[at].index # selector \/ ~children[at].installed
    <3>1. /\ pc' = "child" /\ verdict' = "none" /\ at' = at + 1
          /\ selector' = selector /\ remote' = remote
      BY <1>0, <2>a, <2>1 DEF LookAtChild
    <3>2. AddressInv'
      BY <1>0, <1>a, <3>1, SameSearch DEF InfoInv, options, report
    <3>3. SearchInv'
      <4>1. \A j \in 1..((at + 1) - 1) :
                children[j].index # selector \/ ~children[j].installed
        BY <1>0, <2>1 DEF InfoInv, SearchInv
      <4>2. ~FamiliesRefused' /\ (selector' = 1 => dual')
        BY <1>0, <1>a, <3>1, SameSearch DEF InfoInv, SearchInv, options, report
      <4>3. selector' = 1 =>
                /\ \E i \in DOMAIN children' : Stands(i, 0)' /\ Fits(children[i])'
                /\ Range(routes4') = Negotiated(0)'
        BY <1>0, <1>a, <3>1, FoundKept DEF InfoInv, options, report
      <4> QED
        BY <1>a, <3>1, <4>1, <4>2, <4>3 DEF SearchInv
    <3>4. RouteInv' /\ VerdictInv' /\ InfoIsReference'
      BY <1>0, <1>a, <3>1, SameReport
      DEF InfoInv, RouteInv, VerdictInv, InfoIsReference, options, report
    <3> QED
      BY <3>2, <3>3, <3>4 DEF InfoInv
  <2>2. CASE children[at].index = selector /\ children[at].installed
    <3>0. Stands(at, selector)
      BY <1>0, <2>2 DEF InfoInv, SearchInv, Stands
    <3>1. CASE ~Fits(children[at])
      <4>1. pc' = "done" /\ verdict' = "error"
        BY <2>a, <2>2, <3>1 DEF LookAtChild
      <4>2. SUFFICES ASSUME Acceptable PROVE FALSE
        BY <1>b, <4>1, Rejected
      <4>3. PICK i \in DOMAIN children, p \in DOMAIN vips :
                /\ Stands(i, selector) /\ children[i].natt
                /\ children[i].locals = <<vips[p]>> /\ IsOnly(p, selector)
        BY <1>0, <4>2, SelectorAsked DEF Acceptable
      <4>4. i = at
        BY <1>0, <2>0, <3>0, <4>3, OneStands
      <4>5. vips[p] = LocalOf(selector)
        BY <1>0, <4>3, SelectorAsked DEF IsOnly
      <4>6. Negotiated(selector) = Range(children[at].remotes)
        BY <1>0, <2>0, <3>0, OneStands
      <4>7. Negotiated(selector) # {}
        BY <1>0, <4>2, SelectorAsked DEF Acceptable
      <4>8. children[at].remotes # <<>>
        BY <4>6, <4>7, RangeOfEmpty
      <4> QED
        BY <2>2, <3>1, <4>3, <4>4, <4>5, <4>8 DEF Fits
    <3>2. CASE Fits(children[at])
      <4>1. /\ pc' = "remote" /\ verdict' = "none" /\ at' = at
            /\ selector' = selector /\ remote' = 1
        BY <1>0, <2>a, <2>2, <3>2 DEF LookAtChild
      <4>2. AddressInv'
        BY <1>0, <1>a, <4>1, SameSearch DEF InfoInv, options, report
      <4>3. SearchInv'
        <5>1. ~FamiliesRefused' /\ (selector' = 1 => dual')
          BY <1>0, <1>a, <4>1, SameSearch DEF InfoInv, SearchInv, options, report
        <5>2. selector' = 1 =>
                  /\ \E i \in DOMAIN children' : Stands(i, 0)' /\ Fits(children[i])'
                  /\ Range(routes4') = Negotiated(0)'
          BY <1>0, <1>a, <4>1, FoundKept DEF InfoInv, options, report
        <5>3. Fits(children[at])'
          BY <1>a, <3>2, <4>1 DEF Fits, LocalOf
        <5>4. \A j \in 1..(at' - 1) : children'[j].index # selector' \/ ~children'[j].installed
          BY <1>0, <1>a, <4>1 DEF InfoInv, SearchInv
        <5>5. at' \in DOMAIN children' /\ children'[at'].index = selector'
              /\ children'[at'].installed
          BY <1>a, <2>0, <2>2, <4>1
        <5> QED
          BY <5>1, <5>2, <5>3, <5>4, <5>5 DEF SearchInv
      <4>4. RouteInv'
        <5>1. Forbidden' = Forbidden
          BY <1>0, SameReport
        <5>2. children[at].remotes \in Seq(Remote) /\ Len(children[at].remotes) \in Nat
          BY <1>0, <2>0, ChildTypes, LenProperties
        <5>3. (IF selector = 0 THEN routes4 ELSE routes6) = <<>>
          BY <1>0 DEF InfoInv, RouteInv
        <5>4. {children[at].remotes[r] : r \in 1..(1 - 1)} = {}
          OBVIOUS
        <5>5. Range(IF selector = 0 THEN routes4 ELSE routes6)
                  = {children[at].remotes[r] : r \in 1..(1 - 1)}
          BY <5>3, <5>4, RangeOfEmpty
        <5>6. /\ IsInjective(routes4) /\ IsInjective(routes6)
              /\ Range(routes4) \subseteq Route4 \ Forbidden
              /\ Range(routes6) \subseteq Route6 \ Forbidden
              /\ Len(routes4) + Len(routes6) <= MaxNegotiatedRoutes
              /\ selector = 0 => routes6 = <<>>
          BY <1>0 DEF InfoInv, RouteInv
        <5> QED
          BY <1>a, <4>1, <5>1, <5>2, <5>5, <5>6 DEF RouteInv
      <4>5. VerdictInv' /\ InfoIsReference'
        BY <4>1 DEF VerdictInv, InfoIsReference
      <4> QED
        BY <4>2, <4>3, <4>4, <4>5 DEF InfoInv
    <3> QED
      BY <3>1, <3>2
  <2> QED
    BY <2>1, <2>2
<1> QED
  BY <1>0, <1>1, <1>2, <1>c

LEMMA FiniteRange ==
  ASSUME NEW S, NEW s \in Seq(S)
  PROVE  IsFiniteSet(Range(s))
<1>1. Len(s) \in Nat /\ DOMAIN s = 1..Len(s) /\ s \in [1..Len(s) -> S]
  BY LenProperties
<1>2. s \in Surjection(1..Len(s), Range(s))
  BY <1>1 DEF Surjection, Range
<1> QED
  BY <1>1, <1>2, FS_NatSurjection DEF ExistsSurjection

\* As many routes as have been taken are negotiated.
LEMMA TooManyRefused ==
  ASSUME NEW r4 \in Seq(Remote), NEW r6 \in Seq(Remote), IsInjective(r4), IsInjective(r6),
         Range(r4) \subseteq Route4, Range(r6) \subseteq Route6,
         children \in Seq(Children),
         Range(r4) \cup Range(r6) \subseteq UNION {Negotiated(k) : k \in Selectors},
         Len(r4) + Len(r6) > MaxNegotiatedRoutes
  PROVE  ~Acceptable
<1> DEFINE U == UNION {Negotiated(k) : k \in Selectors}
           R == Range(r4) \cup Range(r6)
<1> SUFFICES ASSUME Acceptable PROVE FALSE
  OBVIOUS
<1>1. Cardinality(R) = Len(r4) + Len(r6)
  <2>1. Range(r4) \cap Range(r6) = {}
    BY RouteFamilies
  <2> QED
    BY <2>1, TwoRanges
<1>2. IsFiniteSet(U)
  <2>1. \A k \in Selectors : IsFiniteSet(Negotiated(k))
    <3> TAKE k \in Selectors
    <3>1. PICK i \in DOMAIN children : Stands(i, k)
      BY DEF Acceptable
    <3>2. Negotiated(k) = Range(children[i].remotes) /\ children[i].remotes \in Seq(Remote)
      BY <3>1, OneStands, ChildTypes
    <3> QED
      BY <3>2, FiniteRange
  <2>2. CASE dual
    <3>1. Selectors = {0, 1}
      BY <2>2 DEF Selectors
    <3>2. U = Negotiated(0) \cup Negotiated(1)
      BY <3>1
    <3>3. IsFiniteSet(Negotiated(0)) /\ IsFiniteSet(Negotiated(1))
      BY <2>1, <3>1
    <3>4. PICK a, b : a = Negotiated(0) /\ b = Negotiated(1)
      OBVIOUS
    <3>5. IsFiniteSet(a \cup b)
      BY <3>3, <3>4, FS_Union
    <3> QED
      BY <3>2, <3>4, <3>5
  <2>3. CASE ~dual
    <3>1. Selectors = {0}
      BY <2>3 DEF Selectors
    <3>2. U = Negotiated(0)
      BY <3>1
    <3> QED
      BY <2>1, <3>1, <3>2
  <2> QED
    BY <2>2, <2>3
<1>3. Cardinality(R) <= Cardinality(U)
  <2>1. R \in SUBSET U
    OBVIOUS
  <2> HIDE DEF R, U
  <2> QED
    BY <1>2, <2>1, FS_Subset
<1>4. Cardinality(U) <= MaxNegotiatedRoutes
  BY DEF Acceptable
<1>5. Cardinality(U) \in Nat /\ MaxNegotiatedRoutes \in Nat
        /\ Len(r4) \in Nat /\ Len(r6) \in Nat
  BY <1>2, FS_CardinalityType, NegotiatedAssumption, LenProperties
<1> HIDE DEF R, U
<1> QED
  BY <1>1, <1>3, <1>4, <1>5

LEMMA NotRefused ==
  ASSUME NEW p \in Remote, NEW k \in {0, 1}
  PROVE  Refused(p, k) <=> p \notin (IF k = 0 THEN Route4 ELSE Route6) \ Forbidden
BY DEF Refused, Forbidden, Route4, Route6

LEMMA LookAtRemoteStep ==
  ASSUME InfoInv, LookAtRemote, InfoTypeOK'
  PROVE  InfoInv'
<1> USE DEF Done
<1>0. /\ pc = "remote" /\ verdict = "none" /\ children \in Seq(Children)
      /\ selector \in {0, 1} /\ routes4 \in Seq(Remote) /\ routes6 \in Seq(Remote)
      /\ remote \in Nat \ {0} /\ remote <= Len(children[at].remotes)
      /\ UNCHANGED <<options, report>>
  BY DEF InfoInv, InfoTypeOK, LookAtRemote
<1>a. UNCHANGED <<dual, tcp, peer, vips, children>>
  BY <1>0 DEF options, report
<1>b. Acceptable' <=> Acceptable
  BY <1>0, SameReport
<1>c. at \in DOMAIN children /\ children[at].index = selector /\ children[at].installed
      /\ Fits(children[at]) /\ Stands(at, selector)
  BY <1>0 DEF InfoInv, SearchInv, Stands
<1>d. PICK rs \in Seq(Remote) : rs = children[at].remotes
  BY <1>0, <1>c, ChildTypes
<1>e. Len(rs) \in Nat /\ remote \in 1..Len(rs) /\ DOMAIN rs = 1..Len(rs)
  BY <1>0, <1>d, LenProperties
<1>f. PICK p \in Remote : p = rs[remote]
  BY <1>e, ElementOfSeq
<1>g. Negotiated(selector) = Range(rs) /\ p \in Negotiated(selector)
  <2>1. Negotiated(selector) = Range(rs)
    BY <1>0, <1>c, <1>d, OneStands
  <2>2. rs[remote] \in Range(rs)
    BY <1>e DEF Range
  <2> QED
    BY <1>f, <2>1, <2>2
<1>h. selector \in Selectors
  BY <1>0, SelectorAsked
<1>i. PICK new4, new6 : /\ new4 = IF selector = 0 THEN appendRoute(routes4, p) ELSE routes4
                        /\ new6 = IF selector = 1 THEN appendRoute(routes6, p) ELSE routes6
  OBVIOUS
<1>j. /\ IsInjective(routes4) /\ IsInjective(routes6)
      /\ Range(routes4) \subseteq Route4 \ Forbidden
      /\ Range(routes6) \subseteq Route6 \ Forbidden
      /\ selector = 0 => routes6 = <<>>
      /\ Range(IF selector = 0 THEN routes4 ELSE routes6) = {rs[r] : r \in 1..(remote - 1)}
  BY <1>0, <1>d DEF InfoInv, RouteInv
<1>1. CASE Refused(p, selector)
  <2>1. pc' = "done" /\ verdict' = "error"
    BY <1>1, <1>d, <1>f DEF LookAtRemote, Reject
  <2>2. ~Acceptable
    BY <1>0, <1>1, <1>g, <1>h, NotRefused DEF Acceptable
  <2> QED
    BY <1>b, <2>1, <2>2, Rejected
<1>2. CASE ~Refused(p, selector)
  <2>1. p \in (IF selector = 0 THEN Route4 ELSE Route6) \ Forbidden
    BY <1>0, <1>2, NotRefused
  <2>2. /\ new4 \in Seq(Remote) /\ IsInjective(new4)
        /\ Range(new4) = IF selector = 0 THEN Range(routes4) \cup {p} ELSE Range(routes4)
    <3>1. /\ appendRoute(routes4, p) \in Seq(Remote)
          /\ IsInjective(appendRoute(routes4, p))
          /\ Range(appendRoute(routes4, p)) = Range(routes4) \cup {p}
      BY <1>0, <1>j, AppendOnce
    <3> QED
      BY <1>0, <1>i, <1>j, <3>1
  <2>3. /\ new6 \in Seq(Remote) /\ IsInjective(new6)
        /\ Range(new6) = IF selector = 1 THEN Range(routes6) \cup {p} ELSE Range(routes6)
    <3>1. /\ appendRoute(routes6, p) \in Seq(Remote)
          /\ IsInjective(appendRoute(routes6, p))
          /\ Range(appendRoute(routes6, p)) = Range(routes6) \cup {p}
      BY <1>0, <1>j, AppendOnce
    <3> QED
      BY <1>0, <1>i, <1>j, <3>1
  <2>4. /\ Range(new4) \subseteq Route4 \ Forbidden
        /\ Range(new6) \subseteq Route6 \ Forbidden
    BY <1>0, <1>j, <2>1, <2>2, <2>3
  <2>5. CASE TooMany(Len(new4) + Len(new6))
    <3>1. pc' = "done" /\ verdict' = "error"
      BY <1>d, <1>f, <1>i, <2>5 DEF LookAtRemote, Reject
    <3>2. {rs[r] : r \in 1..(remote - 1)} \subseteq Range(rs)
      BY <1>e DEF Range
    <3>3. Range(IF selector = 0 THEN new4 ELSE new6) \subseteq Negotiated(selector)
      BY <1>0, <1>g, <1>j, <2>2, <2>3, <3>2
    <3>4. Range(new4) \cup Range(new6) \subseteq UNION {Negotiated(k) : k \in Selectors}
      <4>1. CASE selector = 0
        <5>1. Range(new6) = {}
          BY <1>j, <2>3, <4>1, RangeOfEmpty
        <5> QED
          BY <1>h, <3>3, <4>1, <5>1
      <4>2. CASE selector = 1
        <5>1. Range(new4) = Negotiated(0)
          BY <1>0, <2>2, <4>2 DEF InfoInv, SearchInv
        <5>2. 0 \in Selectors
          BY DEF Selectors
        <5> QED
          BY <1>h, <3>3, <4>2, <5>1, <5>2
      <4> QED
        BY <1>0, <4>1, <4>2
    <3>5. ~Acceptable
      BY <1>0, <2>2, <2>3, <2>4, <2>5, <3>4, TooManyRefused DEF TooMany
    <3> QED
      BY <1>b, <3>1, <3>5, Rejected
  <2>6. CASE ~TooMany(Len(new4) + Len(new6))
    <3>1. /\ routes4' = new4 /\ routes6' = new6 /\ remote' = remote + 1
          /\ UNCHANGED <<pc, ipv4, ipv6, selector, at, verdict>>
      BY <1>2, <1>d, <1>f, <1>i, <2>6 DEF LookAtRemote
    <3>2. AddressInv'
      BY <1>0, <3>1, SameSearch DEF InfoInv
    <3>3. SearchInv'
      <4>1. ~FamiliesRefused' /\ (selector' = 1 => dual')
        BY <1>0, <1>a, <3>1, SameSearch DEF InfoInv, SearchInv
      <4>2. selector' = 1 =>
                /\ \E i \in DOMAIN children' : Stands(i, 0)' /\ Fits(children[i])'
                /\ Range(routes4') = Negotiated(0)'
        BY <1>0, <1>i, <3>1, FoundKept DEF InfoInv
      <4>3. Fits(children[at])'
        BY <1>a, <1>c, <3>1 DEF Fits, LocalOf
      <4>4. \A j \in 1..(at' - 1) : children'[j].index # selector' \/ ~children'[j].installed
        BY <1>0, <1>a, <3>1 DEF InfoInv, SearchInv
      <4>5. at' \in DOMAIN children' /\ children'[at'].index = selector'
            /\ children'[at'].installed
        BY <1>a, <1>c, <3>1
      <4> QED
        BY <4>1, <4>2, <4>3, <4>4, <4>5 DEF SearchInv
    <3>4. RouteInv'
      <4>1. Forbidden' = Forbidden
        BY <1>0, SameReport
      <4>2. Len(new4) + Len(new6) <= MaxNegotiatedRoutes
        BY <2>2, <2>3, <2>6, NegotiatedAssumption, LenProperties DEF TooMany
      <4>3. selector = 0 => new6 = <<>>
        BY <1>i, <1>j
      <4>4. Range(IF selector = 0 THEN new4 ELSE new6) = {rs[r] : r \in 1..((remote + 1) - 1)}
        <5>1. Range(IF selector = 0 THEN new4 ELSE new6)
                  = Range(IF selector = 0 THEN routes4 ELSE routes6) \cup {p}
          BY <1>0, <2>2, <2>3
        <5>2. 1..((remote + 1) - 1) = (1..(remote - 1)) \cup {remote}
          BY <1>0
        <5> QED
          BY <1>f, <1>j, <5>1, <5>2
      <4>5. remote + 1 <= Len(rs) + 1 /\ rs = children'[at'].remotes
        BY <1>a, <1>d, <1>e, <3>1
      <4> QED
        BY <1>0, <2>2, <2>3, <2>4, <3>1, <4>1, <4>2, <4>3, <4>4, <4>5 DEF RouteInv
    <3>5. VerdictInv' /\ InfoIsReference'
      BY <1>0, <3>1 DEF VerdictInv, InfoIsReference
    <3> QED
      BY <3>2, <3>3, <3>4, <3>5 DEF InfoInv
  <2> QED
    BY <2>5, <2>6
<1> QED
  BY <1>1, <1>2

\* All of the routes of a child have been taken: they are the selector's.
LEMMA EndRemotesStep ==
  ASSUME InfoInv, EndRemotes, InfoTypeOK'
  PROVE  InfoInv'
<1> USE DEF Done
<1>0. /\ pc = "remote" /\ verdict = "none" /\ children \in Seq(Children)
      /\ selector \in {0, 1} /\ remote \in Nat \ {0}
      /\ remote > Len(children[at].remotes)
      /\ UNCHANGED <<options, report, cfg>>
  BY DEF InfoInv, InfoTypeOK, EndRemotes
<1>a. UNCHANGED <<dual, tcp, peer, vips, children, ipv4, ipv6, routes4, routes6>>
  BY <1>0 DEF options, report, cfg
<1>b. at \in DOMAIN children /\ Fits(children[at]) /\ Stands(at, selector)
  BY <1>0 DEF InfoInv, SearchInv, Stands
<1>c. PICK rs \in Seq(Remote) : rs = children[at].remotes
  BY <1>0, <1>b, ChildTypes
<1>d. Len(rs) \in Nat /\ DOMAIN rs = 1..Len(rs) /\ remote - 1 = Len(rs)
  <2>1. Len(rs) \in Nat /\ DOMAIN rs = 1..Len(rs)
    BY LenProperties
  <2>2. remote <= Len(rs) + 1 /\ remote > Len(rs)
    BY <1>0, <1>c DEF InfoInv, RouteInv
  <2> QED
    BY <1>0, <2>1, <2>2
<1>e. Negotiated(selector) = Range(rs)
  BY <1>0, <1>b, <1>c, OneStands
<1>f. Range(IF selector = 0 THEN routes4 ELSE routes6) = Range(rs)
  BY <1>0, <1>c, <1>d DEF InfoInv, RouteInv, Range
<1>g. /\ IsInjective(routes4) /\ IsInjective(routes6)
      /\ Range(routes4) \subseteq Route4 \ Forbidden
      /\ Range(routes6) \subseteq Route6 \ Forbidden
      /\ Len(routes4) + Len(routes6) <= MaxNegotiatedRoutes
      /\ selector = 0 => routes6 = <<>>
  BY <1>0 DEF InfoInv, RouteInv
<1>h. ~FamiliesRefused /\ (selector = 1 => dual)
  BY <1>0 DEF InfoInv, SearchInv
<1>1. CASE dual /\ selector = 0
  <2>1. /\ pc' = "child" /\ verdict' = "none" /\ selector' = 1 /\ at' = 1 /\ remote' = remote
    BY <1>0, <1>1 DEF EndRemotes
  <2>2. AddressInv'
    BY <1>0, <1>a, <2>1, SameSearch DEF InfoInv, options, report
  <2>3. SearchInv'
    <3>1. ~FamiliesRefused' /\ dual'
      BY <1>0, <1>1, <1>a, <1>h, SameSearch DEF options, report
    <3>2. Range(routes4') = Negotiated(0)'
      BY <1>0, <1>1, <1>a, <1>e, <1>f, SameReport
    <3>3. PICK i \in DOMAIN children : i = at
      BY <1>b
    <3>4. Stands(i, 0)'
      BY <1>0, <1>1, <1>b, <3>3, SameReport
    <3>5. Fits(children[i])'
      BY <1>a, <1>b, <3>3 DEF Fits, LocalOf
    <3>6. 1..(1 - 1) = {}
      OBVIOUS
    <3> QED
      BY <1>a, <2>1, <3>1, <3>2, <3>3, <3>4, <3>5, <3>6 DEF SearchInv
  <2>4. RouteInv'
    <3>1. Forbidden' = Forbidden
      BY <1>0, SameReport
    <3> QED
      BY <1>1, <1>a, <1>g, <2>1, <3>1 DEF RouteInv
  <2>5. VerdictInv' /\ InfoIsReference'
    BY <2>1 DEF VerdictInv, InfoIsReference
  <2> QED
    BY <2>2, <2>3, <2>4, <2>5 DEF InfoInv
<1>2. CASE ~(dual /\ selector = 0)
  <2>1. pc' = "done" /\ verdict' = "ok" /\ UNCHANGED place
    BY <1>2 DEF EndRemotes
  <2>2. dual => selector = 1
    BY <1>0, <1>2
  <2>3. \A k \in Selectors : k = selector \/ (k = 0 /\ selector = 1)
    BY <1>0, <2>2 DEF Selectors
  <2>4. \A k \in Selectors :
            Negotiated(k) = Range(IF k = 0 THEN routes4 ELSE routes6)
    <3>1. selector = 1 => Range(routes4) = Negotiated(0)
      BY <1>0 DEF InfoInv, SearchInv
    <3> QED
      BY <1>e, <1>f, <2>3, <3>1
  <2>5. \A k \in Selectors : \E i \in DOMAIN children :
            Stands(i, k) /\ Fits(children[i]) /\ children[i].index = k
    <3>1. selector = 1 => \E i \in DOMAIN children : Stands(i, 0) /\ Fits(children[i])
      BY <1>0 DEF InfoInv, SearchInv
    <3>2. \A k : \A i \in DOMAIN children : Stands(i, k) => children[i].index = k
      BY DEF Stands
    <3> QED
      BY <1>b, <2>3, <3>1, <3>2
  <2>6. Acceptable
    <3>1. peer = "requested" /\ "malformed" \notin Range(vips)
      BY <1>0 DEF InfoInv, AddressInv
    <3>2. dual \/ Range(vips) \cap Address6 = {}
      <4>1. ~dual => LocalOf(1) = None
        BY <1>h DEF FamiliesRefused, LocalOf
      <4>2. ~dual => \A q \in DOMAIN vips : vips[q] \notin Address6
        BY <1>0, <4>1 DEF InfoInv, AddressInv, AddressesOf
      <4> QED
        BY <4>2 DEF Range
    <3>3. ASSUME NEW k \in Selectors
          PROVE  \E i \in DOMAIN children, p \in DOMAIN vips :
                     /\ Stands(i, k)
                     /\ children[i].natt
                     /\ children[i].locals = <<vips[p]>>
                     /\ IsOnly(p, k)
      <4>1. PICK i \in DOMAIN children :
                Stands(i, k) /\ Fits(children[i]) /\ children[i].index = k
        BY <2>5
      <4>2. k \in {0, 1} /\ LocalOf(k) # None
        BY <1>h DEF Selectors, FamiliesRefused, LocalOf
      <4>3. PICK p \in DOMAIN vips : IsOnly(p, k) /\ vips[p] = LocalOf(k)
        BY <1>0, <4>2 DEF InfoInv, AddressInv
      <4> QED
        BY <4>1, <4>3 DEF Fits
    <3>4. ASSUME NEW k \in Selectors
          PROVE  /\ Negotiated(k) # {}
                 /\ Negotiated(k) \subseteq (IF k = 0 THEN Route4 ELSE Route6) \ Forbidden
      <4>1. Negotiated(k) \subseteq (IF k = 0 THEN Route4 ELSE Route6) \ Forbidden
        BY <1>g, <2>4
      <4>2. PICK i \in DOMAIN children : Stands(i, k) /\ Fits(children[i])
        BY <2>5
      <4>3. PICK ks \in Seq(Remote) : ks = children[i].remotes
        BY <1>0, ChildTypes
      <4>4. ks # <<>> /\ Negotiated(k) = Range(ks)
        BY <1>0, <4>2, <4>3, OneStands DEF Fits
      <4>5. 1 \in DOMAIN ks
        BY <4>4, EmptySeq, LenProperties
      <4> QED
        BY <4>1, <4>4, <4>5 DEF Range
    <3>5. Cardinality(UNION {Negotiated(k) : k \in Selectors}) <= MaxNegotiatedRoutes
      <4>1. UNION {Negotiated(k) : k \in Selectors} = Range(routes4) \cup Range(routes6)
        <5>1. CASE dual
          <6>1. Selectors = {0, 1}
            BY <5>1 DEF Selectors
          <6> QED
            BY <2>4, <6>1
        <5>2. CASE ~dual
          <6>1. Selectors = {0} /\ routes6 = <<>>
            BY <1>0, <1>g, <1>h, <5>2 DEF Selectors
          <6> QED
            BY <2>4, <6>1, RangeOfEmpty
        <5> QED
          BY <5>1, <5>2
      <4>2. routes4 \in Seq(Remote) /\ routes6 \in Seq(Remote)
        BY DEF InfoInv, InfoTypeOK
      <4>3. Range(routes4) \cap Range(routes6) = {}
        BY <1>g, RouteFamilies
      <4>4. Cardinality(Range(routes4) \cup Range(routes6)) = Len(routes4) + Len(routes6)
        BY <1>g, <4>2, <4>3, TwoRanges
      <4> QED
        BY <1>g, <4>1, <4>4
    <3> QED
      BY <3>1, <3>2, <3>3, <3>4, <3>5 DEF Acceptable
  <2>7. InfoIsReference'
    <3>1. Acceptable'
      BY <1>0, <2>6, SameReport
    <3>2. Range(routes4) = Negotiated(0)
      BY <2>4 DEF Selectors
    <3>3. Range(routes6) = IF dual THEN Negotiated(1) ELSE {}
      <4>1. CASE dual
        BY <2>4, <4>1 DEF Selectors
      <4>2. CASE ~dual
        BY <1>0, <1>g, <1>h, <4>2, RangeOfEmpty
      <4> QED
        BY <4>1, <4>2
    <3>4. Negotiated(0)' = Negotiated(0) /\ Negotiated(1)' = Negotiated(1)
      BY <1>0, SameReport
    <3> QED
      BY <1>a, <1>g, <2>1, <3>1, <3>2, <3>3, <3>4 DEF InfoIsReference
  <2>8. VerdictInv'
    BY <1>0, <1>a, <1>g, <1>h DEF VerdictInv, FamiliesRefused
  <2>9. AddressInv' /\ SearchInv' /\ RouteInv'
    BY <2>1 DEF AddressInv, SearchInv, RouteInv
  <2> QED
    BY <2>7, <2>8, <2>9 DEF InfoInv
<1> QED
  BY <1>1, <1>2

-----------------------------------------------------------------------------
(* The specification                                                       *)

LEMMA InfoInvInit == InfoInit => InfoInv
<1> SUFFICES ASSUME InfoInit PROVE InfoInv
  OBVIOUS
<1>1. /\ peer = "unread" /\ vips = <<>> /\ children = <<>> /\ pc = "message"
      /\ ipv4 = None /\ ipv6 = None /\ routes4 = <<>> /\ routes6 = <<>>
      /\ selector = 0 /\ at = 1 /\ remote = 1 /\ verdict = "none"
  BY DEF InfoInit
<1>2. InfoTypeOK
  BY <1>1, EmptySeq DEF InfoTypeOK
<1>3. AddressInv
  BY <1>1, RangeOfEmpty DEF AddressInv, LocalOf
<1>4. SearchInv /\ RouteInv /\ VerdictInv /\ InfoIsReference
  BY <1>1 DEF SearchInv, RouteInv, VerdictInv, InfoIsReference
<1> QED
  BY <1>2, <1>3, <1>4 DEF InfoInv

LEMMA InfoInvNext ==
  ASSUME InfoInv, InfoNext
  PROVE  InfoInv'
<1>1. InfoTypeOK'
  BY InfoTypeNext DEF InfoInv
<1>2. CASE Message
  BY <1>1, <1>2, MessageStep
<1>3. ASSUME NEW vip \in Vip, ReadVip(vip) PROVE InfoInv'
  BY <1>1, <1>3, ReadVipStep
<1>4. CASE EndVips
  BY <1>1, <1>4, EndVipsStep
<1>5. CASE LookAtChild
  BY <1>1, <1>5, LookAtChildStep
<1>6. CASE LookAtRemote
  BY <1>1, <1>6, LookAtRemoteStep
<1>7. CASE EndRemotes
  BY <1>1, <1>7, EndRemotesStep
<1> QED
  BY <1>2, <1>3, <1>4, <1>5, <1>6, <1>7 DEF InfoNext

LEMMA InfoStutter ==
  ASSUME InfoInv, UNCHANGED vars
  PROVE  InfoInv'
<1>0. UNCHANGED <<options, report, pc, cfg, place, verdict>>
  BY DEF vars
<1>1. UNCHANGED <<dual, tcp, peer, vips, children, pc, ipv4, ipv6, routes4, routes6,
                  selector, at, remote, verdict>>
  BY <1>0 DEF options, report, cfg, place
<1>2. InfoTypeOK' /\ VerdictInv'
  BY <1>1 DEF InfoInv, InfoTypeOK, VerdictInv
<1>3. AddressInv'
  BY <1>1 DEF InfoInv, AddressInv, LocalOf, IsOnly
<1>4. Negotiated(0)' = Negotiated(0) /\ Negotiated(1)' = Negotiated(1)
      /\ Forbidden' = Forbidden /\ (Acceptable' <=> Acceptable)
  BY <1>0, SameReport
<1>5. SearchInv'
  BY <1>1, <1>4 DEF InfoInv, SearchInv, FamiliesRefused, Fits, LocalOf, Stands
<1>6. RouteInv' /\ InfoIsReference'
  BY <1>1, <1>4 DEF InfoInv, RouteInv, InfoIsReference
<1> QED
  BY <1>2, <1>3, <1>5, <1>6 DEF InfoInv

-----------------------------------------------------------------------------
(* Documents: the definitions of XmlConfig about its variable tokens, for  *)
(* one sequence of tokens after another.                                   *)

DepthIn(s, i) ==
    Cardinality({j \in 1..i : s[j].name # "end"}) - Cardinality({j \in 1..i : s[j].name = "end"})

AroundIn(s, i, k) ==
    i < k /\ s[i].name # "end" /\ \A j \in i..k : DepthIn(s, j) >= DepthIn(s, i)

IsInnermost(s, name, i, k) ==
    /\ s[i].name = name /\ AroundIn(s, i, k)
    /\ \A j \in (i + 1)..k : ~(s[j].name = name /\ AroundIn(s, j, k))

RouteIn(s, k) == s[k].name = "route" /\ s[k].destination # "unparsable"

\* The element at i is the innermost split tunnel around a route.
RouteWithin(s, i) ==
    \E k \in 1..Len(s) : RouteIn(s, k) /\ i \in 1..k /\ IsInnermost(s, "split-tunnel-info", i, k)

WholeFamilyIn(s, i, f) ==
    /\ s[i].name = "split-tunnel-info" /\ ~s[i].negated
    /\ \E j \in 1..i : IsInnermost(s, "family", j, i) /\ s[j].family = f
    /\ ~RouteWithin(s, i)

\* The element that starts at i has no end yet.
OpenIn(s, i) == s[i].name # "end" /\ \A j \in i..Len(s) : DepthIn(s, j) >= DepthIn(s, i)

LEMMA Cardinalities ==
  ASSUME NEW K, NEW n \in Nat
  PROVE  /\ Cardinality({j \in 1..n : j \in K}) \in Nat
         /\ Cardinality({j \in 1..(n + 1) : j \in K})
                = Cardinality({j \in 1..n : j \in K}) + (IF n + 1 \in K THEN 1 ELSE 0)
<1> DEFINE A == {j \in 1..n : j \in K}
           B == {j \in 1..(n + 1) : j \in K}
<1>1. IsFiniteSet(1..n) /\ A \in SUBSET (1..n)
  BY FS_Interval
<1>2. IsFiniteSet(A) /\ n + 1 \notin A
  <2>1. IsFiniteSet(A)
    <3> HIDE DEF A
    <3> QED
      BY <1>1, FS_Subset
  <2> QED
    BY <2>1
<1>3. B = IF n + 1 \in K THEN A \cup {n + 1} ELSE A
  OBVIOUS
<1> HIDE DEF A, B
<1>4. Cardinality(A) \in Nat
  BY <1>2, FS_CardinalityType
<1>5. Cardinality(B) = Cardinality(A) + (IF n + 1 \in K THEN 1 ELSE 0)
  <2>1. Cardinality(A \cup {n + 1}) = Cardinality(A) + 1
    BY <1>2, FS_AddElement
  <2> QED
    BY <1>3, <1>4, <2>1
<1> QED
  BY <1>4, <1>5 DEF A, B

LEMMA DepthNone == \A s : DepthIn(s, 0) = 0
<1> TAKE s
<1>1. {j \in 1..0 : s[j].name # "end"} = {} /\ {j \in 1..0 : s[j].name = "end"} = {}
  OBVIOUS
<1> QED
  BY <1>1, FS_EmptySet DEF DepthIn

LEMMA DepthNext ==
  ASSUME NEW s, NEW n \in Nat
  PROVE  /\ DepthIn(s, n) \in Int
         /\ DepthIn(s, n + 1) = DepthIn(s, n) + (IF s[n + 1].name = "end" THEN -1 ELSE 1)
<1> DEFINE E == {j \in 1..(n + 1) : s[j].name = "end"}
           S == {j \in 1..(n + 1) : s[j].name # "end"}
<1>1. /\ {j \in 1..n : s[j].name = "end"} = {j \in 1..n : j \in E}
      /\ {j \in 1..n : s[j].name # "end"} = {j \in 1..n : j \in S}
      /\ E = {j \in 1..(n + 1) : j \in E} /\ S = {j \in 1..(n + 1) : j \in S}
  OBVIOUS
<1>2. /\ n + 1 \in E <=> s[n + 1].name = "end"
      /\ n + 1 \in S <=> s[n + 1].name # "end"
  OBVIOUS
<1>3. DepthIn(s, n) = Cardinality({j \in 1..n : j \in S}) - Cardinality({j \in 1..n : j \in E})
  BY <1>1 DEF DepthIn
<1>4. DepthIn(s, n + 1) = Cardinality({j \in 1..(n + 1) : j \in S}) - Cardinality({j \in 1..(n + 1) : j \in E})
  BY <1>1 DEF DepthIn
<1> HIDE DEF E, S
<1>5. /\ Cardinality({j \in 1..n : j \in E}) \in Nat
      /\ Cardinality({j \in 1..(n + 1) : j \in E})
             = Cardinality({j \in 1..n : j \in E}) + (IF n + 1 \in E THEN 1 ELSE 0)
  BY Cardinalities
<1>6. /\ Cardinality({j \in 1..n : j \in S}) \in Nat
      /\ Cardinality({j \in 1..(n + 1) : j \in S})
             = Cardinality({j \in 1..n : j \in S}) + (IF n + 1 \in S THEN 1 ELSE 0)
  BY Cardinalities
<1> QED
  BY <1>2, <1>3, <1>4, <1>5, <1>6

\* What is said of a document up to a token does not depend on what follows.
LEMMA SameDepth ==
  ASSUME NEW s, NEW t, NEW n \in Nat, \A j \in 1..n : t[j] = s[j]
  PROVE  DepthIn(t, n) = DepthIn(s, n)
<1>1. {j \in 1..n : t[j].name = "end"} = {j \in 1..n : s[j].name = "end"}
  OBVIOUS
<1>2. {j \in 1..n : t[j].name # "end"} = {j \in 1..n : s[j].name # "end"}
  OBVIOUS
<1> QED
  BY <1>1, <1>2 DEF DepthIn

LEMMA SameAround ==
  ASSUME NEW s, NEW t, NEW n \in Nat, \A j \in 1..n : t[j] = s[j], NEW i \in 1..n, NEW k \in 1..n
  PROVE  AroundIn(t, i, k) <=> AroundIn(s, i, k)
<1>1. \A j \in 1..n : DepthIn(t, j) = DepthIn(s, j)
  BY SameDepth
<1> QED
  BY <1>1 DEF AroundIn

LEMMA SameInnermost ==
  ASSUME NEW s, NEW t, NEW n \in Nat, \A j \in 1..n : t[j] = s[j],
         NEW name, NEW i \in 1..n, NEW k \in 1..n
  PROVE  IsInnermost(t, name, i, k) <=> IsInnermost(s, name, i, k)
<1>1. \A j \in 1..n : AroundIn(t, j, k) <=> AroundIn(s, j, k)
  BY SameAround
<1> QED
  BY <1>1 DEF IsInnermost

-----------------------------------------------------------------------------
(* One more token                                                          *)

LEMMA AfterStart ==
  ASSUME NEW s, NEW t, NEW n \in Nat, Len(s) = n, Len(t) = n + 1,
         \A j \in 1..n : t[j] = s[j], t[n + 1].name # "end"
  PROVE  /\ DepthIn(t, n + 1) = DepthIn(s, n) + 1
         /\ \A i \in 1..n : DepthIn(t, i) = DepthIn(s, i)
         /\ \A i \in 1..n : OpenIn(t, i) <=> OpenIn(s, i)
         /\ \A i \in 1..n : AroundIn(t, i, n + 1) <=> OpenIn(s, i)
         /\ OpenIn(t, n + 1) /\ ~AroundIn(t, n + 1, n + 1)
<1>1. DepthIn(t, n) = DepthIn(s, n)
  BY SameDepth
<1>2. DepthIn(t, n + 1) = DepthIn(t, n) + 1
  BY DepthNext
<1>3. \A i \in 1..n : DepthIn(t, i) = DepthIn(s, i)
  BY SameDepth
<1>4. \A i \in 0..(n + 1) : DepthIn(s, i) \in Int /\ DepthIn(t, i) \in Int
  BY DepthNext
<1>5. ASSUME NEW i \in 1..n
      PROVE  (\A j \in i..(n + 1) : DepthIn(t, j) >= DepthIn(t, i))
                 <=> \A j \in i..n : DepthIn(s, j) >= DepthIn(s, i)
  <2>1. DepthIn(t, i) = DepthIn(s, i) /\ \A j \in i..n : DepthIn(t, j) = DepthIn(s, j)
    BY <1>3
  <2>2. (\A j \in i..n : DepthIn(s, j) >= DepthIn(s, i)) => DepthIn(t, n + 1) >= DepthIn(t, i)
    <3>1. n \in i..n
      OBVIOUS
    <3>2. SUFFICES ASSUME \A j \in i..n : DepthIn(s, j) >= DepthIn(s, i)
                   PROVE  DepthIn(t, n + 1) >= DepthIn(t, i)
      OBVIOUS
    <3>3. DepthIn(s, n) >= DepthIn(s, i)
      BY <3>1, <3>2
    <3> QED
      BY <1>1, <1>2, <1>4, <2>1, <3>3
  <2>3. i..(n + 1) = (i..n) \cup {n + 1}
    OBVIOUS
  <2> QED
    BY <2>1, <2>2, <2>3
<1>6. OpenIn(t, n + 1) /\ ~AroundIn(t, n + 1, n + 1)
  <2>1. (n + 1)..(n + 1) = {n + 1}
    OBVIOUS
  <2> QED
    BY <1>4, <2>1 DEF OpenIn, AroundIn
<1>7. \A i \in 1..n : t[i] = s[i] /\ i < n + 1
  OBVIOUS
<1> QED
  BY <1>1, <1>2, <1>3, <1>5, <1>6, <1>7 DEF OpenIn, AroundIn

\* An end is the next token after s.
AtEnd(s, t, n) ==
    /\ n \in Nat /\ Len(s) = n /\ Len(t) = n + 1
    /\ (\A j \in 1..n : t[j] = s[j]) /\ t[n + 1].name = "end"

LEMMA AfterEnd ==
  ASSUME NEW s, NEW t, NEW n, AtEnd(s, t, n)
  PROVE  /\ DepthIn(t, n + 1) = DepthIn(s, n) - 1
         /\ \A i \in 1..n : DepthIn(t, i) = DepthIn(s, i)
         /\ \A i \in 1..n : OpenIn(t, i) <=> OpenIn(s, i) /\ DepthIn(s, i) < DepthIn(s, n)
         /\ ~OpenIn(t, n + 1)
<1>0. /\ n \in Nat /\ Len(s) = n /\ Len(t) = n + 1
      /\ (\A j \in 1..n : t[j] = s[j]) /\ t[n + 1].name = "end"
  BY DEF AtEnd
<1> USE <1>0
<1>1. DepthIn(t, n) = DepthIn(s, n)
  BY SameDepth
<1>2. DepthIn(t, n + 1) = DepthIn(t, n) - 1
  BY DepthNext
<1>3. \A i \in 1..n : DepthIn(t, i) = DepthIn(s, i)
  BY SameDepth
<1>4. \A i \in 0..(n + 1) : DepthIn(s, i) \in Int /\ DepthIn(t, i) \in Int
  BY DepthNext
<1>5. ASSUME NEW i \in 1..n
      PROVE  (\A j \in i..(n + 1) : DepthIn(t, j) >= DepthIn(t, i))
                 <=> /\ \A j \in i..n : DepthIn(s, j) >= DepthIn(s, i)
                     /\ DepthIn(s, i) < DepthIn(s, n)
  <2>1. DepthIn(t, i) = DepthIn(s, i) /\ \A j \in i..n : DepthIn(t, j) = DepthIn(s, j)
    BY <1>3
  <2>2. DepthIn(t, n + 1) >= DepthIn(t, i) <=> DepthIn(s, i) < DepthIn(s, n)
    BY <1>1, <1>2, <1>4, <2>1
  <2>3. i..(n + 1) = (i..n) \cup {n + 1}
    OBVIOUS
  <2> QED
    BY <2>1, <2>2, <2>3
<1> QED
  BY <1>1, <1>2, <1>3, <1>5 DEF OpenIn

\* An element and its end at once.
LEMMA AfterBoth ==
  ASSUME NEW s, NEW t, NEW n \in Nat, Len(s) = n, Len(t) = n + 2,
         \A j \in 1..n : t[j] = s[j], t[n + 1].name # "end", t[n + 2].name = "end"
  PROVE  /\ DepthIn(t, n + 2) = DepthIn(s, n)
         /\ \A i \in 1..n : DepthIn(t, i) = DepthIn(s, i)
         /\ \A i \in 1..n : OpenIn(t, i) <=> OpenIn(s, i)
         /\ \A i \in 1..n : AroundIn(t, i, n + 1) <=> OpenIn(s, i)
         /\ ~OpenIn(t, n + 1) /\ ~OpenIn(t, n + 2) /\ ~AroundIn(t, n + 1, n + 1)
<1>0. DepthIn(t, n) = DepthIn(s, n)
  BY SameDepth
<1>1. DepthIn(t, n) = DepthIn(s, n) /\ \A i \in 1..n : DepthIn(t, i) = DepthIn(s, i)
  <2>1. \A i \in 1..n : DepthIn(t, i) = DepthIn(s, i)
    BY SameDepth
  <2> QED
    BY <1>0, <2>1
<1>2. DepthIn(t, n + 1) = DepthIn(s, n) + 1
  <2>1. DepthIn(t, n + 1) = DepthIn(t, n) + 1
    BY DepthNext
  <2> QED
    BY <1>1, <2>1
<1>3. DepthIn(t, n + 2) = DepthIn(s, n)
  <2>1. n + 1 \in Nat /\ (n + 1) + 1 = n + 2
    OBVIOUS
  <2>2. DepthIn(t, (n + 1) + 1) = DepthIn(t, n + 1) - 1
    BY <2>1, DepthNext
  <2>3. DepthIn(s, n) \in Int
    BY DepthNext
  <2> QED
    BY <1>2, <2>1, <2>2, <2>3
<1>4. \A i \in 0..(n + 2) : DepthIn(s, i) \in Int /\ DepthIn(t, i) \in Int
  BY DepthNext
<1>5. ASSUME NEW i \in 1..n
      PROVE  /\ (\A j \in i..(n + 2) : DepthIn(t, j) >= DepthIn(t, i))
                    <=> \A j \in i..n : DepthIn(s, j) >= DepthIn(s, i)
             /\ (\A j \in i..(n + 1) : DepthIn(t, j) >= DepthIn(t, i))
                    <=> \A j \in i..n : DepthIn(s, j) >= DepthIn(s, i)
  <2>1. DepthIn(t, i) = DepthIn(s, i) /\ \A j \in i..n : DepthIn(t, j) = DepthIn(s, j)
    BY <1>1
  <2>2. (\A j \in i..n : DepthIn(s, j) >= DepthIn(s, i)) =>
            DepthIn(t, n + 1) >= DepthIn(t, i) /\ DepthIn(t, n + 2) >= DepthIn(t, i)
    <3>1. n \in i..n
      OBVIOUS
    <3>2. SUFFICES ASSUME \A j \in i..n : DepthIn(s, j) >= DepthIn(s, i)
                   PROVE  DepthIn(t, n + 1) >= DepthIn(t, i) /\ DepthIn(t, n + 2) >= DepthIn(t, i)
      OBVIOUS
    <3>3. DepthIn(s, n) >= DepthIn(s, i)
      BY <3>1, <3>2
    <3> QED
      BY <1>2, <1>3, <1>4, <2>1, <3>3
  <2>3. i..(n + 1) = (i..n) \cup {n + 1} /\ i..(n + 2) = (i..n) \cup {n + 1, n + 2}
    OBVIOUS
  <2> QED
    BY <2>1, <2>2, <2>3
<1>6. ~OpenIn(t, n + 1) /\ ~OpenIn(t, n + 2) /\ ~AroundIn(t, n + 1, n + 1)
  <2>1. n + 2 \in (n + 1)..(n + 2) /\ ~(DepthIn(t, n + 2) >= DepthIn(t, n + 1))
    BY <1>2, <1>3, <1>4
  <2> QED
    BY <2>1 DEF OpenIn, AroundIn
<1>7. \A i \in 1..n : t[i] = s[i] /\ i < n + 1
  OBVIOUS
<1> QED
  BY <1>1, <1>3, <1>5, <1>6, <1>7 DEF OpenIn, AroundIn


-----------------------------------------------------------------------------
(* The stack                                                               *)

\* The frames are those of the elements that are open: at are their places.
Nested(s, st, places) ==
    /\ places \in [1..Len(st) -> 1..Len(s)]
    /\ \A p, q \in 1..Len(st) : p < q => places[p] < places[q]
    /\ \A i \in 1..Len(s) : OpenIn(s, i) <=> \E p \in 1..Len(st) : places[p] = i
    /\ \A p \in 1..Len(st) : st[p].element = s[places[p]] /\ DepthIn(s, places[p]) = p
    /\ DepthIn(s, Len(s)) = Len(st)

\* Of the elements of a name that are open, p is the innermost at the frame m.
IsTop(st, name, p, m) ==
    /\ st[p].element.name = name
    /\ \A q \in (p + 1)..m : st[q].element.name # name

\* The family of a frame is that of the innermost family element around it.
FamilyKnown(st, p) ==
    \/ \E q \in 1..p : IsTop(st, "family", q, p) /\ st[p].family = st[q].element.family
    \/ st[p].family = 0 /\ \A q \in 1..p : st[q].element.name # "family"

FamilyMeant(s, st, places, p) ==
    st[p].element.name # "family" =>
        \A f \in Families :
            st[p].family = f
                <=> \E j \in 1..places[p] :
                        IsInnermost(s, "family", j, places[p]) /\ s[j].family = f

\* It counts the routes that are listed in it and in no split tunnel within it.
RoutesCounted(s, st, places, p) ==
    IsSplit(st[p]) => (st[p].routeCount = 0 <=> ~RouteWithin(s, places[p]))

FramesRight(s, st, places) ==
    \A p \in 1..Len(st) :
        FamilyKnown(st, p) /\ FamilyMeant(s, st, places, p) /\ RoutesCounted(s, st, places, p)

\* The token at k is the next one after s, and what is open is around it.
AtNext(s, t, n, st, m, places, k) ==
    /\ n \in Nat /\ Len(s) = n /\ (\A j \in 1..n : t[j] = s[j])
    /\ m \in Nat /\ Len(st) = m /\ Nested(s, st, places)
    /\ k = n + 1 /\ (\A i \in 1..n : AroundIn(t, i, k) <=> OpenIn(s, i)) /\ ~AroundIn(t, k, k)

\* Of the elements around the next token, the stack knows the innermost.
LEMMA InnermostNext ==
  ASSUME NEW s, NEW t, NEW n, NEW st, NEW m, NEW places, NEW k,
         AtNext(s, t, n, st, m, places, k)
  PROVE  \A name : \A i \in 1..k :
             IsInnermost(t, name, i, k)
                 <=> \E p \in 1..m : places[p] = i /\ IsTop(st, name, p, m)
<1> USE DEF AtNext
<1> TAKE name
<1> TAKE i \in 1..k
<1>0. /\ n \in Nat /\ m \in Nat /\ Len(s) = n /\ Len(st) = m
      /\ Nested(s, st, places) /\ k = n + 1
      /\ \A j \in 1..n : t[j] = s[j]
      /\ \A j \in 1..n : AroundIn(t, j, n + 1) <=> OpenIn(s, j)
      /\ ~AroundIn(t, n + 1, n + 1) /\ i \in 1..(n + 1)
  OBVIOUS
<1> USE <1>0
<1> HIDE DEF AtNext
<1>1. /\ places \in [1..m -> 1..n]
      /\ \A p, q \in 1..m : p < q => places[p] < places[q]
      /\ \A h \in 1..n : OpenIn(s, h) <=> \E p \in 1..m : places[p] = h
      /\ \A p \in 1..m : st[p].element = s[places[p]]
  BY DEF Nested
<1>2. \A p \in 1..m : places[p] \in 1..n /\ st[p].element = t[places[p]]
  BY <1>1
<1>3. ASSUME i = n + 1
      PROVE  IsInnermost(t, name, i, n + 1) <=> \E p \in 1..m : places[p] = i /\ IsTop(st, name, p, m)
  <2>1. ~IsInnermost(t, name, i, n + 1)
    BY <1>3 DEF IsInnermost
  <2>2. \A p \in 1..m : places[p] # i
    BY <1>2, <1>3
  <2> QED
    BY <2>1, <2>2
<1>4. ASSUME i \in 1..n
      PROVE  IsInnermost(t, name, i, n + 1) <=> \E p \in 1..m : places[p] = i /\ IsTop(st, name, p, m)
  <2>1. AroundIn(t, i, n + 1) <=> \E p \in 1..m : places[p] = i
    BY <1>1, <1>4
  <2>2. ASSUME NEW p \in 1..m, places[p] = i
        PROVE  IsInnermost(t, name, i, n + 1) <=> IsTop(st, name, p, m)
    <3>1. t[i].name = st[p].element.name /\ AroundIn(t, i, n + 1)
      BY <1>2, <2>1, <2>2
    <3>2. ASSUME NEW q \in (p + 1)..m, st[q].element.name = name
          PROVE  \E j \in (i + 1)..(n + 1) : t[j].name = name /\ AroundIn(t, j, n + 1)
      <4>1. q \in 1..m /\ p < q
        OBVIOUS
      <4>2. places[q] \in (i + 1)..(n + 1)
        <5>1. places[p] < places[q]
          BY <1>1, <4>1
        <5>2. places[q] \in 1..n
          BY <1>2, <4>1
        <5> QED
          BY <2>2, <5>1, <5>2
      <4>3. t[places[q]].name = name /\ AroundIn(t, places[q], n + 1)
        BY <1>1, <1>2, <3>2, <4>1
      <4> QED
        BY <4>2, <4>3
    <3>3. ASSUME NEW j \in (i + 1)..(n + 1), t[j].name = name, AroundIn(t, j, n + 1)
          PROVE  \E q \in (p + 1)..m : st[q].element.name = name
      <4>1. j \in 1..n
        BY <1>4, <3>3
      <4>2. PICK q \in 1..m : places[q] = j
        BY <1>1, <3>3, <4>1
      <4>3. ~(q < p) /\ q # p
        <5>1. q < p => places[q] < places[p]
          BY <1>1
        <5>2. places[q] = j /\ places[p] = i /\ i < j /\ i \in Nat /\ j \in Nat
          BY <1>4, <2>2, <4>1, <4>2
        <5> QED
          BY <5>1, <5>2
      <4>4. q \in (p + 1)..m
        BY <4>3
      <4> QED
        BY <1>2, <3>3, <4>2, <4>4
    <3> QED
      BY <3>1, <3>2, <3>3 DEF IsInnermost, IsTop
  <2> QED
    BY <2>1, <2>2 DEF IsInnermost
<1>5. IsInnermost(t, name, i, n + 1) <=> \E p \in 1..m : places[p] = i /\ IsTop(st, name, p, m)
  BY <1>3, <1>4
<1> QED
  BY <1>5

\* What is said of a frame still holds after more tokens that are no routes
\* within it.
LEMMA FamilyKnownKept ==
  ASSUME NEW st, NEW u, NEW p \in Nat \ {0},
         \A q \in 1..p : u[q].element = st[q].element /\ u[q].family = st[q].family,
         FamilyKnown(st, p)
  PROVE  FamilyKnown(u, p)
<1>1. p \in 1..p /\ u[p].family = st[p].family
  OBVIOUS
<1>2. \A q \in 1..p : IsTop(u, "family", q, p) <=> IsTop(st, "family", q, p)
  BY <1>1 DEF IsTop
<1> QED
  BY <1>1, <1>2 DEF FamilyKnown

LEMMA FamilyMeantKept ==
  ASSUME NEW s, NEW t, Len(s) \in Nat, \A j \in 1..Len(s) : t[j] = s[j],
         NEW st, NEW u, NEW places, NEW more, NEW p,
         u[p].element = st[p].element, u[p].family = st[p].family,
         more[p] = places[p], places[p] \in 1..Len(s),
         FamilyMeant(s, st, places, p)
  PROVE  FamilyMeant(t, u, more, p)
<1>1. \A j \in 1..places[p] : j \in 1..Len(s)
  OBVIOUS
<1>2. \A j \in 1..Len(s) :
          IsInnermost(t, "family", j, places[p]) <=> IsInnermost(s, "family", j, places[p])
  BY SameInnermost
<1> QED
  BY <1>1, <1>2 DEF FamilyMeant

LEMMA RouteWithinKept ==
  ASSUME NEW s, NEW t, Len(s) \in Nat, Len(t) \in Nat, Len(s) <= Len(t),
         \A j \in 1..Len(s) : t[j] = s[j], NEW i \in 1..Len(s),
         \A k \in (Len(s) + 1)..Len(t) :
             ~(RouteIn(t, k) /\ IsInnermost(t, "split-tunnel-info", i, k))
  PROVE  RouteWithin(t, i) <=> RouteWithin(s, i)
<1>1. \A k \in 1..Len(s) : /\ RouteIn(t, k) <=> RouteIn(s, k)
                           /\ IsInnermost(t, "split-tunnel-info", i, k)
                                  <=> IsInnermost(s, "split-tunnel-info", i, k)
  <2>1. \A k \in 1..Len(s) : RouteIn(t, k) <=> RouteIn(s, k)
    BY DEF RouteIn
  <2> QED
    BY <2>1, SameInnermost
<1>2. 1..Len(t) = (1..Len(s)) \cup ((Len(s) + 1)..Len(t))
  OBVIOUS
<1> QED
  BY <1>1, <1>2 DEF RouteWithin

LEMMA RoutesCountedKept ==
  ASSUME NEW s, NEW t, NEW st, NEW u, NEW places, NEW more, NEW p,
         u[p].element = st[p].element, u[p].routeCount = st[p].routeCount,
         more[p] = places[p],
         RouteWithin(t, places[p]) <=> RouteWithin(s, places[p]),
         RoutesCounted(s, st, places, p)
  PROVE  RoutesCounted(t, u, more, p)
BY DEF RoutesCounted, IsSplit

-----------------------------------------------------------------------------
(* The stack, token by token                                               *)

\* The family of a new frame.
LEMMA FrameAdded ==
  ASSUME NEW s, NEW t, NEW st, NEW u, NEW places, NEW more,
         Len(s) \in Nat, Len(t) = Len(s) + 1, \A j \in 1..Len(s) : t[j] = s[j],
         Len(st) \in Nat, Len(u) = Len(st) + 1, \A q \in 1..Len(st) : u[q] = st[q],
         t[Len(t)].name # "end", t[Len(t)].name # "route",
         u[Len(u)].element = t[Len(t)], u[Len(u)].routeCount = 0,
         u[Len(u)].family = IF t[Len(t)].name = "family" THEN t[Len(t)].family
                            ELSE IF Len(st) = 0 THEN 0 ELSE st[Len(st)].family,
         more[Len(u)] = Len(t),
         Nested(s, st, places), Len(st) # 0 => FamilyKnown(st, Len(st))
  PROVE  /\ FamilyKnown(u, Len(u)) /\ FamilyMeant(t, u, more, Len(u))
         /\ RoutesCounted(t, u, more, Len(u))
<1>0. PICK n \in Nat, m \in Nat :
          /\ Len(s) = n /\ Len(t) = n + 1 /\ \A j \in 1..n : t[j] = s[j]
          /\ t[n + 1].name # "end" /\ t[n + 1].name # "route"
          /\ Len(st) = m /\ Len(u) = m + 1 /\ \A q \in 1..m : u[q] = st[q]
          /\ u[m + 1].element = t[n + 1] /\ u[m + 1].routeCount = 0
          /\ u[m + 1].family = IF t[n + 1].name = "family" THEN t[n + 1].family
                                ELSE IF m = 0 THEN 0 ELSE st[m].family
          /\ more[m + 1] = n + 1 /\ (m # 0 => FamilyKnown(st, m))
  OBVIOUS
<1> USE <1>0
<1>1. /\ \A i \in 1..n : AroundIn(t, i, n + 1) <=> OpenIn(s, i)
      /\ ~AroundIn(t, n + 1, n + 1)
  BY AfterStart
<1>2. /\ places \in [1..m -> 1..n]
      /\ \A p \in 1..m : st[p].element = s[places[p]]
  BY DEF Nested
<1>3. ASSUME t[n + 1].name = "family" PROVE FamilyKnown(u, m + 1)
  <2>1. IsTop(u, "family", m + 1, m + 1)
    BY <1>3 DEF IsTop
  <2>2. m + 1 \in 1..(m + 1) /\ u[m + 1].family = u[m + 1].element.family
    BY <1>3
  <2> QED
    BY <2>1, <2>2, Zenon DEF FamilyKnown
<1>4. ASSUME t[n + 1].name # "family" PROVE FamilyKnown(u, m + 1)
  <2>1. CASE m = 0
    <3>1. u[m + 1].family = 0 /\ \A q \in 1..(m + 1) : u[q].element.name # "family"
      BY <1>4, <2>1
    <3> QED
      BY <3>1, Zenon DEF FamilyKnown
  <2>2. CASE m # 0
    <3>1. u[m + 1].family = st[m].family
      BY <1>4, <2>2
    <3>2. \A q \in 1..m : IsTop(u, "family", q, m + 1) <=> IsTop(st, "family", q, m)
      <4>1. TAKE q \in 1..m
      <4>2. (q + 1)..(m + 1) = ((q + 1)..m) \cup {m + 1}
        BY <4>1
      <4>3. u[m + 1].element.name # "family" /\ u[q] = st[q]
        BY <1>4, <4>1
      <4>4. \A r \in (q + 1)..m : u[r] = st[r]
        BY <4>1
      <4>5. (\A r \in (q + 1)..(m + 1) : u[r].element.name # "family")
                <=> \A r \in (q + 1)..m : st[r].element.name # "family"
        BY <4>2, <4>3, <4>4
      <4> QED
        BY <4>3, <4>5, Zenon DEF IsTop
    <3>3. CASE \E q \in 1..m : IsTop(st, "family", q, m) /\ st[m].family = st[q].element.family
      <4>1. PICK q \in 1..m : IsTop(st, "family", q, m) /\ st[m].family = st[q].element.family
        BY <3>3
      <4>2. q \in 1..(m + 1) /\ IsTop(u, "family", q, m + 1) /\ u[q] = st[q]
        BY <3>2, <4>1
      <4> QED
        BY <3>1, <4>1, <4>2, Zenon DEF FamilyKnown
    <3>4. CASE st[m].family = 0 /\ \A q \in 1..m : st[q].element.name # "family"
      <4>1. \A q \in 1..(m + 1) : u[q].element.name # "family"
        BY <1>4, <3>4
      <4> QED
        BY <3>1, <3>4, <4>1, Zenon DEF FamilyKnown
    <3> QED
      BY <2>2, <3>3, <3>4 DEF FamilyKnown
  <2> QED
    BY <2>1, <2>2
<1>5. FamilyKnown(u, m + 1)
  BY <1>3, <1>4
<1>6. ASSUME u[m + 1].element.name # "family", NEW f \in Families
      PROVE  u[m + 1].family = f <=> \E j \in 1..(n + 1) : /\ IsInnermost(t, "family", j, n + 1)
                                                      /\ t[j].family = f
  <2>1. \A j \in 1..(n + 1) :
            IsInnermost(t, "family", j, n + 1)
                <=> \E p \in 1..m : places[p] = j /\ IsTop(st, "family", p, m)
    <3>1. PICK k : k = n + 1
      OBVIOUS
    <3>2. /\ \A i \in 1..n : AroundIn(t, i, k) <=> OpenIn(s, i)
          /\ ~AroundIn(t, k, k)
      BY <1>1, <3>1
    <3>3. \A j \in 1..k : IsInnermost(t, "family", j, k)
                               <=> \E p \in 1..m : places[p] = j /\ IsTop(st, "family", p, m)
      <4>1. AtNext(s, t, n, st, m, places, k)
        BY <3>1, <3>2 DEF AtNext
      <4> QED
        BY <4>1, InnermostNext
    <3> QED
      BY <3>1, <3>3
  <2>2. (\E j \in 1..(n + 1) : IsInnermost(t, "family", j, n + 1) /\ t[j].family = f)
            <=> \E p \in 1..m : IsTop(st, "family", p, m) /\ st[p].element.family = f
    <3>1. \A p \in 1..m : places[p] \in 1..(n + 1) /\ t[places[p]] = st[p].element
      BY <1>2
    <3>2. ASSUME NEW j \in 1..(n + 1), IsInnermost(t, "family", j, n + 1), t[j].family = f
          PROVE  \E p \in 1..m : IsTop(st, "family", p, m) /\ st[p].element.family = f
      <4>1. PICK p \in 1..m : places[p] = j /\ IsTop(st, "family", p, m)
        BY <2>1, <3>2
      <4> QED
        BY <3>1, <3>2, <4>1
    <3>3. ASSUME NEW p \in 1..m, IsTop(st, "family", p, m), st[p].element.family = f
          PROVE  \E j \in 1..(n + 1) : IsInnermost(t, "family", j, n + 1) /\ t[j].family = f
      <4>1. places[p] \in 1..(n + 1) /\ t[places[p]].family = f
        BY <3>1, <3>3
      <4>2. IsInnermost(t, "family", places[p], n + 1)
        BY <2>1, <3>3, <4>1
      <4> QED
        BY <4>1, <4>2
    <3> QED
      BY <3>2, <3>3
  <2>3. CASE m = 0
    BY <1>6, <2>2, <2>3 DEF Families
  <2>4. CASE m # 0
    <3>1. u[m + 1].family = st[m].family
      BY <1>6, <2>4
    <3>2. CASE st[m].family = 0 /\ \A q \in 1..m : st[q].element.name # "family"
      BY <2>2, <3>1, <3>2 DEF IsTop, Families
    <3>3. ASSUME NEW q \in 1..m, IsTop(st, "family", q, m), st[m].family = st[q].element.family
          PROVE  u[m + 1].family = f
                     <=> \E p \in 1..m : IsTop(st, "family", p, m) /\ st[p].element.family = f
      <4>1. \A p \in 1..m : IsTop(st, "family", p, m) => p = q
        <5>1. SUFFICES ASSUME NEW p \in 1..m, IsTop(st, "family", p, m), p # q PROVE FALSE
          OBVIOUS
        <5>2. p \in (q + 1)..m \/ q \in (p + 1)..m
          BY <5>1
        <5> QED
          BY <3>3, <5>1, <5>2 DEF IsTop
      <4> QED
        BY <3>1, <3>3, <4>1
    <3> QED
      BY <2>2, <2>4, <3>2, <3>3 DEF FamilyKnown
  <2> QED
    BY <2>3, <2>4
<1>7. FamilyMeant(t, u, more, m + 1)
  BY <1>6 DEF FamilyMeant
<1>8. RoutesCounted(t, u, more, m + 1)
  <2>1. \A k \in 1..(n + 1) : n + 1 \in 1..k => k = n + 1
    OBVIOUS
  <2>2. ~RouteIn(t, n + 1)
    BY DEF RouteIn
  <2> QED
    BY <2>1, <2>2 DEF RoutesCounted, RouteWithin
<1> QED
  BY <1>5, <1>7, <1>8

LEMMA StartFrames ==
  ASSUME NEW S, NEW s \in Seq(S), NEW e \in S, e.name # "end", e.name # "route",
         NEW F, NEW st \in Seq(F), NEW frame \in F,
         frame.element = e, frame.routeCount = 0,
         frame.family = IF e.name = "family" THEN e.family ELSE FamilyOf(st),
         NEW places, Nested(s, st, places), FramesRight(s, st, places)
  PROVE  \E more : /\ Nested(Append(s, e), Append(st, frame), more)
                   /\ FramesRight(Append(s, e), Append(st, frame), more)
<1>1. PICK t, u, n, m : /\ t = Append(s, e) /\ u = Append(st, frame)
                        /\ n = Len(s) /\ m = Len(st)
  OBVIOUS
<1>2. /\ n \in Nat /\ Len(t) = n + 1 /\ t[n + 1] = e
      /\ \A j \in 1..n : t[j] = s[j]
  BY <1>1, AppendProperties, LenProperties
<1>3. /\ m \in Nat /\ Len(u) = m + 1 /\ u[m + 1] = frame
      /\ \A q \in 1..m : u[q] = st[q]
  BY <1>1, AppendProperties, LenProperties
<1> DEFINE more == [p \in 1..(m + 1) |-> IF p = m + 1 THEN n + 1 ELSE places[p]]
<1>4. /\ places \in [1..m -> 1..n]
      /\ \A p, q \in 1..m : p < q => places[p] < places[q]
      /\ \A i \in 1..n : OpenIn(s, i) <=> \E p \in 1..m : places[p] = i
      /\ \A p \in 1..m : st[p].element = s[places[p]] /\ DepthIn(s, places[p]) = p
      /\ DepthIn(s, n) = m
  BY <1>1 DEF Nested
<1>5. /\ more \in [1..(m + 1) -> 1..(n + 1)] /\ more[m + 1] = n + 1
      /\ \A p \in 1..m : more[p] = places[p] /\ places[p] \in 1..n
  BY <1>2, <1>3, <1>4
<1> HIDE DEF more
<1>6. /\ DepthIn(t, n + 1) = m + 1
      /\ \A i \in 1..n : DepthIn(t, i) = DepthIn(s, i)
      /\ \A i \in 1..n : OpenIn(t, i) <=> OpenIn(s, i)
      /\ OpenIn(t, n + 1)
  <2>1. /\ DepthIn(t, n + 1) = DepthIn(s, n) + 1
        /\ \A i \in 1..n : DepthIn(t, i) = DepthIn(s, i)
        /\ \A i \in 1..n : OpenIn(t, i) <=> OpenIn(s, i)
        /\ OpenIn(t, n + 1)
    <3>1. Len(s) = n /\ t[n + 1].name # "end"
      BY <1>1, <1>2
    <3> QED
      BY <1>2, <3>1, AfterStart
  <2> QED
    BY <1>4, <2>1
<1>7. Nested(t, u, more)
  <2>1. ASSUME NEW p \in 1..(m + 1), NEW q \in 1..(m + 1), p < q PROVE more[p] < more[q]
    <3>1. p \in 1..m /\ more[p] = places[p] /\ places[p] \in 1..n
      BY <1>3, <1>5, <2>1
    <3>2. CASE q = m + 1
      BY <1>2, <1>5, <3>1, <3>2
    <3>3. CASE q \in 1..m
      BY <1>4, <1>5, <2>1, <3>1, <3>3
    <3> QED
      BY <1>3, <3>2, <3>3
  <2>2. ASSUME NEW i \in 1..(n + 1)
        PROVE  OpenIn(t, i) <=> \E p \in 1..(m + 1) : more[p] = i
    <3>1. CASE i = n + 1
      BY <1>3, <1>5, <1>6, <3>1
    <3>2. CASE i \in 1..n
      BY <1>2, <1>3, <1>4, <1>5, <1>6, <3>2
    <3> QED
      BY <1>2, <3>1, <3>2
  <2>3. ASSUME NEW p \in 1..(m + 1)
        PROVE  u[p].element = t[more[p]] /\ DepthIn(t, more[p]) = p
    <3>1. CASE p = m + 1
      BY <1>2, <1>3, <1>5, <1>6, <3>1
    <3>2. CASE p \in 1..m
      <4>1. more[p] = places[p] /\ places[p] \in 1..n
        BY <1>5, <3>2
      <4>2. u[p] = st[p] /\ t[places[p]] = s[places[p]]
        BY <1>2, <1>3, <3>2, <4>1
      <4> QED
        BY <1>4, <1>6, <3>2, <4>1, <4>2
    <3> QED
      BY <1>3, <3>1, <3>2
  <2> QED
    BY <1>2, <1>3, <1>5, <1>6, <2>1, <2>2, <2>3 DEF Nested
<1>8. FramesRight(t, u, more)
  <2>1. ASSUME NEW p \in 1..m
        PROVE  FamilyKnown(u, p) /\ FamilyMeant(t, u, more, p) /\ RoutesCounted(t, u, more, p)
    <3>1. FamilyKnown(st, p) /\ FamilyMeant(s, st, places, p) /\ RoutesCounted(s, st, places, p)
      BY <1>1 DEF FramesRight
    <3>2. /\ p \in Nat \ {0} /\ \A q \in 1..p : u[q] = st[q]
          /\ more[p] = places[p] /\ places[p] \in 1..n
      BY <1>3, <1>5
    <3>3. /\ Len(s) = n /\ n \in Nat /\ n + 1 \in Nat /\ n <= n + 1
          /\ \A k \in (n + 1)..(n + 1) : ~RouteIn(t, k)
      BY <1>1, <1>2 DEF RouteIn
    <3>4. FamilyKnown(u, p)
      BY <3>1, <3>2, FamilyKnownKept
    <3>5. u[p] = st[p]
      BY <1>3
    <3>6. FamilyMeant(t, u, more, p)
      <4>1. /\ Len(s) \in Nat /\ \A j \in 1..Len(s) : t[j] = s[j]
            /\ u[p].element = st[p].element /\ u[p].family = st[p].family
            /\ more[p] = places[p] /\ places[p] \in 1..Len(s)
        BY <1>2, <3>2, <3>3, <3>5
      <4> QED
        BY <3>1, <4>1, FamilyMeantKept
    <3>7. RoutesCounted(t, u, more, p)
      <4>1. RouteWithin(t, places[p]) <=> RouteWithin(s, places[p])
        BY <1>2, <3>2, <3>3, RouteWithinKept
      <4> QED
        BY <3>1, <3>2, <3>5, <4>1, RoutesCountedKept
    <3> QED
      BY <3>4, <3>6, <3>7
  <2>2. /\ FamilyKnown(u, m + 1) /\ FamilyMeant(t, u, more, m + 1)
        /\ RoutesCounted(t, u, more, m + 1)
    <3>1. u[m + 1].family = IF t[n + 1].name = "family" THEN t[n + 1].family
                            ELSE IF m = 0 THEN 0 ELSE st[m].family
      <4>1. FamilyOf(st) = IF m = 0 THEN 0 ELSE st[m].family
        <5>1. st = <<>> <=> m = 0
          BY <1>1, EmptySeq
        <5> QED
          BY <1>1, <5>1 DEF FamilyOf
      <4> QED
        BY <1>2, <1>3, <4>1
    <3>2. m # 0 => FamilyKnown(st, m)
      BY <1>1, <1>3 DEF FramesRight
    <3>3. /\ u[m + 1].element = t[n + 1] /\ u[m + 1].routeCount = 0
          /\ t[n + 1].name # "end" /\ t[n + 1].name # "route" /\ more[m + 1] = n + 1
      BY <1>2, <1>3, <1>5
    <3>4. /\ Len(s) \in Nat /\ Len(t) = Len(s) + 1 /\ \A j \in 1..Len(s) : t[j] = s[j]
          /\ Len(st) \in Nat /\ Len(u) = Len(st) + 1 /\ \A q \in 1..Len(st) : u[q] = st[q]
      BY <1>1, <1>2, <1>3
    <3>5. /\ t[Len(t)].name # "end" /\ t[Len(t)].name # "route"
          /\ u[Len(u)].element = t[Len(t)] /\ u[Len(u)].routeCount = 0
          /\ more[Len(u)] = Len(t)
      BY <1>2, <1>3, <3>3
    <3>6. u[Len(u)].family = IF t[Len(t)].name = "family" THEN t[Len(t)].family
                             ELSE IF Len(st) = 0 THEN 0 ELSE st[Len(st)].family
      BY <1>1, <1>2, <1>3, <3>1
    <3>7. Len(st) # 0 => FamilyKnown(st, Len(st))
      BY <1>1, <3>2
    <3>8. /\ FamilyKnown(u, Len(u)) /\ FamilyMeant(t, u, more, Len(u))
          /\ RoutesCounted(t, u, more, Len(u))
      BY <3>4, <3>5, <3>6, <3>7, FrameAdded
    <3> QED
      BY <1>3, <3>8
  <2>3. 1..(m + 1) = (1..m) \cup {m + 1}
    BY <1>3
  <2> QED
    BY <1>3, <2>1, <2>2, <2>3 DEF FramesRight
<1> QED
  BY <1>1, <1>7, <1>8

Frames == [element : Containers, family : {0} \cup Families, routeCount : Nat]

\* MarkRoute counts at the innermost split tunnel.
LEMMA MarkedFrames ==
  ASSUME NEW st \in Seq(Frames), NEW m, m = Len(st), NEW u, u = MarkRoute(st)
  PROVE  /\ u \in Seq(Frames) /\ Len(u) = m
         /\ \A p \in 1..m : /\ u[p].element = st[p].element /\ u[p].family = st[p].family
                            /\ u[p].routeCount = st[p].routeCount
                                   + (IF IsTop(st, "split-tunnel-info", p, m) THEN 1 ELSE 0)
<1>1. m \in Nat /\ DOMAIN st = 1..m /\ \A p \in 1..m : st[p] \in Frames
  BY LenProperties
<1> DEFINE Around1 == {i \in DOMAIN st : IsSplit(st[i])}
           Top(p) == p \in Around1 /\ \A j \in Around1 : j <= p
<1>2. u = [p \in 1..m |-> IF Top(p) THEN [st[p] EXCEPT !.routeCount = @ + 1] ELSE st[p]]
  BY <1>1 DEF MarkRoute
<1>3. ASSUME NEW p \in 1..m PROVE Top(p) <=> IsTop(st, "split-tunnel-info", p, m)
  <2>1. ASSUME Top(p), NEW q \in (p + 1)..m PROVE st[q].element.name # "split-tunnel-info"
    <3>1. q \in 1..m /\ ~(q <= p)
      BY <1>1
    <3> QED
      BY <1>1, <2>1, <3>1 DEF IsSplit
  <2>2. ASSUME IsTop(st, "split-tunnel-info", p, m), NEW q \in Around1 PROVE q <= p
    <3>1. q \in 1..m /\ st[q].element.name = "split-tunnel-info"
      BY <1>1 DEF IsSplit
    <3>2. q \notin (p + 1)..m
      BY <2>2, <3>1 DEF IsTop
    <3> QED
      BY <1>1, <3>1, <3>2
  <2> QED
    BY <1>1, <2>1, <2>2 DEF IsTop, IsSplit
<1> HIDE DEF Top
<1>4. ASSUME NEW p \in 1..m
      PROVE  /\ u[p] \in Frames
             /\ u[p].element = st[p].element /\ u[p].family = st[p].family
             /\ u[p].routeCount = st[p].routeCount
                    + (IF IsTop(st, "split-tunnel-info", p, m) THEN 1 ELSE 0)
  <2>1. st[p] \in Frames /\ u[p] = IF Top(p) THEN [st[p] EXCEPT !.routeCount = @ + 1] ELSE st[p]
    BY <1>1, <1>2
  <2> QED
    BY <1>3, <2>1 DEF Frames
<1>5. u \in [1..m -> Frames]
  BY <1>2, <1>4
<1>6. u \in Seq(Frames) /\ Len(u) = m
  BY <1>1, <1>5, LenProperties
<1> QED
  BY <1>4, <1>6

LEMMA TwoMore ==
  ASSUME NEW S, NEW s \in Seq(S), NEW e \in S, NEW z \in S,
         NEW t, t = s \o <<e, z>>, NEW n, n = Len(s)
  PROVE  /\ n \in Nat /\ Len(t) = n + 2 /\ t[n + 1] = e /\ t[n + 2] = z
         /\ \A j \in 1..n : t[j] = s[j]
<1>1. <<e, z>> \in Seq(S) /\ Len(<<e, z>>) = 2
  OBVIOUS
<1>2. n \in Nat /\ Len(t) = n + 2
  BY <1>1, ConcatProperties, LenProperties
<1>3. \A j \in 1..(n + 2) : t[j] = IF j <= n THEN s[j] ELSE <<e, z>>[j - n]
  BY <1>1, <1>2, ConcatProperties
<1>4. \A j \in 1..n : t[j] = s[j]
  BY <1>2, <1>3
<1>5. n + 1 \in 1..(n + 2) /\ n + 2 \in 1..(n + 2) /\ (n + 1) - n = 1 /\ (n + 2) - n = 2
      /\ ~(n + 1 <= n) /\ ~(n + 2 <= n)
  BY <1>2
<1>6. t[n + 1] = <<e, z>>[1] /\ t[n + 2] = <<e, z>>[2]
  BY <1>3, <1>5
<1> QED
  BY <1>2, <1>4, <1>6

\* An element without content, perhaps a route.
LEMMA EmptyFrames ==
  ASSUME NEW S, NEW s \in Seq(S), NEW e \in S, NEW z \in S,
         e.name \in {"route", "assigned-addr"}, z.name = "end",
         NEW st \in Seq(Frames), NEW u,
         u = IF e.name = "route" /\ e.destination # "unparsable" THEN MarkRoute(st) ELSE st,
         NEW places, Nested(s, st, places), FramesRight(s, st, places)
  PROVE  /\ Nested(s \o <<e, z>>, u, places)
         /\ FramesRight(s \o <<e, z>>, u, places)
<1> DEFINE split == "split-tunnel-info"
<1>1. PICK t, n, m : t = s \o <<e, z>> /\ n = Len(s) /\ m = Len(st)
  OBVIOUS
<1>2. /\ n \in Nat /\ Len(t) = n + 2 /\ t[n + 1] = e /\ t[n + 2] = z
      /\ \A j \in 1..n : t[j] = s[j]
  BY <1>1, TwoMore
<1>3. /\ m \in Nat /\ Len(u) = m
      /\ \A p \in 1..m : u[p].element = st[p].element /\ u[p].family = st[p].family
  BY <1>1, MarkedFrames, LenProperties
<1>4. /\ places \in [1..m -> 1..n]
      /\ \A p, q \in 1..m : p < q => places[p] < places[q]
      /\ \A i \in 1..n : OpenIn(s, i) <=> \E p \in 1..m : places[p] = i
      /\ \A p \in 1..m : st[p].element = s[places[p]] /\ DepthIn(s, places[p]) = p
      /\ DepthIn(s, n) = m
  BY <1>1 DEF Nested
<1>5. /\ DepthIn(t, n + 2) = DepthIn(s, n)
      /\ \A i \in 1..n : DepthIn(t, i) = DepthIn(s, i)
      /\ \A i \in 1..n : OpenIn(t, i) <=> OpenIn(s, i)
      /\ \A i \in 1..n : AroundIn(t, i, n + 1) <=> OpenIn(s, i)
      /\ ~OpenIn(t, n + 1) /\ ~OpenIn(t, n + 2) /\ ~AroundIn(t, n + 1, n + 1)
  <2>1. Len(s) = n /\ t[n + 1].name # "end" /\ t[n + 2].name = "end"
    BY <1>1, <1>2
  <2> QED
    BY <1>2, <2>1, AfterBoth
<1>6. Nested(t, u, places)
  <2>1. \A p \in 1..m : places[p] \in 1..n /\ places[p] \in 1..(n + 2)
    BY <1>2, <1>4
  <2>2. places \in [1..m -> 1..(n + 2)]
    BY <1>4, <2>1
  <2>3. ASSUME NEW i \in 1..(n + 2)
        PROVE  OpenIn(t, i) <=> \E p \in 1..m : places[p] = i
    <3>1. CASE i \in 1..n
      BY <1>4, <1>5, <3>1
    <3>2. CASE i \in {n + 1, n + 2}
      BY <1>2, <1>5, <2>1, <3>2
    <3> QED
      BY <1>2, <3>1, <3>2
  <2>4. \A p \in 1..m : u[p].element = t[places[p]] /\ DepthIn(t, places[p]) = p
    BY <1>2, <1>3, <1>4, <1>5, <2>1
  <2> QED
    BY <1>2, <1>3, <1>4, <1>5, <2>2, <2>3, <2>4 DEF Nested
<1>7. FramesRight(t, u, places)
  <2>1. ASSUME NEW p \in 1..m
        PROVE  FamilyKnown(u, p) /\ FamilyMeant(t, u, places, p) /\ RoutesCounted(t, u, places, p)
    <3>1. FamilyKnown(st, p) /\ FamilyMeant(s, st, places, p) /\ RoutesCounted(s, st, places, p)
      BY <1>1 DEF FramesRight
    <3>2. /\ p \in Nat \ {0} /\ places[p] \in 1..n
          /\ \A q \in 1..p : u[q].element = st[q].element /\ u[q].family = st[q].family
      BY <1>3, <1>4
    <3>3. FamilyKnown(u, p)
      BY <3>1, <3>2, FamilyKnownKept
    <3>4. FamilyMeant(t, u, places, p)
      <4>1. /\ Len(s) \in Nat /\ \A j \in 1..Len(s) : t[j] = s[j]
            /\ u[p].element = st[p].element /\ u[p].family = st[p].family
            /\ places[p] \in 1..Len(s)
        BY <1>1, <1>2, <1>3, <3>2
      <4> QED
        BY <3>1, <4>1, FamilyMeantKept
    <3>5. AtNext(s, t, n, st, m, places, n + 1)
      BY <1>1, <1>2, <1>3, <1>5 DEF AtNext
    <3>6. places[p] \in 1..(n + 1)
      BY <1>2, <3>2
    <3>7. IsInnermost(t, split, places[p], n + 1)
              <=> \E q \in 1..m : places[q] = places[p] /\ IsTop(st, split, q, m)
      BY <3>5, <3>6, InnermostNext
    <3>8. IsInnermost(t, split, places[p], n + 1) <=> IsTop(st, split, p, m)
      <4>1. \A q \in 1..m : places[q] = places[p] => q = p
        <5>1. SUFFICES ASSUME NEW q \in 1..m, places[q] = places[p], q # p PROVE FALSE
          OBVIOUS
        <5>2. q < p \/ p < q
          BY <5>1
        <5>3. places[q] \in Nat
          BY <1>4
        <5> QED
          BY <1>4, <5>1, <5>2, <5>3
      <4> QED
        BY <3>7, <4>1
    <3>9. RoutesCounted(t, u, places, p)
      <4>1. CASE RouteIn(t, n + 1) /\ IsTop(st, split, p, m)
        <5>1. u[p].routeCount = st[p].routeCount + 1 /\ st[p].routeCount \in Nat
          <6>1. u = MarkRoute(st) /\ st[p] \in Frames
            BY <1>1, <1>2, <4>1, LenProperties DEF RouteIn
          <6> QED
            BY <1>1, <4>1, <6>1, MarkedFrames DEF Frames
        <5>2. n + 1 \in 1..(n + 2) /\ places[p] \in 1..(n + 1)
          BY <1>2, <3>6
        <5> QED
          BY <1>2, <3>8, <4>1, <5>1, <5>2 DEF RoutesCounted, RouteWithin
      <4>2. CASE ~(RouteIn(t, n + 1) /\ IsTop(st, split, p, m))
        <5>1. u[p].routeCount = st[p].routeCount
          <6>1. st[p] \in Frames /\ (RouteIn(t, n + 1) <=> e.name = "route" /\ e.destination # "unparsable")
            BY <1>1, <1>2, LenProperties DEF RouteIn
          <6>2. CASE RouteIn(t, n + 1)
            <7>1. u = MarkRoute(st) /\ ~IsTop(st, split, p, m)
              BY <4>2, <6>1, <6>2
            <7>2. u[p].routeCount = st[p].routeCount + 0
              BY <1>1, <7>1, MarkedFrames
            <7> QED
              BY <6>1, <7>2 DEF Frames
          <6> QED
            BY <6>1, <6>2
        <5>2. ~RouteIn(t, n + 2)
          BY <1>2 DEF RouteIn
        <5>3. \A k \in (n + 1)..(n + 2) : ~(RouteIn(t, k) /\ IsInnermost(t, split, places[p], k))
          <6>1. (n + 1)..(n + 2) = {n + 1, n + 2}
            BY <1>2
          <6> QED
            BY <3>8, <4>2, <5>2, <6>1
        <5>4. /\ Len(s) \in Nat /\ Len(t) \in Nat /\ Len(s) <= Len(t)
              /\ \A j \in 1..Len(s) : t[j] = s[j]
              /\ u[p].element = st[p].element /\ places[p] \in 1..Len(s)
          BY <1>1, <1>2, <1>3, <3>2
        <5>5. \A k \in (Len(s) + 1)..Len(t) :
                  ~(RouteIn(t, k) /\ IsInnermost(t, split, places[p], k))
          BY <1>1, <1>2, <5>3
        <5>6. RouteWithin(t, places[p]) <=> RouteWithin(s, places[p])
          BY <5>4, <5>5, RouteWithinKept
        <5> QED
          BY <3>1, <5>1, <5>4, <5>6, RoutesCountedKept
      <4> QED
        BY <4>1, <4>2
    <3> QED
      BY <3>3, <3>4, <3>9
  <2> QED
    BY <1>3, <2>1 DEF FramesRight
<1> QED
  BY <1>1, <1>6, <1>7

\* The end of the innermost open element.
LEMMA EndFrames ==
  ASSUME NEW S, NEW s \in Seq(S), NEW z \in S, z.name = "end",
         NEW st \in Seq(Frames), st # <<>>,
         NEW places, Nested(s, st, places), FramesRight(s, st, places)
  PROVE  \E more : /\ Nested(Append(s, z), SubSeq(st, 1, Len(st) - 1), more)
                   /\ FramesRight(Append(s, z), SubSeq(st, 1, Len(st) - 1), more)
<1>1. PICK t, u, n, m : /\ t = Append(s, z) /\ u = SubSeq(st, 1, Len(st) - 1)
                        /\ n = Len(s) /\ m = Len(st) - 1
  OBVIOUS
<1>2. /\ n \in Nat /\ Len(t) = n + 1 /\ t[n + 1] = z
      /\ \A j \in 1..n : t[j] = s[j]
  BY <1>1, AppendProperties, LenProperties
<1>3. /\ m \in Nat /\ Len(st) = m + 1 /\ Len(u) = m
      /\ \A q \in 1..m : u[q] = st[q]
  <2>1. Len(st) \in Nat /\ Len(st) # 0
    BY EmptySeq, LenProperties
  <2>2. m \in Nat /\ Len(st) = m + 1 /\ u = SubSeq(st, 1, m)
    BY <1>1, <2>1
  <2> QED
    BY <2>2, SubSeqProperties
<1> DEFINE more == [p \in 1..m |-> places[p]]
<1>4. /\ places \in [1..(m + 1) -> 1..n]
      /\ \A p, q \in 1..(m + 1) : p < q => places[p] < places[q]
      /\ \A i \in 1..n : OpenIn(s, i) <=> \E p \in 1..(m + 1) : places[p] = i
      /\ \A p \in 1..(m + 1) : st[p].element = s[places[p]] /\ DepthIn(s, places[p]) = p
      /\ DepthIn(s, n) = m + 1
  BY <1>1, <1>3 DEF Nested
<1>5. /\ more \in [1..m -> 1..(n + 1)]
      /\ \A p \in 1..m : more[p] = places[p] /\ places[p] \in 1..n
  BY <1>2, <1>3, <1>4
<1> HIDE DEF more
<1>6. /\ DepthIn(t, n + 1) = m
      /\ \A i \in 1..n : DepthIn(t, i) = DepthIn(s, i)
      /\ \A i \in 1..n : OpenIn(t, i) <=> OpenIn(s, i) /\ DepthIn(s, i) < m + 1
      /\ ~OpenIn(t, n + 1)
  <2>1. /\ DepthIn(t, n + 1) = DepthIn(s, n) - 1
        /\ \A i \in 1..n : DepthIn(t, i) = DepthIn(s, i)
        /\ \A i \in 1..n : OpenIn(t, i) <=> OpenIn(s, i) /\ DepthIn(s, i) < DepthIn(s, n)
        /\ ~OpenIn(t, n + 1)
    <3>1. Len(s) = n /\ t[n + 1].name = "end"
      BY <1>1, <1>2
    <3>2. AtEnd(s, t, n)
      BY <1>2, <3>1 DEF AtEnd
    <3> QED
      BY <3>2, AfterEnd
  <2> QED
    BY <1>3, <1>4, <2>1
<1>7. Nested(t, u, more)
  <2>1. ASSUME NEW p \in 1..m, NEW q \in 1..m, p < q PROVE more[p] < more[q]
    <3>1. p \in 1..(m + 1) /\ q \in 1..(m + 1)
      BY <1>3
    <3>2. places[p] < places[q]
      BY <1>4, <2>1, <3>1
    <3> QED
      BY <1>5, <3>2
  <2>2. ASSUME NEW i \in 1..(n + 1)
        PROVE  OpenIn(t, i) <=> \E p \in 1..m : more[p] = i
    <3>1. CASE i = n + 1
      BY <1>2, <1>5, <1>6, <3>1
    <3>2. CASE i \in 1..n
      <4>1. ASSUME OpenIn(t, i) PROVE \E p \in 1..m : more[p] = i
        <5>1. PICK p \in 1..(m + 1) : places[p] = i
          BY <1>4, <1>6, <3>2, <4>1
        <5>2. p < m + 1
          BY <1>4, <1>6, <3>2, <4>1, <5>1
        <5> QED
          BY <1>3, <1>5, <5>1, <5>2
      <4>2. ASSUME NEW p \in 1..m, more[p] = i PROVE OpenIn(t, i)
        <5>1. p \in 1..(m + 1) /\ p < m + 1 /\ places[p] = i
          BY <1>3, <1>5, <4>2
        <5> QED
          BY <1>4, <1>6, <3>2, <5>1
      <4> QED
        BY <4>1, <4>2
    <3> QED
      BY <1>2, <3>1, <3>2
  <2>3. ASSUME NEW p \in 1..m
        PROVE  u[p].element = t[more[p]] /\ DepthIn(t, more[p]) = p
    <3>1. more[p] = places[p] /\ places[p] \in 1..n /\ p \in 1..(m + 1)
      BY <1>3, <1>5
    <3>2. u[p] = st[p] /\ t[places[p]] = s[places[p]]
      BY <1>2, <1>3, <3>1
    <3> QED
      BY <1>4, <1>6, <3>1, <3>2
  <2> QED
    BY <1>2, <1>3, <1>5, <1>6, <2>1, <2>2, <2>3 DEF Nested
<1>8. ASSUME NEW p \in 1..m
      PROVE  FamilyKnown(u, p) /\ FamilyMeant(t, u, more, p) /\ RoutesCounted(t, u, more, p)
  <2>1. FamilyKnown(st, p) /\ FamilyMeant(s, st, places, p) /\ RoutesCounted(s, st, places, p)
    <3>1. p \in 1..Len(st)
      BY <1>3
    <3> QED
      BY <3>1 DEF FramesRight
  <2>2. /\ p \in Nat \ {0} /\ \A q \in 1..p : u[q] = st[q]
        /\ more[p] = places[p] /\ places[p] \in 1..n /\ u[p] = st[p]
    BY <1>3, <1>5
  <2>3. FamilyKnown(u, p)
    BY <2>1, <2>2, FamilyKnownKept
  <2>4. FamilyMeant(t, u, more, p)
    <3>1. Len(s) \in Nat /\ \A j \in 1..Len(s) : t[j] = s[j]
      BY <1>1, <1>2
    <3>2. /\ u[p].element = st[p].element /\ u[p].family = st[p].family
          /\ more[p] = places[p] /\ places[p] \in 1..Len(s)
      BY <1>1, <2>2
    <3> QED
      BY <2>1, <3>1, <3>2, FamilyMeantKept
  <2>5. RouteWithin(t, places[p]) <=> RouteWithin(s, places[p])
    <3>1. /\ Len(s) = n /\ n \in Nat /\ n + 1 \in Nat /\ n <= n + 1
          /\ \A k \in (n + 1)..(n + 1) : ~RouteIn(t, k)
      BY <1>1, <1>2 DEF RouteIn
    <3> QED
      BY <1>2, <2>2, <3>1, RouteWithinKept
  <2>6. RoutesCounted(t, u, more, p)
    BY <2>1, <2>2, <2>5, RoutesCountedKept
  <2> QED
    BY <2>3, <2>4, <2>6
<1>9. FramesRight(t, u, more)
  BY <1>3, <1>8 DEF FramesRight
<1> QED
  BY <1>1, <1>7, <1>9

-----------------------------------------------------------------------------
(* What has been read                                                      *)

Listed(s, f) == {s[k].destination : k \in {j \in 1..Len(s) : RouteIn(s, j) /\ s[j].family = f}}

\* A split tunnel that has been read to its end stands for the family.
WholeRead(s, f) == \E i \in 1..Len(s) : ~OpenIn(s, i) /\ WholeFamilyIn(s, i, f)

ReadIn(s, f) == Listed(s, f) \cup (IF WholeRead(s, f) THEN {"default"} ELSE {})

LEMMA WholeFamilyKept ==
  ASSUME NEW s, NEW t, Len(s) \in Nat, \A j \in 1..Len(s) : t[j] = s[j],
         NEW i \in 1..Len(s), NEW f,
         RouteWithin(t, i) <=> RouteWithin(s, i)
  PROVE  WholeFamilyIn(t, i, f) <=> WholeFamilyIn(s, i, f)
<1>1. t[i] = s[i] /\ \A j \in 1..i : j \in 1..Len(s) /\ t[j] = s[j]
  OBVIOUS
<1>2. \A j \in 1..Len(s) : IsInnermost(t, "family", j, i) <=> IsInnermost(s, "family", j, i)
  BY SameInnermost
<1> QED
  BY <1>1, <1>2 DEF WholeFamilyIn

LEMMA StartRead ==
  ASSUME NEW S, NEW s \in Seq(S), NEW e \in S, e.name # "end", e.name # "route", NEW f
  PROVE  ReadIn(Append(s, e), f) = ReadIn(s, f)
<1>1. PICK t, n : t = Append(s, e) /\ n = Len(s)
  OBVIOUS
<1>2. /\ n \in Nat /\ Len(t) = n + 1 /\ t[n + 1] = e /\ Len(s) = n
      /\ \A j \in 1..n : t[j] = s[j]
  BY <1>1, AppendProperties, LenProperties
<1>3. /\ \A i \in 1..n : OpenIn(t, i) <=> OpenIn(s, i)
      /\ OpenIn(t, n + 1)
  <2>1. t[n + 1].name # "end"
    BY <1>2
  <2> QED
    BY <1>2, <2>1, AfterStart
<1>4. \A j \in 1..n : RouteIn(t, j) <=> RouteIn(s, j)
  BY <1>2 DEF RouteIn
<1>5. ~RouteIn(t, n + 1) /\ 1..(n + 1) = (1..n) \cup {n + 1}
  BY <1>2 DEF RouteIn
<1>6. Listed(t, f) = Listed(s, f)
  BY <1>2, <1>4, <1>5 DEF Listed
<1>7. ASSUME NEW i \in 1..n PROVE WholeFamilyIn(t, i, f) <=> WholeFamilyIn(s, i, f)
  <2>1. /\ n + 1 \in Nat /\ n <= n + 1 /\ \A k \in (n + 1)..(n + 1) : ~RouteIn(t, k)
    BY <1>2, <1>5
  <2>2. RouteWithin(t, i) <=> RouteWithin(s, i)
    BY <1>2, <2>1, RouteWithinKept
  <2> QED
    BY <1>2, <2>2, WholeFamilyKept
<1>8. WholeRead(t, f) <=> WholeRead(s, f)
  BY <1>2, <1>3, <1>5, <1>7 DEF WholeRead
<1> QED
  BY <1>1, <1>6, <1>8 DEF ReadIn

LEMMA EmptyRead ==
  ASSUME NEW S, NEW s \in Seq(S), NEW e \in S, NEW z \in S,
         e.name \in {"route", "assigned-addr"}, z.name = "end", NEW f
  PROVE  ReadIn(s \o <<e, z>>, f)
             = ReadIn(s, f) \cup (IF e.name = "route" /\ e.destination # "unparsable" /\ e.family = f
                                  THEN {e.destination} ELSE {})
<1>1. PICK t, n : t = s \o <<e, z>> /\ n = Len(s)
  OBVIOUS
<1>2. /\ n \in Nat /\ Len(t) = n + 2 /\ t[n + 1] = e /\ t[n + 2] = z /\ Len(s) = n
      /\ \A j \in 1..n : t[j] = s[j]
  BY <1>1, TwoMore
<1>3. /\ \A i \in 1..n : OpenIn(t, i) <=> OpenIn(s, i)
      /\ \A i \in 1..n : AroundIn(t, i, n + 1) <=> OpenIn(s, i)
  <2>1. t[n + 1].name # "end" /\ t[n + 2].name = "end"
    BY <1>2
  <2> QED
    BY <1>2, <2>1, AfterBoth
<1>4. \A j \in 1..n : RouteIn(t, j) <=> RouteIn(s, j)
  BY <1>2 DEF RouteIn
<1>5. /\ RouteIn(t, n + 1) <=> e.name = "route" /\ e.destination # "unparsable"
      /\ ~RouteIn(t, n + 2) /\ 1..(n + 2) = (1..n) \cup {n + 1, n + 2}
  BY <1>2 DEF RouteIn
<1>6. Listed(t, f) = Listed(s, f) \cup (IF RouteIn(t, n + 1) /\ e.family = f
                                        THEN {e.destination} ELSE {})
  <2>1. \A d : d \in Listed(t, f) <=> \E k \in 1..(n + 2) :
                  RouteIn(t, k) /\ t[k].family = f /\ d = t[k].destination
    BY <1>2 DEF Listed
  <2>2. \A d : d \in Listed(s, f) <=> \E k \in 1..n :
                  RouteIn(s, k) /\ s[k].family = f /\ d = s[k].destination
    BY <1>2 DEF Listed
  <2> QED
    BY <1>2, <1>4, <1>5, <2>1, <2>2
<1>7. ASSUME NEW i \in 1..n, ~OpenIn(s, i)
      PROVE  WholeFamilyIn(t, i, f) <=> WholeFamilyIn(s, i, f)
  <2>1. \A k \in (n + 1)..(n + 2) : ~(RouteIn(t, k) /\ IsInnermost(t, "split-tunnel-info", i, k))
    <3>1. (n + 1)..(n + 2) = {n + 1, n + 2}
      BY <1>2
    <3>2. ~IsInnermost(t, "split-tunnel-info", i, n + 1)
      BY <1>3, <1>7 DEF IsInnermost
    <3> QED
      BY <1>5, <3>1, <3>2
  <2>2. RouteWithin(t, i) <=> RouteWithin(s, i)
    <3>1. n + 2 \in Nat /\ n <= n + 2
      BY <1>2
    <3> QED
      BY <1>2, <2>1, <3>1, RouteWithinKept
  <2> QED
    BY <1>2, <2>2, WholeFamilyKept
<1>8. ~WholeFamilyIn(t, n + 1, f) /\ ~WholeFamilyIn(t, n + 2, f)
  BY <1>2 DEF WholeFamilyIn
<1>9. WholeRead(t, f) <=> WholeRead(s, f)
  BY <1>2, <1>3, <1>5, <1>7, <1>8 DEF WholeRead
<1> QED
  BY <1>1, <1>5, <1>6, <1>9 DEF ReadIn

\* The end of a split tunnel adds the default route that it stands for.
LEMMA EndRead ==
  ASSUME NEW S, NEW s \in Seq(S), NEW z \in S, z.name = "end",
         NEW st \in Seq(Frames), st # <<>>,
         NEW places, Nested(s, st, places), FramesRight(s, st, places), NEW f \in Families
  PROVE  ReadIn(Append(s, z), f)
             = ReadIn(s, f) \cup (IF AddsDefault(st[Len(st)]) /\ st[Len(st)].family = f
                                  THEN {"default"} ELSE {})
<1>1. PICK t, n, m : t = Append(s, z) /\ n = Len(s) /\ m = Len(st)
  OBVIOUS
<1>2. /\ n \in Nat /\ Len(t) = n + 1 /\ t[n + 1] = z /\ Len(s) = n
      /\ \A j \in 1..n : t[j] = s[j]
  BY <1>1, AppendProperties, LenProperties
<1>3. m \in Nat /\ m # 0 /\ m \in 1..m
  BY <1>1, EmptySeq, LenProperties
<1>4. /\ places \in [1..m -> 1..n]
      /\ \A i \in 1..n : OpenIn(s, i) <=> \E p \in 1..m : places[p] = i
      /\ \A p \in 1..m : st[p].element = s[places[p]] /\ DepthIn(s, places[p]) = p
      /\ DepthIn(s, n) = m
  BY <1>1 DEF Nested
<1>5. /\ \A i \in 1..n : OpenIn(t, i) <=> OpenIn(s, i) /\ DepthIn(s, i) < m
      /\ ~OpenIn(t, n + 1)
  <2>1. /\ \A i \in 1..n : OpenIn(t, i) <=> OpenIn(s, i) /\ DepthIn(s, i) < DepthIn(s, n)
        /\ ~OpenIn(t, n + 1)
    <3>1. AtEnd(s, t, n)
      BY <1>2 DEF AtEnd
    <3> QED
      BY <3>1, AfterEnd
  <2> QED
    BY <1>4, <2>1
<1>6. ASSUME NEW i \in 1..n
      PROVE  ~OpenIn(t, i) <=> ~OpenIn(s, i) \/ i = places[m]
  <2>1. ASSUME OpenIn(s, i) PROVE DepthIn(s, i) < m <=> i # places[m]
    <3>1. PICK p \in 1..m : places[p] = i
      BY <1>4, <2>1
    <3>2. DepthIn(s, i) = p /\ DepthIn(s, places[m]) = m
      BY <1>3, <1>4, <3>1
    <3> QED
      BY <1>3, <3>1, <3>2
  <2>2. OpenIn(s, places[m])
    BY <1>3, <1>4
  <2> QED
    BY <1>5, <2>1, <2>2
<1>7. ~RouteIn(t, n + 1) /\ 1..(n + 1) = (1..n) \cup {n + 1}
  BY <1>2 DEF RouteIn
<1>8. Listed(t, f) = Listed(s, f)
  <2>1. \A j \in 1..n : RouteIn(t, j) <=> RouteIn(s, j)
    BY <1>2 DEF RouteIn
  <2> QED
    BY <1>2, <1>7, <2>1 DEF Listed
<1>9. ASSUME NEW i \in 1..n PROVE WholeFamilyIn(t, i, f) <=> WholeFamilyIn(s, i, f)
  <2>1. /\ n + 1 \in Nat /\ n <= n + 1 /\ \A k \in (n + 1)..(n + 1) : ~RouteIn(t, k)
    BY <1>2, <1>7
  <2>2. RouteWithin(t, i) <=> RouteWithin(s, i)
    BY <1>2, <2>1, RouteWithinKept
  <2> QED
    BY <1>2, <2>2, WholeFamilyKept
<1>10. ~WholeFamilyIn(t, n + 1, f)
  BY <1>2 DEF WholeFamilyIn
<1>11. places[m] \in 1..n
  BY <1>3, <1>4
<1>12. WholeRead(t, f) <=> WholeRead(s, f) \/ WholeFamilyIn(s, places[m], f)
  <2>1. WholeRead(t, f) <=> \E i \in 1..n : ~OpenIn(t, i) /\ WholeFamilyIn(s, i, f)
    BY <1>2, <1>7, <1>9, <1>10 DEF WholeRead
  <2>2. WholeRead(s, f) <=> \E i \in 1..n : ~OpenIn(s, i) /\ WholeFamilyIn(s, i, f)
    BY <1>2 DEF WholeRead
  <2> QED
    BY <1>6, <1>11, <2>1, <2>2
<1>13. WholeFamilyIn(s, places[m], f) <=> AddsDefault(st[m]) /\ st[m].family = f
  <2>1. st[m].element = s[places[m]]
    BY <1>3, <1>4
  <2>2. FamilyMeant(s, st, places, m) /\ RoutesCounted(s, st, places, m)
    BY <1>1, <1>3 DEF FramesRight
  <2>3. ASSUME st[m].element.name = "split-tunnel-info"
        PROVE  /\ st[m].family = f <=> \E j \in 1..places[m] :
                      IsInnermost(s, "family", j, places[m]) /\ s[j].family = f
               /\ st[m].routeCount = 0 <=> ~RouteWithin(s, places[m])
    BY <2>2, <2>3 DEF FamilyMeant, RoutesCounted, IsSplit
  <2> QED
    BY <2>1, <2>3 DEF WholeFamilyIn, AddsDefault, IsSplit
<1> QED
  BY <1>1, <1>8, <1>12, <1>13 DEF ReadIn

LEMMA RangeOfTwo ==
  ASSUME NEW S, NEW s \in Seq(S), NEW e \in S, NEW z \in S
  PROVE  Range(s \o <<e, z>>) = Range(s) \cup {e, z}
<1>1. PICK t, n : t = s \o <<e, z>> /\ n = Len(s)
  OBVIOUS
<1>2. /\ n \in Nat /\ Len(t) = n + 2 /\ t[n + 1] = e /\ t[n + 2] = z
      /\ \A j \in 1..n : t[j] = s[j]
  BY <1>1, TwoMore
<1>3. DOMAIN s = 1..n /\ DOMAIN t = 1..(n + 2)
  <2>1. <<e, z>> \in Seq(S)
    OBVIOUS
  <2>2. t \in Seq(S)
    BY <1>1, <2>1, ConcatProperties
  <2> QED
    BY <1>1, <1>2, <2>2, LenProperties
<1>4. 1..(n + 2) = (1..n) \cup {n + 1, n + 2}
  BY <1>2
<1>5. Range(t) = Range(s) \cup {e, z}
  BY <1>2, <1>3, <1>4 DEF Range
<1> QED
  BY <1>1, <1>5


LEMMA AppendUnique ==
  ASSUME NEW S, NEW s \in Seq(S), NEW e \in S, IsInjective(s)
  PROVE  /\ AppendUniqueRoute(s, e) \in Seq(S)
         /\ IsInjective(AppendUniqueRoute(s, e))
         /\ Range(AppendUniqueRoute(s, e)) = Range(s) \cup {e}
<1>1. CASE e \in Range(s)
  BY <1>1 DEF AppendUniqueRoute
<1>2. CASE e \notin Range(s)
  <2>1. AppendUniqueRoute(s, e) = Append(s, e)
    BY <1>2 DEF AppendUniqueRoute
  <2> QED
    BY <1>2, <2>1, AppendProperties, RangeOfAppend, InjectiveAppend
<1> QED
  BY <1>1, <1>2

-----------------------------------------------------------------------------
(* The invariant of the walk over a document, in parts.                    *)

Tokens == Containers \cup Leaves \cup {EndToken}

Destinations == {e.destination : e \in Leaves} \cup {"default"}

DocumentTypeOK ==
    /\ tokens \in Seq(Tokens)
    /\ stack \in Seq(Frames)
    /\ network \in [assigned : SUBSET Families, routes : [Families -> Seq(Destinations)]]
    /\ phase \in {"parsing", "parsed", "selected", "error"}

\* The stack is that of the elements that are open, and each frame knows of the
\* family around it and of the routes within it.
StackInv == \E places : Nested(tokens, stack, places) /\ FramesRight(tokens, stack, places)

\* What has been read is what the tokens so far, and the split tunnels that are
\* closed, say.
ReadInv ==
    /\ network.assigned = AssignedFamilies
    /\ \A f \in Families : /\ IsInjective(network.routes[f])
                           /\ Range(network.routes[f]) = ReadIn(tokens, f)

PhaseInv ==
    /\ phase \in {"parsed", "selected"} => stack = <<>>
    /\ phase = "selected" => /\ mode \in Modes
                             /\ Required(mode) \subseteq network.assigned
                             /\ selected = Restricted(network, mode)
    /\ phase = "error" => stack # <<>> \/ ~(Required(mode) \subseteq network.assigned)

DocumentInv == DocumentTypeOK /\ StackInv /\ ReadInv /\ PhaseInv

LEMMA ElementNames ==
  /\ \A e \in Containers : /\ e.name \in {"split-tunnel-info", "family", "other"}
                           /\ e.name = "family" => e.family \in Families
                           /\ \A f \in Families : e # AddressElement(f)
  /\ \A e \in Leaves :
        /\ e.name \in {"route", "assigned-addr"} /\ e.family \in Families
        /\ \A f \in Families : e = AddressElement(f) <=> e.name = "assigned-addr" /\ e.family = f
  /\ EndToken.name = "end" /\ \A f \in Families : EndToken # AddressElement(f)
<1>1. \A f \in Families : AddressElement(f).name = "assigned-addr" /\ AddressElement(f).family = f
  BY DEF AddressElement
<1>2. ASSUME NEW e \in Containers
      PROVE  /\ e.name \in {"split-tunnel-info", "family", "other"}
             /\ e.name = "family" => e.family \in Families
  <2>1. CASE \E n \in BOOLEAN : e = Split(n)
    BY <2>1 DEF Split
  <2>2. CASE \E f \in Families : e = FamilyElement(f)
    BY <2>2 DEF FamilyElement
  <2>3. CASE e = OtherElement
    BY <2>3 DEF OtherElement
  <2> QED
    BY <2>1, <2>2, <2>3, XmlAssumption
<1>3. ASSUME NEW e \in Leaves
      PROVE  /\ e.name \in {"route", "assigned-addr"} /\ e.family \in Families
             /\ e.name = "assigned-addr" => e = AddressElement(e.family)
  <2>1. e.family \in Families /\ (e = AddressElement(e.family) \/ e = RouteElement(e.family, e.destination))
    BY XmlAssumption
  <2>2. CASE e = AddressElement(e.family)
    BY <1>1, <2>1, <2>2
  <2>3. CASE e = RouteElement(e.family, e.destination)
    <3>1. RouteElement(e.family, e.destination).name = "route"
      BY DEF RouteElement
    <3> QED
      BY <2>1, <2>3, <3>1
  <2> QED
    BY <2>1, <2>2, <2>3
<1>4. EndToken.name = "end"
  BY DEF EndToken
<1> QED
  BY <1>1, <1>2, <1>3, <1>4

LEMMA DocumentInit == XmlInit => DocumentInv
<1> SUFFICES ASSUME XmlInit PROVE DocumentInv
  OBVIOUS
<1>1. /\ tokens = <<>> /\ stack = <<>> /\ phase = "parsing"
      /\ network = [assigned |-> {}, routes |-> [f \in Families |-> <<>>]]
  BY DEF XmlInit, EmptyConfig
<1>2. Len(tokens) = 0 /\ Len(stack) = 0 /\ tokens \in Seq(Tokens) /\ stack \in Seq(Frames)
      /\ <<>> \in Seq(Destinations) /\ 1..0 = {}
  BY <1>1
<1>3. DocumentTypeOK /\ PhaseInv
  BY <1>1, <1>2 DEF DocumentTypeOK, PhaseInv
<1>4. StackInv
  <2> DEFINE places == [i \in 1..0 |-> i]
  <2>1. places \in [1..0 -> 1..0]
    OBVIOUS
  <2>2. DepthIn(tokens, 0) = 0
    BY DepthNone
  <2> HIDE DEF places
  <2>3. Nested(tokens, stack, places) /\ FramesRight(tokens, stack, places)
    BY <1>2, <2>1, <2>2 DEF Nested, FramesRight
  <2> QED
    BY <2>3 DEF StackInv
<1>5. ReadInv
  <2>1. Range(tokens) = {} /\ \A f \in Families : network.routes[f] = <<>> /\ network.assigned = {}
    BY <1>1, RangeOfEmpty
  <2>2. \A f : ReadIn(tokens, f) = {}
    BY <1>2 DEF ReadIn, Listed, WholeRead
  <2> QED
    BY <1>1, <2>1, <2>2, RangeOfEmpty DEF ReadInv, AssignedFamilies
<1> QED
  BY <1>3, <1>4, <1>5 DEF DocumentInv

\* What addRoute does to what has been read.
LEMMA RouteAdded ==
  ASSUME DocumentTypeOK, \A f \in Families : IsInjective(network.routes[f]),
         NEW g \in Families, NEW d \in Destinations
  PROVE  /\ AddRoute(g, d) \in [assigned : SUBSET Families, routes : [Families -> Seq(Destinations)]]
         /\ AddRoute(g, d).assigned = network.assigned
         /\ \A f \in Families \ {g} : AddRoute(g, d).routes[f] = network.routes[f]
         /\ IsInjective(AddRoute(g, d).routes[g])
         /\ Range(AddRoute(g, d).routes[g]) = Range(network.routes[g]) \cup {d}
<1>1. network \in [assigned : SUBSET Families, routes : [Families -> Seq(Destinations)]]
  BY DEF DocumentTypeOK
<1> DEFINE new == AppendUniqueRoute(network.routes[g], d)
<1>2. /\ new \in Seq(Destinations) /\ IsInjective(new)
      /\ Range(new) = Range(network.routes[g]) \cup {d}
  BY <1>1, AppendUnique
<1>3. AddRoute(g, d) = [network EXCEPT !.routes[g] = new]
  BY DEF AddRoute
<1> HIDE DEF new
<1>4. /\ AddRoute(g, d) \in [assigned : SUBSET Families, routes : [Families -> Seq(Destinations)]]
      /\ AddRoute(g, d).assigned = network.assigned
      /\ \A f \in Families : AddRoute(g, d).routes[f] = IF f = g THEN new ELSE network.routes[f]
  BY <1>1, <1>2, <1>3
<1> QED
  BY <1>2, <1>4

LEMMA StartElementStep ==
  ASSUME DocumentInv, NEW e \in Containers, StartElement(e)
  PROVE  DocumentInv'
<1>1. /\ tokens \in Seq(Tokens) /\ stack \in Seq(Frames) /\ e \in Tokens
      /\ phase = "parsing" /\ phase' = phase /\ network' = network
      /\ tokens' = Append(tokens, e) /\ stack' = Append(stack, Frame(e))
  BY DEF StartElement, DocumentInv, DocumentTypeOK, Tokens
<1>2. /\ e.name # "end" /\ e.name # "route"
      /\ e.name = "family" => e.family \in Families
      /\ \A f \in Families : e # AddressElement(f)
  BY ElementNames
<1>3. /\ Frame(e) \in Frames /\ Frame(e).element = e /\ Frame(e).routeCount = 0
      /\ Frame(e).family = IF e.name = "family" THEN e.family ELSE FamilyOf(stack)
  <2>1. FamilyOf(stack) \in {0} \cup Families
    <3>1. CASE stack = <<>>
      BY <3>1 DEF FamilyOf
    <3>2. CASE stack # <<>>
      <4>1. stack[Len(stack)] \in Frames
        BY <1>1, <3>2, EmptySeq, LenProperties
      <4> QED
        BY <3>2, <4>1 DEF FamilyOf, Frames
    <3> QED
      BY <3>1, <3>2
  <2> QED
    BY <1>2, <2>1 DEF Frame, Frames
<1>4. DocumentTypeOK' /\ PhaseInv'
  BY <1>1, <1>3, AppendProperties DEF DocumentInv, DocumentTypeOK, PhaseInv
<1>5. StackInv'
  <2>1. PICK places : Nested(tokens, stack, places) /\ FramesRight(tokens, stack, places)
    BY DEF DocumentInv, StackInv
  <2>2. \E more : /\ Nested(Append(tokens, e), Append(stack, Frame(e)), more)
                  /\ FramesRight(Append(tokens, e), Append(stack, Frame(e)), more)
    BY <1>1, <1>2, <1>3, <2>1, StartFrames
  <2> QED
    BY <1>1, <2>2 DEF StackInv
<1>6. ReadInv'
  <2>1. \A f : ReadIn(tokens', f) = ReadIn(tokens, f)
    BY <1>1, <1>2, StartRead
  <2>2. Range(tokens') = Range(tokens) \cup {e}
    BY <1>1, RangeOfAppend
  <2> QED
    BY <1>1, <1>2, <2>1, <2>2 DEF DocumentInv, ReadInv, AssignedFamilies
<1> QED
  BY <1>4, <1>5, <1>6 DEF DocumentInv

LEMMA EmptyElementStep ==
  ASSUME DocumentInv, NEW e \in Leaves, EmptyElement(e)
  PROVE  DocumentInv'
<1> DEFINE route == e.name = "route" /\ e.destination # "unparsable"
           z == EndToken
<1>1. /\ tokens \in Seq(Tokens) /\ stack \in Seq(Frames) /\ e \in Tokens /\ z \in Tokens
      /\ phase = "parsing" /\ phase' = phase
      /\ tokens' = tokens \o <<e, z>>
  BY DEF EmptyElement, DocumentInv, DocumentTypeOK, Tokens
<1>2. /\ e.name \in {"route", "assigned-addr"} /\ e.family \in Families /\ z.name = "end"
      /\ e.destination \in Destinations
      /\ \A f \in Families : e = AddressElement(f) <=> e.name = "assigned-addr" /\ e.family = f
      /\ \A f \in Families : z # AddressElement(f)
  BY ElementNames DEF Destinations
<1>3. stack' = IF route THEN MarkRoute(stack) ELSE stack
  BY <1>2 DEF EmptyElement
<1>4. stack' \in Seq(Frames)
  <2>1. CASE route
    BY <1>1, <1>3, <2>1, MarkedFrames
  <2> QED
    BY <1>1, <1>3, <2>1
<1>5. StackInv'
  <2>1. PICK places : Nested(tokens, stack, places) /\ FramesRight(tokens, stack, places)
    BY DEF DocumentInv, StackInv
  <2>2. Nested(tokens', stack', places) /\ FramesRight(tokens', stack', places)
    BY <1>1, <1>2, <1>3, <2>1, EmptyFrames
  <2> QED
    BY <2>2 DEF StackInv
<1>6. /\ network' \in [assigned : SUBSET Families, routes : [Families -> Seq(Destinations)]]
      /\ network'.assigned = network.assigned
             \cup (IF e.name = "assigned-addr" THEN {e.family} ELSE {})
      /\ \A f \in Families :
            /\ IsInjective(network'.routes[f])
            /\ Range(network'.routes[f])
                   = Range(network.routes[f])
                         \cup (IF route /\ e.family = f THEN {e.destination} ELSE {})
  <2>1. DocumentTypeOK /\ \A f \in Families : IsInjective(network.routes[f])
    BY DEF DocumentInv, ReadInv
  <2>2. CASE route
    <3>1. network' = AddRoute(e.family, e.destination)
      BY <2>2 DEF EmptyElement
    <3>2. /\ network' \in [assigned : SUBSET Families, routes : [Families -> Seq(Destinations)]]
          /\ network'.assigned = network.assigned
          /\ \A f \in Families \ {e.family} : network'.routes[f] = network.routes[f]
          /\ IsInjective(network'.routes[e.family])
          /\ Range(network'.routes[e.family]) = Range(network.routes[e.family]) \cup {e.destination}
      BY <1>2, <2>1, <3>1, RouteAdded
    <3> QED
      BY <1>2, <2>1, <2>2, <3>2
  <2>3. CASE e.name = "assigned-addr"
    <3>1. network' = [network EXCEPT !.assigned = @ \cup {e.family}]
      BY <2>3 DEF EmptyElement
    <3> QED
      BY <1>2, <2>1, <2>3, <3>1 DEF DocumentTypeOK
  <2>4. CASE e.name = "route" /\ ~route
    <3>1. network' = network
      BY <2>4 DEF EmptyElement
    <3> QED
      BY <2>1, <2>4, <3>1 DEF DocumentTypeOK
  <2> QED
    BY <1>2, <2>2, <2>3, <2>4
<1>7. DocumentTypeOK' /\ PhaseInv'
  <2>1. <<e, z>> \in Seq(Tokens)
    BY <1>1
  <2>2. tokens' \in Seq(Tokens)
    BY <1>1, <2>1, ConcatProperties
  <2> QED
    BY <1>1, <1>4, <1>6, <2>2 DEF DocumentTypeOK, PhaseInv
<1>8. ReadInv'
  <2>1. \A f : ReadIn(tokens', f) = ReadIn(tokens, f)
                   \cup (IF route /\ e.family = f THEN {e.destination} ELSE {})
    BY <1>1, <1>2, EmptyRead
  <2>2. Range(tokens') = Range(tokens) \cup {e, z}
    BY <1>1, RangeOfTwo
  <2>3. AssignedFamilies' = AssignedFamilies
                \cup (IF e.name = "assigned-addr" THEN {e.family} ELSE {})
    BY <1>2, <2>2 DEF AssignedFamilies
  <2> QED
    BY <1>6, <2>1, <2>3 DEF DocumentInv, ReadInv
<1> QED
  BY <1>5, <1>7, <1>8 DEF DocumentInv

LEMMA EndElementStep ==
  ASSUME DocumentInv, EndElement
  PROVE  DocumentInv'
<1> DEFINE z == EndToken
           frame == stack[Len(stack)]
<1>1. /\ tokens \in Seq(Tokens) /\ stack \in Seq(Frames) /\ z \in Tokens
      /\ phase = "parsing" /\ phase' = phase /\ stack # <<>>
      /\ tokens' = Append(tokens, z) /\ stack' = SubSeq(stack, 1, Len(stack) - 1)
  BY DEF EndElement, DocumentInv, DocumentTypeOK, Tokens
<1>2. z.name = "end" /\ \A f \in Families : z # AddressElement(f)
  BY ElementNames
<1>3. PICK places : Nested(tokens, stack, places) /\ FramesRight(tokens, stack, places)
  BY DEF DocumentInv, StackInv
<1>4. StackInv'
  <2>1. \E more : /\ Nested(Append(tokens, z), SubSeq(stack, 1, Len(stack) - 1), more)
                  /\ FramesRight(Append(tokens, z), SubSeq(stack, 1, Len(stack) - 1), more)
    <3> HIDE DEF z
    <3> QED
      BY <1>1, <1>2, <1>3, EndFrames
  <2> QED
    BY <1>1, <2>1 DEF StackInv
<1>5. /\ network' \in [assigned : SUBSET Families, routes : [Families -> Seq(Destinations)]]
      /\ network'.assigned = network.assigned
      /\ \A f \in Families :
            /\ IsInjective(network'.routes[f])
            /\ Range(network'.routes[f])
                   = Range(network.routes[f])
                         \cup (IF AddsDefault(frame) /\ frame.family = f THEN {"default"} ELSE {})
  <2>1. DocumentTypeOK /\ (\A f \in Families : IsInjective(network.routes[f]))
        /\ "default" \in Destinations
    BY DEF DocumentInv, ReadInv, Destinations
  <2>2. CASE AddsDefault(frame) /\ frame.family \in Families
    <3>1. network' = AddRoute(frame.family, "default")
      BY <2>2 DEF EndElement
    <3>2. /\ network' \in [assigned : SUBSET Families, routes : [Families -> Seq(Destinations)]]
          /\ network'.assigned = network.assigned
          /\ \A f \in Families \ {frame.family} : network'.routes[f] = network.routes[f]
          /\ IsInjective(network'.routes[frame.family])
          /\ Range(network'.routes[frame.family]) = Range(network.routes[frame.family]) \cup {"default"}
      <4> HIDE DEF frame
      <4> QED
        BY <2>1, <2>2, <3>1, RouteAdded
    <3> QED
      BY <2>1, <2>2, <3>2
  <2>3. CASE ~(AddsDefault(frame) /\ frame.family \in Families)
    <3>1. network' = network
      BY <2>3 DEF EndElement
    <3> QED
      BY <2>1, <2>3, <3>1 DEF DocumentTypeOK
  <2> QED
    BY <2>2, <2>3
<1>6. DocumentTypeOK' /\ PhaseInv'
  <2>1. stack' \in Seq(Frames)
    <3>1. Len(stack) \in Nat /\ Len(stack) # 0
      BY <1>1, EmptySeq, LenProperties
    <3>2. \A i \in 1..(Len(stack) - 1) : stack[i] \in Frames
      BY <1>1, <3>1, LenProperties
    <3> QED
      BY <1>1, <3>1, <3>2, SubSeqProperties
  <2>2. tokens' \in Seq(Tokens)
    BY <1>1, AppendProperties
  <2> QED
    BY <1>1, <1>5, <2>1, <2>2 DEF DocumentTypeOK, PhaseInv
<1>7. ReadInv'
  <2>1. ASSUME NEW f \in Families
        PROVE  ReadIn(tokens', f) = ReadIn(tokens, f)
                   \cup (IF AddsDefault(frame) /\ frame.family = f THEN {"default"} ELSE {})
    BY <1>1, <1>2, <1>3, EndRead
  <2>2. Range(tokens') = Range(tokens) \cup {z}
    BY <1>1, RangeOfAppend
  <2>3. AssignedFamilies' = AssignedFamilies
    BY <1>2, <2>2 DEF AssignedFamilies
  <2> QED
    BY <1>5, <2>1, <2>3 DEF DocumentInv, ReadInv
<1> QED
  BY <1>4, <1>6, <1>7 DEF DocumentInv

LEMMA DocumentNext ==
  ASSUME DocumentInv, XmlNext
  PROVE  DocumentInv'
<1>1. ASSUME NEW e \in Containers, StartElement(e) PROVE DocumentInv'
  BY <1>1, StartElementStep
<1>2. ASSUME NEW e \in Leaves, EmptyElement(e) PROVE DocumentInv'
  BY <1>2, EmptyElementStep
<1>3. CASE EndElement
  BY <1>3, EndElementStep
<1>4. ASSUME EndDocument \/ \E m \in Modes : ForIPMode(m) PROVE DocumentInv'
  <2>1. UNCHANGED <<tokens, stack, network>>
    BY <1>4 DEF EndDocument, ForIPMode
  <2>2. StackInv' /\ ReadInv'
    BY <2>1 DEF DocumentInv, StackInv, ReadInv, AssignedFamilies
  <2>3. DocumentTypeOK'
    BY <1>4, <2>1 DEF DocumentInv, DocumentTypeOK, EndDocument, ForIPMode
  <2>4. PhaseInv'
    <3>1. CASE EndDocument
      BY <2>1, <3>1 DEF EndDocument, PhaseInv
    <3>2. ASSUME NEW m \in Modes, ForIPMode(m) PROVE PhaseInv'
      <4>1. stack = <<>>
        BY <3>2 DEF ForIPMode, DocumentInv, PhaseInv
      <4>2. /\ Required(mode)' = Required(m)
            /\ Restricted(network, mode)' = Restricted(network, m)
        BY <2>1, <3>2 DEF ForIPMode, Required, Restricted
      <4> QED
        BY <2>1, <3>2, <4>1, <4>2 DEF ForIPMode, PhaseInv
    <3> QED
      BY <1>4, <3>1, <3>2
  <2> QED
    BY <2>2, <2>3, <2>4 DEF DocumentInv
<1> QED
  BY <1>1, <1>2, <1>3, <1>4 DEF XmlNext

\* When no element is open, what has been read is what XmlConfig says it should be.
LEMMA AllRead ==
  ASSUME tokens \in Seq(Tokens), NEW places, Nested(tokens, <<>>, places), NEW f
  PROVE  Documented(f) = ReadIn(tokens, f)
<1>1. Len(tokens) \in Nat /\ DOMAIN tokens = 1..Len(tokens)
  BY LenProperties
<1>2. \A i, k : Around(i, k) <=> AroundIn(tokens, i, k)
  BY DEF Around, AroundIn, Depth, DepthIn
<1>3. \A name, k : \A i : i \in Innermost(name, k) <=> i \in 1..k /\ IsInnermost(tokens, name, i, k)
  BY <1>2 DEF Innermost, IsInnermost
<1>4. \A k : RouteAt(k) <=> RouteIn(tokens, k)
  BY DEF RouteAt, RouteIn
<1>5. \A i : WholeFamily(i, f) <=> WholeFamilyIn(tokens, i, f)
  BY <1>1, <1>3, <1>4 DEF WholeFamily, WholeFamilyIn, RouteWithin
<1>6. \A i \in 1..Len(tokens) : ~OpenIn(tokens, i)
  <2>1. Len(<<>>) = 0 /\ 1..0 = {}
    OBVIOUS
  <2> QED
    BY <2>1 DEF Nested
<1>7. WholeRead(tokens, f) <=> \E i \in DOMAIN tokens : WholeFamily(i, f)
  BY <1>1, <1>5, <1>6 DEF WholeRead
<1>8. Listed(tokens, f) = {tokens[k].destination :
                               k \in {j \in DOMAIN tokens : RouteAt(j) /\ tokens[j].family = f}}
  BY <1>1, <1>4 DEF Listed
<1> QED
  BY <1>7, <1>8 DEF Documented, ReadIn

LEMMA DocumentRead == DocumentInv => XmlIsReference
<1> SUFFICES ASSUME DocumentInv PROVE XmlIsReference
  OBVIOUS
<1>1. PICK places : Nested(tokens, stack, places)
  BY DEF DocumentInv, StackInv
<1>2. network.assigned = AssignedFamilies
  BY DEF DocumentInv, ReadInv
<1>3. ASSUME phase = "selected"
      PROVE  /\ Required(mode) \subseteq AssignedFamilies
             /\ \A f \in Families :
                   IF mode \in {"auto", "dual"} \/ f \in Required(mode)
                   THEN Range(selected.routes[f]) = Documented(f) /\ IsInjective(selected.routes[f])
                   ELSE selected.routes[f] = <<>>
             /\ selected.assigned = IF mode \in {"auto", "dual"} THEN AssignedFamilies
                                    ELSE Required(mode)
  <2>1. /\ Required(mode) \subseteq network.assigned /\ selected = Restricted(network, mode)
        /\ stack = <<>>
    BY <1>3 DEF DocumentInv, PhaseInv
  <2>2. tokens \in Seq(Tokens)
    BY DEF DocumentInv, DocumentTypeOK
  <2>3. \A f \in Families : /\ IsInjective(network.routes[f])
                            /\ Range(network.routes[f]) = Documented(f)
    <3>1. \A f : Documented(f) = ReadIn(tokens, f)
      BY <1>1, <2>1, <2>2, AllRead
    <3> QED
      BY <3>1 DEF DocumentInv, ReadInv
  <2>4. CASE mode \in {"auto", "dual"}
    <3>1. selected = network
      BY <2>1, <2>4 DEF Restricted
    <3> QED
      BY <1>2, <2>1, <2>3, <2>4, <3>1
  <2>5. CASE mode \notin {"auto", "dual"}
    <3>1. /\ selected.assigned = Required(mode)
          /\ \A f \in Families :
                selected.routes[f] = IF f \in Required(mode) THEN network.routes[f] ELSE <<>>
      BY <2>1, <2>5 DEF Restricted
    <3> QED
      BY <1>2, <2>1, <2>3, <2>5, <3>1
  <2> QED
    BY <2>4, <2>5
<1>4. ASSUME phase = "error"
      PROVE  Depth(Len(tokens)) # 0 \/ ~(Required(mode) \subseteq AssignedFamilies)
  <2>1. stack # <<>> \/ ~(Required(mode) \subseteq network.assigned)
    BY <1>4 DEF DocumentInv, PhaseInv
  <2>2. Depth(Len(tokens)) = Len(stack)
    BY <1>1 DEF Nested, Depth, DepthIn
  <2>3. stack # <<>> => Len(stack) # 0
    BY EmptySeq DEF DocumentInv, DocumentTypeOK
  <2> QED
    BY <1>2, <2>1, <2>2, <2>3
<1> QED
  BY <1>3, <1>4 DEF XmlIsReference

-----------------------------------------------------------------------------
(* Both protocols                                                          *)

\* The protocol that was not chosen is not asked.
ProtocolInv ==
    /\ protocol \in {"sslvpn", "ipsec"}
    /\ protocol = "ipsec" => XmlInit
    /\ protocol = "sslvpn" => InfoInit

SessionInv == InfoInv /\ DocumentInv /\ ProtocolInv

LEMMA DocumentStutter ==
  ASSUME DocumentInv, UNCHANGED xmlVars
  PROVE  DocumentInv'
<1>1. UNCHANGED <<tokens, stack, network, selected, mode, phase>>
  BY DEF xmlVars
<1>2. StackInv' /\ ReadInv'
  BY <1>1 DEF DocumentInv, StackInv, ReadInv, AssignedFamilies
<1>3. DocumentTypeOK' /\ PhaseInv'
  BY <1>1 DEF DocumentInv, DocumentTypeOK, PhaseInv, Required, Restricted
<1> QED
  BY <1>2, <1>3 DEF DocumentInv

LEMMA SessionInvariant == SessionConfigSpec => []SessionInv
<1>1. SessionConfigInit => SessionInv
  BY InfoInvInit, DocumentInit DEF SessionConfigInit, SessionInv, ProtocolInv
<1>2. SessionInv /\ [SessionConfigNext]_sessionConfigVars => SessionInv'
  <2> SUFFICES ASSUME SessionInv, [SessionConfigNext]_sessionConfigVars
               PROVE  SessionInv'
    OBVIOUS
  <2>0. InfoInv /\ DocumentInv /\ ProtocolInv
    BY DEF SessionInv
  <2>1. UNCHANGED xmlVars => DocumentInv' /\ (XmlInit => XmlInit')
    <3>1. UNCHANGED xmlVars => (XmlInit => XmlInit')
      BY DEF xmlVars, XmlInit
    <3> QED
      BY <2>0, <3>1, DocumentStutter
  <2>2. UNCHANGED vars => InfoInv' /\ (InfoInit => InfoInit')
    <3>1. UNCHANGED vars => (InfoInit => InfoInit')
      BY DEF vars, options, report, cfg, place, InfoInit
    <3> QED
      BY <2>0, <3>1, InfoStutter
  <2>3. CASE protocol = "ipsec" /\ InfoNext /\ UNCHANGED <<protocol, xmlVars>>
    <3>1. InfoInv'
      BY <2>0, <2>3, InfoInvNext
    <3>2. DocumentInv' /\ ProtocolInv'
      BY <2>0, <2>1, <2>3 DEF ProtocolInv
    <3> QED
      BY <3>1, <3>2 DEF SessionInv
  <2>4. CASE protocol = "sslvpn" /\ XmlNext /\ UNCHANGED <<protocol, vars>>
    <3>1. DocumentInv'
      BY <2>0, <2>4, DocumentNext
    <3>2. InfoInv' /\ ProtocolInv'
      BY <2>0, <2>2, <2>4 DEF ProtocolInv
    <3> QED
      BY <3>1, <3>2 DEF SessionInv
  <2>5. CASE UNCHANGED sessionConfigVars
    <3>1. UNCHANGED <<protocol, vars, xmlVars>>
      BY <2>5 DEF sessionConfigVars
    <3>2. ProtocolInv'
      BY <2>0, <2>1, <2>2, <3>1 DEF ProtocolInv
    <3> QED
      BY <2>1, <2>2, <3>1, <3>2 DEF SessionInv
  <2> QED
    BY <2>3, <2>4, <2>5 DEF SessionConfigNext, Settled
<1> QED
  BY <1>1, <1>2, PTL DEF SessionConfigSpec

\* Backend.info, walking the report of the daemon, takes exactly the sessions that
\* the definition Acceptable describes, and of them exactly the routes that were
\* negotiated: whatever children a report holds, in whatever order, and however
\* many, and whatever the bound on the routes is.
THEOREM ReportIsUnderstood == SessionConfigSpec => []InfoIsReference
<1>1. SessionInv => InfoIsReference
  BY DEF SessionInv, InfoInv
<1> QED
  BY <1>1, SessionInvariant, PTL

\* However split tunnels, families and routes are nested, repeated and interleaved in
\* a document, and however long it is, ParseNetworkConfig and ForIPMode give a
\* session exactly what the definition without a stack describes, or refuse it.
THEOREM DocumentsAreUnderstood == SessionConfigSpec => []XmlIsReference
<1>1. SessionInv => XmlIsReference
  BY DocumentRead DEF SessionInv
<1> QED
  BY <1>1, SessionInvariant, PTL

\* Whatever the gateway sends, an IPsec session, and an SSL-VPN session whose mode
\* is ipv4, ipv6 or dual, has routes only of families in which it has an address.
\* In auto mode, the default of SSL-VPN, it may have others, of families without an
\* address: it has what the gateway supplied, unchanged.
THEOREM RoutesAreAddressed == SessionConfigSpec => []RoutesHaveAddress
<1>1. SessionInv => RoutesHaveAddress
  <2> SUFFICES ASSUME SessionInv
               PROVE  RoutesHaveAddress
    OBVIOUS
  <2>1. ProtocolInv /\ PhaseInv /\ VerdictInv
    BY DEF SessionInv, InfoInv, DocumentInv
  <2>2. ASSUME verdict = "ok" PROVE RoutedFamilies \subseteq AddressedFamilies
    <3>1. protocol = "ipsec"
      BY <2>1, <2>2 DEF ProtocolInv, InfoInit
    <3> QED
      BY <2>1, <2>2, <3>1 DEF VerdictInv, RoutedFamilies, AddressedFamilies, Families
  <2>3. ASSUME phase = "selected", mode # "auto"
        PROVE  RoutedFamilies \subseteq AddressedFamilies
    <3>1. protocol = "sslvpn"
      BY <2>1, <2>3 DEF ProtocolInv, XmlInit
    <3>2. /\ mode \in Modes /\ Required(mode) \subseteq network.assigned
          /\ selected = Restricted(network, mode)
      BY <2>1, <2>3 DEF PhaseInv
    <3>3. CASE mode = "dual"
      BY <3>1, <3>2, <3>3
      DEF Required, Restricted, RoutedFamilies, AddressedFamilies, Families
    <3>4. CASE mode # "dual"
      <4>1. selected.assigned = Required(mode)
        BY <2>3, <3>2, <3>4 DEF Restricted
      <4>2. \A f \in Families : f \notin Required(mode) => selected.routes[f] = <<>>
        BY <2>3, <3>2, <3>4 DEF Restricted
      <4> QED
        BY <3>1, <4>1, <4>2 DEF RoutedFamilies, AddressedFamilies
    <3> QED
      BY <3>3, <3>4
  <2>4. ASSUME phase = "selected", mode = "auto" PROVE selected = network
    BY <2>1, <2>4 DEF PhaseInv, Restricted
  <2> QED
    BY <2>2, <2>3, <2>4 DEF RoutesHaveAddress
<1> QED
  BY <1>1, SessionInvariant, PTL

=============================================================================
