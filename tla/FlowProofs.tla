----------------------------- MODULE FlowProofs -----------------------------
(* One connection, for every client, policy, listener address and buffer     *)
(* size: its bytes, its answers and its request (PathFaithful), and where    *)
(* its flow goes and under which policy (PathAuthorised).  And the streams   *)
(* beneath it, for every script of frames, answer of a proxy and cut of the  *)
(* socket (BytesFaithful).  And what the broker counts of its flows, for     *)
(* every number of them, limit and width of the rate window (AccountsExact). *)
(* And the tables that explain a failure, for every status (ErrorsFaithful). *)
(*                                                                           *)
(* None is inductive.  That every byte is kept once holds from the decode    *)
(* of the head on, which PathBytesOnce does not say (BytesInv); that a       *)
(* request is answered rests on what a refusal still has to write            *)
(* (AnswerInv); that a flow is decided by one policy on the policy meaning   *)
(* Intercept already where the ClientHello is not read (PolicyInv); that it  *)
(* never comes back to the listener on the route it has not taken yet        *)
(* (RouteInv).  What a decoder computes for lists of every length is proved  *)
(* from a least counterexample (LeastNatural).  That the accounts are exact  *)
(* rests on where each connection's task is (TeleTasks) and on what each     *)
(* bucket of the rate stands for (RateOK); that a sum moves by one with one  *)
(* of its terms, on the order of a fold not mattering (FoldAnyOrder).        *)
EXTENDS MCFlow, FiniteSetTheorems, SequenceTheorems, WellFoundedInduction, TLAPS

-----------------------------------------------------------------------------
(* What the decoders and the policy compute. *)

(* A nonempty set of naturals has a least element: with it a statement *)
(* about all lengths is proved from its least counterexample.          *)
LEMMA LeastNatural ==
    ASSUME NEW S, S \subseteq Nat, S # {}
    PROVE  \E x \in S : \A y \in S : x <= y
<1>1. PICK x \in S : \A y \in S : ~ (<<y, x>> \in OpToRel(<, Nat))
  BY NatLessThanWellFounded, WFMin
<1>2. \A y \in S : ~ (y < x)
  BY <1>1 DEF OpToRel
<1> QED BY <1>2

(* Min, which finds the first rule and sizes the reads, is that element. *)
LEMMA MinOfNaturals ==
    ASSUME NEW S, S \subseteq Nat, S # {}
    PROVE  Min(S) \in S /\ \A y \in S : Min(S) <= y
BY LeastNatural DEF Min

(* decide is what the rule list means: the first enabled rule that matches, *)
(* and else the policy's defaults (decrypt_policy.rs).                      *)
LEMMA DecideMeans ==
    ASSUME NEW p, IsPolicy(p), NEW host, NEW process
    PROVE  Means(p, host, process, decide(p, host, process))
<1> DEFINE name == normalize_host(host)
           hit(i) == p.rules[i].enabled /\ matches(p.rules[i], name, process)
           I == {i \in 1..Len(p.rules) : hit(i)}
<1>0. Len(p.rules) \in Nat
  <2> DEFINE s == p.rules
  <2>1. s \in Seq(Range(s)) BY Zenon DEF IsPolicy
  <2> HIDE DEF s
  <2>2. Len(s) \in Nat BY <2>1
  <2> QED BY <2>2 DEF s
<1>1. CASE I = {} BY <1>1 DEF decide, SelectInSeq, Means, Fallback
<1>2. CASE I # {}
  <2>0. I \subseteq Nat BY <1>0
  <2>1. Min(I) \in I /\ \A y \in I : Min(I) <= y BY <1>2, <2>0, MinOfNaturals
  <2>2. decide(p, host, process) = p.rules[Min(I)].action
    <3>1. Min(I) # 0 BY <2>1, <1>0
    <3> QED BY <1>2, <3>1 DEF decide, SelectInSeq
  <2>3. \A j \in 1..(Min(I) - 1) : ~hit(j) BY <1>0, <2>1
  <2>4. Min(I) \in 1..Len(p.rules) /\ hit(Min(I)) BY <2>1
  <2> QED BY <2>2, <2>3, <2>4 DEF Means
<1> QED BY <1>1, <1>2

(* A connection that would arrive at a listener is one that contains finds, *)
(* however either address is written (listener.rs).                         *)
LEMMA ArrivesContained ==
    ASSUME NEW l, NEW a, IsAddress(l), IsAddress(a), Arrives(l, a)
    PROVE  contains(l, a)
BY DEF IsAddress, AddressFam, AddressHost, Arrives, contains, canonical_ip

(* The function FlattenSeq is defined by, for the first n parts of s. *)
IsFlatten(s, f, n) == f = [i \in 1..n |-> IF i = 1 THEN s[i] ELSE f[i - 1] \o s[i]]

(* It exists for every length, by the least length for which it would not. *)
LEMMA FlattenExists ==
    ASSUME NEW s, NEW m \in Nat
    PROVE  \E f : IsFlatten(s, f, m)
<1> DEFINE B == {n \in Nat : ~ \E f : IsFlatten(s, f, n)}
<1> SUFFICES ASSUME B # {} PROVE FALSE OBVIOUS
<1>1. PICK n \in B : \A y \in B : n <= y BY LeastNatural
<1>2. n \in Nat /\ ~ \E f : IsFlatten(s, f, n) BY <1>1
<1>3. CASE n = 0 BY <1>2, <1>3 DEF IsFlatten
<1>4. CASE n # 0
  <2>1. n - 1 \in Nat /\ n - 1 \notin B BY <1>1, <1>2, <1>4
  <2>2. PICK f : IsFlatten(s, f, n - 1) BY <2>1
  <2> DEFINE v == IF n = 1 THEN s[n] ELSE f[n - 1] \o s[n]
             g == [i \in 1..n |-> IF i = n THEN v ELSE f[i]]
             h == [i \in 1..n |-> IF i = 1 THEN s[i] ELSE g[i - 1] \o s[i]]
  <2>3. \A i \in 1..n : g[i] = h[i]
    <3> SUFFICES ASSUME NEW i \in 1..n PROVE g[i] = h[i] OBVIOUS
    <3>0. i \in Nat /\ i >= 1 /\ i <= n BY <1>2
    <3>1. CASE i = n BY <1>2, <3>0, <3>1
    <3>2. CASE i # n
      <4>1. g[i] = f[i] BY <3>2
      <4>2. i \in 1..(n - 1) BY <3>2, <3>0, <1>2
      <4>3. f[i] = IF i = 1 THEN s[i] ELSE f[i - 1] \o s[i]
        BY <4>2, <2>2 DEF IsFlatten
      <4>4. i # 1 => i - 1 \in 1..n /\ i - 1 # n BY <3>0, <1>2
      <4>5. i # 1 => g[i - 1] = f[i - 1] BY <4>4
      <4> QED BY <4>1, <4>3, <4>5
    <3> QED BY <3>1, <3>2
  <2>4. g = h BY <2>3
  <2>5. IsFlatten(s, g, n) BY <2>4 DEF IsFlatten
  <2> QED BY <2>5, <1>2
<1> QED BY <1>3, <1>4

(* The codings of all Transfer-Encoding headers, read as one list, end with *)
(* the last coding of the last header.                                      *)
LEMMA FlattenLast ==
    ASSUME NEW s \in Seq(Seq(STRING) \ {<<>>}), s # <<>>
    PROVE  Last(FlattenSeq(s)) = Last(Last(s))
<1> DEFINE n == Len(s)
           F == CHOOSE f : IsFlatten(s, f, n)
           E == Seq(STRING) \ {<<>>}
<1>1. n \in Nat /\ n # 0 /\ \A i \in 1..n : s[i] \in E OBVIOUS
<1>2. IsFlatten(s, F, n)
  <2> HIDE DEF n
  <2> QED BY <1>1, FlattenExists
<1>3. FlattenSeq(s) = F[n]
  BY <1>1, Zenon DEF FlattenSeq, IsFlatten
<1> HIDE DEF F, n
<1>4. \A i \in 1..n : F[i] = IF i = 1 THEN s[i] ELSE F[i - 1] \o s[i]
  BY <1>2 DEF IsFlatten
<1>5. \A i \in 1..n : F[i] \in E
  <2> DEFINE B == {i \in 1..n : F[i] \notin E}
  <2> SUFFICES ASSUME B # {} PROVE FALSE OBVIOUS
  <2>1. PICK k \in B : \A y \in B : k <= y
    <3>1. B \subseteq Nat BY <1>1
    <3> HIDE DEF B
    <3> QED BY <3>1, LeastNatural
  <2>2. k \in 1..n /\ F[k] \notin E /\ k \in Nat BY <2>1, <1>1
  <2>3. CASE k = 1 BY <2>3, <2>2, <1>4, <1>1
  <2>4. CASE k # 1
    <3>1. k - 1 \in 1..n /\ k - 1 \notin B BY <2>1, <2>2, <2>4, <1>1
    <3>2. F[k - 1] \in E /\ s[k] \in E BY <3>1, <2>2, <1>1
    <3>3. F[k - 1] \o s[k] \in E BY <3>2
    <3> QED BY <3>3, <2>2, <2>4, <1>4
  <2> QED BY <2>3, <2>4
<1>6. Last(s) = s[n] /\ n \in 1..n BY <1>1 DEF Last, n
<1>7. CASE n = 1 BY <1>3, <1>4, <1>6, <1>7
<1>8. CASE n # 1
  <2>1. F[n] = F[n - 1] \o s[n] BY <1>4, <1>6, <1>8
  <2>2. F[n - 1] \in E /\ s[n] \in E BY <1>5, <1>1, <1>6, <1>8
  <2> DEFINE u == F[n - 1]  v == s[n]
  <2> HIDE DEF u, v, E
  <2>3. u \in Seq(STRING) /\ v \in Seq(STRING) /\ v # <<>> BY <2>2 DEF u, v, E
  <2>4. Last(u \o v) = Last(v) BY <2>3 DEF Last
  <2> QED BY <1>3, <1>6, <2>1, <2>4 DEF u, v
<1> QED BY <1>7, <1>8

(* A request head with one reading: what PathRequestUnambiguous asks. *)
ReadsOneWay(r, target) ==
    /\ \E h \in Range(r.hosts) : Range(r.hosts) = {h} /\ Len(r.hosts) = 1
         /\ h.host.kind = target.host.kind /\ h.host.labels = target.host.labels
         /\ h.port \in {target.port, NoPort}
    /\ \A i, j \in 1..Len(r.lengths) : r.lengths[i] = r.lengths[j]
    /\ r.lengths = <<>> \/ r.codings = <<>>
    /\ r.method = "CONNECT" => r.codings = <<>> /\ Range(r.lengths) \subseteq {0}
    /\ r.codings # <<>> => Last(Last(r.codings)) = "chunked"

(* Lengths that make one set element are equal. *)
LEMMA LengthsAgree ==
    ASSUME NEW s \in Seq(Nat), ~(Cardinality(Range(s)) > 1)
    PROVE  \A i, j \in 1..Len(s) : s[i] = s[j]
<1>1. IsFiniteSet(1..Len(s)) BY FS_Interval
<1>2. s \in Surjection(1..Len(s), Range(s)) BY DEF Surjection, Range
<1>3. IsFiniteSet(Range(s)) BY <1>1, <1>2, FS_Surjection, Zenon
<1>4. Cardinality(Range(s)) \in Nat BY <1>3, FS_CardinalityType
<1>5. \A i \in 1..Len(s) : s[i] \in Range(s) BY DEF Range
<1>6. CASE Cardinality(Range(s)) = 0
  <2>1. Range(s) = {} BY <1>3, <1>6, FS_EmptySet
  <2> QED BY <2>1, <1>5
<1>7. CASE Cardinality(Range(s)) = 1 BY <1>3, <1>5, <1>7, FS_Singleton
<1> QED BY <1>4, <1>6, <1>7

(* A list of one has one element. *)
LEMMA OneElement ==
    ASSUME NEW S, NEW s \in Seq(S), Len(s) = 1
    PROVE  Range(s) = {s[1]}
<1>1. DOMAIN s = {1} OBVIOUS
<1> QED BY <1>1, Zenon DEF Range

(* A host that normalises keeps its kind and labels. *)
LEMMA HostNormalized ==
    ASSUME NEW h, normalize_target_host(h).error = ""
    PROVE  normalize_target_host(h).value = [kind |-> h.kind, labels |-> h.labels]
BY DEF normalize_target_host, Accepted, Refused

(* A target that parses names the host as written, and a port. *)
LEMMA AuthorityRead ==
    ASSUME NEW raw, NEW default, parse_target_authority(raw, default).error = ""
    PROVE  /\ raw.host.kind # "bad"
           /\ parse_target_authority(raw, default).value =
                [host |-> [kind |-> raw.host.kind, labels |-> raw.host.labels],
                 port |-> IF raw.port = NoPort THEN default ELSE raw.port]
<1> DEFINE port == IF raw.port = NoPort THEN default ELSE raw.port
           host == normalize_target_host(raw.host)
           a == parse_target_authority(raw, default)
<1>1. host.error = "" /\ a = Accepted([host |-> host.value, port |-> port])
  BY DEF parse_target_authority, Accepted, Refused
<1>2. host.value = [kind |-> raw.host.kind, labels |-> raw.host.labels]
  BY <1>1, HostNormalized
<1>3. raw.host.kind # "bad" BY <1>1 DEF normalize_target_host, Refused
<1> HIDE DEF a, host, port
<1>4. a.value = [host |-> host.value, port |-> port] BY <1>1 DEF Accepted
<1> QED BY <1>2, <1>3, <1>4 DEF a, port

(* A Host header that was compared with the target names it, and is the *)
(* only one (validate_matching_host).                                   *)
LEMMA HostMatches ==
    ASSUME NEW s, s \in Seq(Range(s)), NEW target, NEW default,
           validate_matching_host(s, target, default) = "",
           default \in {target.port, 80}
    PROVE  \E h \in Range(s) : Range(s) = {h} /\ Len(s) = 1
             /\ h.host.kind = target.host.kind /\ h.host.labels = target.host.labels
             /\ h.port \in {target.port, NoPort}
<1> DEFINE h == s[1]
<1>2. Len(s) = 1 /\ parse_target_authority(s[1], default).error = ""
      /\ parse_target_authority(s[1], default).value = target
  BY DEF validate_matching_host
<1>3. Range(s) = {h} BY <1>2, OneElement
<1>4. target = [host |-> [kind |-> h.host.kind, labels |-> h.host.labels],
                port |-> IF h.port = NoPort THEN default ELSE h.port]
  BY <1>2, AuthorityRead
<1> HIDE DEF h
<1>5. target.host.kind = h.host.kind /\ target.host.labels = h.host.labels
      /\ target.port = IF h.port = NoPort THEN default ELSE h.port BY <1>4
<1> QED BY <1>2, <1>3, <1>5

(* The error a target can give. *)
LEMMA TargetErrors ==
    ASSUME NEW raw, NEW default
    PROVE  parse_target_authority(raw, default).error \in {"", "InvalidTarget"}
BY DEF parse_target_authority, normalize_target_host, Accepted, Refused

(* The errors a Host header can give. *)
LEMMA HostErrors ==
    ASSUME NEW hosts, NEW target, NEW default
    PROVE  validate_matching_host(hosts, target, default) \in {"", "InvalidHost", "HostMismatch"}
BY DEF validate_matching_host

(* The one error a framing can give. *)
LEMMA FramingErrors ==
    ASSUME NEW r
    PROVE  /\ validate_connect_framing(r) \in {"", "InvalidFraming"}
           /\ validate_http_framing(r) \in {"", "InvalidFraming"}
<1>1. parse_content_length(r.lengths).error \in {"", "InvalidFraming"}
  BY DEF parse_content_length, Accepted, Refused
<1>2. validate_transfer_encoding(r.codings) \in {"", "InvalidFraming"}
  BY DEF validate_transfer_encoding
<1> QED BY <1>1, <1>2 DEF validate_connect_framing, validate_http_framing

(* The first of equal lengths stands for all of them. *)
LEMMA FirstLength ==
    ASSUME NEW s \in Seq(Nat), \A i, j \in 1..Len(s) : s[i] = s[j]
    PROVE  /\ s = <<>> => SubSeq(s, 1, IF s = <<>> THEN 0 ELSE 1) = <<>>
           /\ s # <<>> => SubSeq(s, 1, IF s = <<>> THEN 0 ELSE 1) = <<s[1]>>
           /\ SubSeq(s, 1, IF s = <<>> THEN 0 ELSE 1) \in {<<>>, <<0>>} => Range(s) \subseteq {0}
<1>1. s = <<>> => SubSeq(s, 1, 0) = <<>> BY SubSeqEmpty
<1>2. s # <<>> => SubSeq(s, 1, 1) = <<s[1]>>
  <2> SUFFICES ASSUME s # <<>> PROVE SubSeq(s, 1, 1) = <<s[1]>> OBVIOUS
  <2>0. 1 \in 1..Len(s) /\ \A i \in 1..1 : s[i] \in Nat OBVIOUS
  <2> DEFINE u == SubSeq(s, 1, 1)
  <2>1. Len(u) = 1 /\ u[1] = s[1] /\ u \in Seq(Nat)
    BY <2>0, SubSeqProperties
  <2> HIDE DEF u
  <2>2. u = <<s[1]>> BY <2>1
  <2> QED BY <2>2 DEF u
<1>3. DOMAIN s = 1..Len(s) OBVIOUS
<1>4. s # <<>> => 1 \in 1..Len(s) OBVIOUS
<1>5. s # <<>> /\ s[1] = 0 => Range(s) \subseteq {0} BY <1>3, <1>4 DEF Range
<1>6. s = <<>> => Range(s) = {} BY DEF Range
<1>7. s # <<>> /\ <<s[1]>> \in {<<>>, <<0>>} => s[1] = 0 OBVIOUS
<1> QED BY <1>1, <1>2, <1>5, <1>6, <1>7

(* A Content-Length that was accepted is the one all the headers give. *)
LEMMA LengthAccepted ==
    ASSUME NEW s \in Seq(Nat), parse_content_length(s).error = ""
    PROVE  /\ \A i, j \in 1..Len(s) : s[i] = s[j]
           /\ s = <<>> => parse_content_length(s).value = <<>>
           /\ s # <<>> => parse_content_length(s).value = <<s[1]>>
           /\ parse_content_length(s).value \in {<<>>, <<0>>} => Range(s) \subseteq {0}
<1>1. ~(Cardinality(Range(s)) > 1) /\ parse_content_length(s) = Accepted(SubSeq(s, 1, IF s = <<>> THEN 0 ELSE 1))
  BY DEF parse_content_length, Refused, Accepted
<1>2. \A i, j \in 1..Len(s) : s[i] = s[j] BY <1>1, LengthsAgree
<1>3. \A v : Accepted(v).value = v BY DEF Accepted
<1>4. parse_content_length(s).value = SubSeq(s, 1, IF s = <<>> THEN 0 ELSE 1)
  BY <1>1, <1>3, Zenon
<1> QED BY <1>2, <1>4, FirstLength, Zenon

(* A CONNECT that decodes has one reading, no body and no rewritten head. *)
LEMMA ParseConnect ==
    ASSUME NEW r, IsHead(r), r.method = "CONNECT", parse_connect(r).error = ""
    PROVE  /\ ReadsOneWay(r, parse_connect(r).value.target)
           /\ parse_connect(r).value.rewritten = {}
           /\ parse_connect(r).value.protocol = "HttpConnect"
           /\ parse_connect(r).value.target = parse_target_authority(r.target, NoPort).value
           /\ parse_target_authority(r.target, NoPort).error = ""
<1> DEFINE a == parse_target_authority(r.target, NoPort)  t == a.value
<1>1. /\ a.error = "" /\ validate_matching_host(r.hosts, t, t.port) = ""
      /\ validate_connect_framing(r) = "" /\ parse_connect(r) = Decoded(t, "HttpConnect", {})
  BY DEF parse_connect, Refused, Decoded
<1>2. r.hosts \in Seq(Range(r.hosts)) /\ r.lengths \in Seq(Nat) BY Zenon DEF IsHead
<1> DEFINE p == parse_content_length(r.lengths)
<1>3. r.codings = <<>> /\ p.error = "" /\ p.value \in {<<>>, <<0>>}
  BY <1>1 DEF validate_connect_framing
<1> HIDE DEF t, a
<1>5. \E h \in Range(r.hosts) : Range(r.hosts) = {h} /\ Len(r.hosts) = 1
         /\ h.host.kind = t.host.kind /\ h.host.labels = t.host.labels
         /\ h.port \in {t.port, NoPort}
  BY <1>1, <1>2, HostMatches
<1>6. Range(r.lengths) \subseteq {0} /\ \A i, j \in 1..Len(r.lengths) : r.lengths[i] = r.lengths[j]
  BY <1>2, <1>3, LengthAccepted, Zenon
<1>7. parse_connect(r).value.target = t /\ parse_connect(r).value.rewritten = {}
      /\ parse_connect(r).value.protocol = "HttpConnect"
  <2> DEFINE d == parse_connect(r)
  <2>1. d = Decoded(t, "HttpConnect", {}) BY <1>1
  <2> HIDE DEF d
  <2>2. d.value.target = t /\ d.value.rewritten = {} /\ d.value.protocol = "HttpConnect"
    BY <2>1 DEF Decoded, Accepted
  <2> QED BY <2>2 DEF d
<1>8. ReadsOneWay(r, t) BY <1>3, <1>5, <1>6 DEF ReadsOneWay
<1> QED BY <1>1, <1>7, <1>8 DEF t, a

(* An absolute-form request that decodes has one reading and a rewritten *)
(* head.                                                                 *)
LEMMA ParseAbsolute ==
    ASSUME NEW r, IsHead(r), r.method # "CONNECT", parse_absolute_http(r).error = ""
    PROVE  /\ ReadsOneWay(r, parse_absolute_http(r).value.target)
           /\ parse_absolute_http(r).value.rewritten # {}
           /\ parse_absolute_http(r).value.protocol = "HttpAbsoluteForm"
           /\ parse_absolute_http(r).value.target = parse_target_authority(r.target, 80).value
           /\ parse_target_authority(r.target, 80).error = ""
<1> DEFINE a == parse_target_authority(r.target, 80)  t == a.value
           w == {sanitized_absolute_request_prefix(r, t)}
<1>1. /\ a.error = "" /\ validate_matching_host(r.hosts, t, 80) = ""
      /\ validate_http_framing(r) = "" /\ parse_absolute_http(r) = Decoded(t, "HttpAbsoluteForm", w)
  BY DEF parse_absolute_http, Refused, Decoded
<1>2. r.hosts \in Seq(Range(r.hosts)) /\ r.lengths \in Seq(Nat) /\ r.codings \in Seq(Seq(STRING) \ {<<>>})
  BY Zenon DEF IsHead
<1> DEFINE p == parse_content_length(r.lengths)
<1>3. /\ p.error = "" /\ (p.value = <<>> \/ r.codings = <<>>)
      /\ r.codings # <<>> => validate_transfer_encoding(r.codings) = ""
  BY <1>1 DEF validate_http_framing
<1> HIDE DEF t, a
<1>0. w # {} OBVIOUS
<1> HIDE DEF w
<1>5. \E h \in Range(r.hosts) : Range(r.hosts) = {h} /\ Len(r.hosts) = 1
         /\ h.host.kind = t.host.kind /\ h.host.labels = t.host.labels
         /\ h.port \in {t.port, NoPort}
  BY <1>1, <1>2, HostMatches
<1>6. /\ \A i, j \in 1..Len(r.lengths) : r.lengths[i] = r.lengths[j]
      /\ r.lengths = <<>> \/ r.codings = <<>>
  <2>1. /\ \A i, j \in 1..Len(r.lengths) : r.lengths[i] = r.lengths[j]
        /\ r.lengths # <<>> => p.value = <<r.lengths[1]>>
    BY <1>2, <1>3, LengthAccepted
  <2>2. \A x : <<x>> # <<>> OBVIOUS
  <2> HIDE DEF p
  <2> QED BY <2>1, <2>2, <1>3
<1>7. parse_absolute_http(r).value.target = t /\ parse_absolute_http(r).value.rewritten = w
      /\ parse_absolute_http(r).value.protocol = "HttpAbsoluteForm"
  <2> DEFINE d == parse_absolute_http(r)
  <2>1. d = Decoded(t, "HttpAbsoluteForm", w) BY <1>1
  <2> HIDE DEF d
  <2>2. d.value.target = t /\ d.value.rewritten = w /\ d.value.protocol = "HttpAbsoluteForm"
    BY <2>1 DEF Decoded, Accepted
  <2> QED BY <2>2 DEF d
<1>8. r.codings # <<>> => Last(Last(r.codings)) = "chunked"
  BY <1>2, <1>3, FlattenLast DEF validate_transfer_encoding
<1>9. ReadsOneWay(r, t) BY <1>5, <1>6, <1>8 DEF ReadsOneWay
<1> QED BY <1>0, <1>1, <1>7, <1>9 DEF t, a

(* A request that decodes has one reading, a target taken from its request *)
(* line, and a rewritten head unless it is a CONNECT                       *)
(* (ExplicitRequestParser::parse).                                         *)
LEMMA ParseMeans ==
    ASSUME NEW r, IsHead(r), parse(r).error = ""
    PROVE  /\ ReadsOneWay(r, parse(r).value.target)
           /\ (parse(r).value.rewritten = {}) <=> (r.method = "CONNECT")
           /\ parse(r).value.protocol \in {"HttpConnect", "HttpAbsoluteForm"}
           /\ \E d \in {80, NoPort} :
                     /\ parse(r).value.target = parse_target_authority(r.target, d).value
                     /\ parse_target_authority(r.target, d).error = ""
<1>1. CASE r.method = "CONNECT" BY <1>1, ParseConnect DEF parse, IsHead, Refused
<1>2. CASE r.method # "CONNECT" BY <1>2, ParseAbsolute DEF parse, IsHead, Refused
<1> QED BY <1>1, <1>2

(* A request that does not decode gets one of the decoder's own errors, and *)
(* none of those that stand for the connection.                             *)
LEMMA ParseErrors ==
    ASSUME NEW r, IsHead(r), parse(r).error # ""
    PROVE  parse(r).error \in ExplicitRequestError \ {"Io", "HeaderTimeout"}
<1> DEFINE E == {"", "InvalidTarget", "InvalidHost", "HostMismatch", "InvalidFraming"}
<1>0. \A e : Refused(e).error = e BY DEF Refused
<1>1. parse_connect(r).error \in E
  <2> DEFINE a == parse_target_authority(r.target, NoPort)  t == a.value
             h == validate_matching_host(r.hosts, t, t.port)  f == validate_connect_framing(r)
  <2>4. a.error \in {"", "InvalidTarget"} BY TargetErrors, Zenon
  <2>5. h \in {"", "InvalidHost", "HostMismatch"} BY HostErrors, Zenon
  <2>6. f \in {"", "InvalidFraming"} BY FramingErrors, Zenon
  <2>1. a.error \in E /\ h \in E /\ f \in E BY <2>4, <2>5, <2>6, Zenon
  <2> DEFINE d == parse_connect(r)
  <2>2. d \in {a, Refused(h), Refused(f), Decoded(t, "HttpConnect", {})}
    BY Zenon DEF parse_connect
  <2> HIDE DEF d, a, t, h, f
  <2>3. d.error \in E
    <3>1. CASE d = a BY <3>1, <2>1
    <3>2. CASE d = Refused(h) BY <3>2, <2>1 DEF Refused
    <3>3. CASE d = Refused(f) BY <3>3, <2>1 DEF Refused
    <3>4. CASE d = Decoded(t, "HttpConnect", {}) BY <3>4 DEF Decoded, Accepted
    <3> QED BY <2>2, <3>1, <3>2, <3>3, <3>4
  <2> QED BY <2>3 DEF d
<1>2. parse_absolute_http(r).error \in E
  <2> DEFINE a == parse_target_authority(r.target, 80)  t == a.value
             h == validate_matching_host(r.hosts, t, 80)  f == validate_http_framing(r)
             w == {sanitized_absolute_request_prefix(r, t)}
  <2>4. a.error \in {"", "InvalidTarget"} BY TargetErrors, Zenon
  <2>5. h \in {"", "InvalidHost", "HostMismatch"} BY HostErrors, Zenon
  <2>6. f \in {"", "InvalidFraming"} BY FramingErrors, Zenon
  <2>1. a.error \in E /\ h \in E /\ f \in E BY <2>4, <2>5, <2>6, Zenon
  <2> DEFINE d == parse_absolute_http(r)
  <2>2. d \in {Refused("InvalidTarget"), a, Refused(h), Refused(f),
                                    Decoded(t, "HttpAbsoluteForm", w)}
    BY Zenon DEF parse_absolute_http
  <2> HIDE DEF d, a, t, h, f, w
  <2>3. d.error \in E
    <3>1. CASE d = a BY <3>1, <2>1
    <3>2. CASE d = Refused(h) BY <3>2, <2>1 DEF Refused
    <3>3. CASE d = Refused(f) BY <3>3, <2>1 DEF Refused
    <3>4. CASE d = Decoded(t, "HttpAbsoluteForm", w) BY <3>4 DEF Decoded, Accepted
    <3>5. CASE d = Refused("InvalidTarget") BY <3>5 DEF Refused
    <3> QED BY <2>2, <3>1, <3>2, <3>3, <3>4, <3>5
  <2> QED BY <2>3 DEF d
<1> QED BY <1>1, <1>2 DEF parse, IsHead, Refused, ExplicitRequestError

-----------------------------------------------------------------------------
(* Where a flow goes and under which policy. *)

(* Where nothing is known of the flow yet. *)
Fresh == {"idle", "head", "parse", "open", "redirect"}

(* Where the engine has the flow. *)
Later == {"detect", "hello", "accept", "plain", "connect", "copy", "relay"}

(* The fields of a flow. *)
FlowFields == {"ingress", "target", "host", "destination", "upstream", "via", "peer", "protocol", "sni",
               "snapshot", "decision", "code"}

(* The action the flow's own policy means for it. *)
Meant(action) ==
    Means(flow.snapshot, IF client.sni # NoHost THEN client.sni ELSE flow.host, client.process, action)

(* The client asked for target t, in a request that decodes. *)
Requested(t) ==
    /\ client \in Clients
    /\ parse(client.request).error = "" /\ t = parse(client.request).value.target

(* Where a connection has come to says who it is and what is known of it. *)
WhereInv ==
    /\ at \in Fresh \cup Later \cup {"prepare", "established", "refuse", "failed"}
    /\ DOMAIN flow = FlowFields
    /\ at = "idle" => client = Idle
    /\ at # "idle" => client \in Clients
    /\ at \in Fresh => flow = NoFlow
    /\ at \in {"head", "parse", "prepare", "established", "refuse"} => client.kind = "explicit"
    /\ at \in {"open", "redirect"} => client.kind # "explicit"

(* How a flow is routed: an explicit one is prepared before the engine has it *)
(* and goes where its request said, a platform one has no route until it is   *)
(* connected, and only without a proxy is the connection left to the engine.  *)
RouteInv ==
    /\ flow.ingress \in FlowIngress /\ flow.upstream \in UpstreamConnection
    /\ flow.destination \in DestinationAddress
    /\ at \in {"prepare", "established"} => flow.ingress = "explicit"
    /\ at = "prepare" => flow.via = "none" /\ flow.peer = {}
    /\ at = "established" => flow.upstream = "Prepared"
    /\ at \in Later /\ flow.ingress = "explicit" => flow.upstream = "Prepared"
    /\ at \in Later => flow.ingress # "none"
    /\ at \in Later /\ flow.upstream = "Deferred" => ~client.proxy
    /\ flow.ingress # "explicit" /\ at \notin {"relay", "copy"} => flow.via = "none"
    /\ flow.ingress = "explicit" => Requested(flow.target)
    /\ PathRouted

(* What was decided for a flow is what its own policy means, from the     *)
(* recognition on, and the name of an intercepted tunnel is the target's. *)
PolicyInv ==
    /\ IsPolicy(policy) /\ IsPolicy(flow.snapshot)
    /\ at \notin {"accept", "connect", "copy", "relay", "failed"} => flow.decision = ""
    /\ at = "plain" => flow.protocol = "PlainHttp"
    /\ at \in {"hello", "accept"} => flow.protocol = "Tls"
    /\ at = "accept" => Meant("Intercept")
    /\ at \in {"connect", "copy", "relay"} /\ flow.protocol = "Tls" => Meant(flow.decision)
    /\ at \in {"connect", "copy", "relay"} /\ flow.decision = "Intercept" /\ flow.ingress = "explicit"
       /\ flow.target.host.kind = "dns" => flow.sni.labels = flow.target.host.labels
    /\ flow.via = "proxy" /\ flow.ingress # "explicit" /\ flow.sni # NoHost
       => flow.target.host.kind = "dns" \/ flow.target.host = [kind |-> flow.sni.kind, labels |-> flow.sni.labels]

(* The fields of a flow nothing is known of. *)
LEMMA NoFlowIs ==
    /\ NoFlow.ingress = "none" /\ NoFlow.destination = "Unknown" /\ NoFlow.upstream = "Deferred"
    /\ NoFlow.via = "none" /\ NoFlow.peer = {} /\ NoFlow.protocol = "" /\ NoFlow.sni = NoHost
    /\ NoFlow.snapshot = DefaultPolicy /\ NoFlow.decision = "" /\ DOMAIN NoFlow = FlowFields
<1> HIDE DEF NoHost, DefaultPolicy, NoTarget
<1>1. /\ NoFlow.ingress = "none" /\ NoFlow.destination = "Unknown" /\ NoFlow.upstream = "Deferred"
      /\ NoFlow.via = "none" /\ NoFlow.peer = {} /\ NoFlow.protocol = "" BY DEF NoFlow
<1>2. /\ NoFlow.sni = NoHost /\ NoFlow.snapshot = DefaultPolicy /\ NoFlow.decision = "" BY DEF NoFlow
<1>3. DOMAIN NoFlow = FlowFields BY DEF NoFlow, FlowFields
<1> QED BY <1>1, <1>2, <1>3

(* A target that is not a name is an address the listener can be compared *)
(* with.                                                                  *)
LEMMA TargetAddressed ==
    ASSUME NEW t, Requested(t), t.host.kind # "dns"
    PROVE  IsAddress(AddressOf(t.host, t.port))
<1> DEFINE r == client.request  w == r.target
<1>1. IsHead(r) /\ parse(r).error = "" /\ t = parse(r).value.target
  BY ClientsAssumption DEF Requested
<1>2. PICK d \in {80, NoPort} : parse(r).value.target = parse_target_authority(w, d).value
                                /\ parse_target_authority(w, d).error = ""
  BY <1>1, ParseMeans
<1>3. /\ w.host.kind # "bad"
      /\ t = [host |-> [kind |-> w.host.kind, labels |-> w.host.labels],
              port |-> IF w.port = NoPort THEN d ELSE w.port]
  BY <1>1, <1>2, AuthorityRead
<1>4. IsWritten(w) BY <1>1 DEF IsHead
<1> HIDE DEF r, w
<1>5. t.host.kind = w.host.kind /\ t.host.labels = w.host.labels /\ t.port \in Nat
  BY <1>3, <1>4 DEF IsWritten, NoPort
<1>6. w.host.kind \in {"v4", "v6", "mapped"} BY <1>3, <1>4, <1>5 DEF IsWritten
<1>7. PICK h \in AddressHost : w.host.labels = <<h>> BY <1>4, <1>6 DEF IsWritten, AddressHost
<1>8. t.host.labels[1] = h BY <1>5, <1>7
<1> QED BY <1>5, <1>6, <1>8 DEF IsAddress, AddressOf, Address, AddressFam

(* Every step keeps WhereInv. *)
LEMMA WhereStep ==
    ASSUME WhereInv, PathNext PROVE WhereInv'
<1> USE DEF Fresh, Later
<1>1. ASSUME NEW c \in Clients, Accept(c) PROVE WhereInv'
  BY <1>1, ClientsAssumption DEF WhereInv, Accept
<1>2. ASSUME NEW p \in Policies, replace_tls_decryption_policy(p) PROVE WhereInv'
  BY <1>2 DEF WhereInv, replace_tls_decryption_policy
<1>3. ASSUME NEW n \in 0..ReadSize, read_request_head(n) PROVE WhereInv'
  BY <1>3 DEF WhereInv, read_request_head, reject_decoder_error, Refuse, FlowFields, Stay
<1>4. ASSUME decode PROVE WhereInv'
  BY <1>4 DEF WhereInv, decode, reject_decoder_error, Refuse, FlowFields, Stay
<1>5. ASSUME prepare_direct PROVE WhereInv'
  BY <1>5 DEF WhereInv, prepare_direct, Prepared, Refuse, FlowFields, Stay
<1>6. ASSUME prepare_proxied PROVE WhereInv'
  BY <1>6 DEF WhereInv, prepare_proxied, Prepared, Refuse, FlowFields, Stay
<1>7. ASSUME handle_flow PROVE WhereInv'
  BY <1>7 DEF WhereInv, handle_flow, with_read_prefix, HandleFrame, FlowFields, Stay
<1>8. ASSUME handle_with_decryption_policy PROVE WhereInv'
  BY <1>8 DEF WhereInv, handle_with_decryption_policy, HandleFrame, FlowFields, Stay, Fail
<1>9. ASSUME accept_client_tls PROVE WhereInv'
  BY <1>9 DEF WhereInv, accept_client_tls, HandleFrame, FlowFields, Stay, Fail
<1>10. ASSUME decode_plain PROVE WhereInv'
  BY <1>10 DEF WhereInv, decode_plain, HandleFrame, FlowFields, Stay, Fail
<1>11. ASSUME connect_upstream PROVE WhereInv'
  BY <1>11 DEF WhereInv, connect_upstream, Upstream, HandleFrame, FlowFields, Stay, Fail
<1>12. ASSUME NEW e \in ExplicitRequestError, HeadFails(e) PROVE WhereInv'
  BY <1>12 DEF WhereInv, HeadFails, reject_decoder_error, Refuse, FlowFields, Stay
<1>13. ASSUME NEW e \in TransparentFlowError, DetectFails(e) \/ HelloFails(e) PROVE WhereInv'
  BY <1>13 DEF WhereInv, DetectFails, HelloFails, Fail, HandleFrame, Stay
<1>14. ASSUME WriteRefusal PROVE WhereInv'
  BY <1>14 DEF WhereInv, WriteRefusal, Write, Stay
<1>15. ASSUME into_flow_explicit PROVE WhereInv'
  BY <1>15 DEF WhereInv, into_flow_explicit, FlowFields, Stay, Fail
<1>16. ASSUME into_flow_macos PROVE WhereInv'
  BY <1>16 DEF WhereInv, into_flow_macos, Platform, FlowFields, Stay, Fail
<1>17. ASSUME into_flow_windows PROVE WhereInv'
  BY <1>17 DEF WhereInv, into_flow_windows, Platform, FlowFields, Stay, Fail
<1>18. ASSUME NEW n \in 0..Total, detect(n) \/ read_client_hello(n) \/ passthrough(n) PROVE WhereInv'
  BY <1>18 DEF WhereInv, detect, read_client_hello, passthrough, HandleFrame, Stay
<1> QED BY <1>1, <1>2, <1>3, <1>4, <1>5, <1>6, <1>7, <1>8, <1>9, <1>10, <1>11, <1>12, <1>13, <1>14,
           <1>15, <1>16, <1>17, <1>18 DEF PathNext, PathBounded

(* Every step keeps RouteInv: a direct connection is only made to an address *)
(* that was compared with the listener.                                      *)
LEMMA RouteStep ==
    ASSUME WhereInv, RouteInv, PathNext PROVE RouteInv'
<1> USE DEF Fresh, Later, FlowFields, WhereInv
<1>1. ASSUME NEW c \in Clients, Accept(c) PROVE RouteInv'
  BY <1>1, NoFlowIs, ClientsAssumption DEF Accept, RouteInv, PathRouted, FlowIngress, UpstreamConnection,
     DestinationAddress
<1>2. ASSUME NEW p \in Policies, replace_tls_decryption_policy(p) PROVE RouteInv'
  BY <1>2, ClientsAssumption DEF RouteInv, PathRouted, Requested, NoFlow, FlowIngress, UpstreamConnection, DestinationAddress, replace_tls_decryption_policy
<1>0. ASSUME NEW e, reject_decoder_error(e), client' = client, at \in {"head", "parse"} PROVE RouteInv'
  <2>1. flow.ingress = "none" /\ flow.upstream = "Deferred" /\ flow.destination = "Unknown"
        /\ flow.via = "none" /\ flow.peer = {}
    BY <1>0, NoFlowIs
  <2>2. PICK code : Refuse(e, code) BY <1>0 DEF reject_decoder_error
  <2>3. /\ flow'.ingress = "none" /\ flow'.upstream = "Deferred" /\ flow'.destination = "Unknown"
        /\ flow'.via = "none" /\ flow'.peer = {} /\ at' \in {"failed", "refuse"}
    BY <2>1, <2>2 DEF Refuse
  <2> QED BY <1>0, <2>3 DEF RouteInv, PathRouted, FlowIngress, UpstreamConnection, DestinationAddress
<1>3. ASSUME NEW n \in 0..ReadSize, read_request_head(n) PROVE RouteInv'
  BY <1>0, <1>3 DEF RouteInv, PathRouted, Requested, read_request_head, Stay
<1>4. ASSUME decode PROVE RouteInv'
  <2>1. flow.ingress = "none" /\ flow.upstream = "Deferred" /\ flow.destination = "Unknown"
        /\ flow.via = "none" /\ flow.peer = {}
    BY <1>4, NoFlowIs DEF decode
  <2> DEFINE r == parse(client.request)
  <2>2. CASE r.error # "" BY <1>0, <1>4, <2>2 DEF decode, Stay
  <2>3. CASE r.error = ""
    BY <1>4, <2>1, <2>3 DEF decode, Stay, Requested, RouteInv, PathRouted, FlowIngress, UpstreamConnection,
       DestinationAddress
  <2> QED BY <2>2, <2>3
<1>5. ASSUME prepare_direct PROVE RouteInv'
  <2>0. at = "prepare" /\ client' = client /\ ~client.proxy /\ Requested(flow.target) /\ flow.ingress = "explicit"
        /\ flow.via = "none" /\ flow.peer = {}
    BY <1>5 DEF prepare_direct, Stay, RouteInv
  <2>1. ASSUME NEW e, NEW k, Refuse(e, k) PROVE RouteInv'
    BY <2>0, <2>1 DEF Refuse, Requested, RouteInv, PathRouted, Stay, FlowIngress, UpstreamConnection, DestinationAddress
  <2>2. ASSUME NEW a, IsAddress(a), ~contains(Listen, a), Prepared("Known", "direct", {a}) PROVE RouteInv'
    <3>1. ~Arrives(Listen, a) BY <2>2, ArrivesContained, ClientsAssumption
    <3> QED BY <2>0, <2>2, <3>1 DEF Prepared, Requested, RouteInv, PathRouted, Stay, FlowIngress, UpstreamConnection, DestinationAddress
  <2>3. \A a \in client.dns : IsAddress(a) BY <2>0, ClientsAssumption DEF Requested
  <2>4. \A a \in TargetIp : IsAddress(a) BY <2>0, TargetAddressed DEF TargetIp
  <2> HIDE DEF WhereInv, RouteInv
  <2> QED BY <1>5, <2>1, <2>2, <2>3, <2>4 DEF prepare_direct
<1>6. ASSUME prepare_proxied PROVE RouteInv'
  BY <1>6 DEF RouteInv, PathRouted, Requested, NoFlow, FlowIngress, UpstreamConnection, DestinationAddress, prepare_proxied, Prepared, Refuse, Stay
<1>7. ASSUME handle_flow PROVE RouteInv'
  BY <1>7 DEF RouteInv, PathRouted, Requested, NoFlow, FlowIngress, UpstreamConnection, DestinationAddress, handle_flow, with_read_prefix, HandleFrame, Stay
<1>21. ASSUME at \in {"hello", "accept", "plain"}, at' \in {"accept", "connect", "failed"}, HandleFrame,
              flow'.ingress = flow.ingress, flow'.upstream = flow.upstream, flow'.destination = flow.destination,
              flow'.via = flow.via, flow'.peer = flow.peer, flow'.target = flow.target
       PROVE  RouteInv' BY <1>21 DEF HandleFrame, Stay, RouteInv, PathRouted, Requested
<1>8. ASSUME handle_with_decryption_policy PROVE RouteInv' BY <1>8, <1>21 DEF handle_with_decryption_policy, Fail
<1>9. ASSUME accept_client_tls PROVE RouteInv' BY <1>9, <1>21 DEF accept_client_tls, Fail
<1>10. ASSUME decode_plain PROVE RouteInv' BY <1>10, <1>21 DEF decode_plain, Fail
<1>11. ASSUME connect_upstream PROVE RouteInv'
  <2>1. at = "connect" /\ client' = client BY <1>11 DEF connect_upstream, HandleFrame, Stay
  <2>2. ASSUME NEW e, Fail(e), flow' = flow PROVE RouteInv'
    BY <2>1, <2>2 DEF Fail, RouteInv, PathRouted, Requested
  <2>3. ASSUME NEW via, NEW t, Upstream(via, t), flow.ingress = "explicit" => via = flow.via /\ t = flow.target,
               client.proxy => via # "direct"
        PROVE  RouteInv' BY <2>1, <2>3 DEF Upstream, RouteInv, PathRouted, Requested
  <2>4. CASE flow.upstream = "Prepared" /\ Upstream(flow.via, flow.target) BY <2>3, <2>4 DEF RouteInv, PathRouted
  <2>5. ASSUME flow.upstream = "HttpConnect", NEW t, Upstream("proxy", t) PROVE RouteInv'
    BY <2>1, <2>3, <2>5 DEF RouteInv
  <2>6. CASE flow.upstream = "Deferred" /\ Upstream("direct", flow.target) BY <2>1, <2>3, <2>6 DEF RouteInv
  <2> HIDE DEF WhereInv, RouteInv
  <2> QED BY <1>11, <2>2, <2>4, <2>5, <2>6, Zenon DEF connect_upstream
<1>12. ASSUME NEW e \in ExplicitRequestError, HeadFails(e) PROVE RouteInv'
  BY <1>12 DEF RouteInv, PathRouted, Requested, NoFlow, FlowIngress, UpstreamConnection, DestinationAddress, HeadFails, reject_decoder_error, Refuse, Stay
<1>13. ASSUME NEW e \in TransparentFlowError, DetectFails(e) \/ HelloFails(e) PROVE RouteInv'
  BY <1>13 DEF RouteInv, PathRouted, Requested, NoFlow, FlowIngress, UpstreamConnection, DestinationAddress, DetectFails, HelloFails, Fail, HandleFrame, Stay
<1>14. ASSUME WriteRefusal PROVE RouteInv'
  BY <1>14 DEF RouteInv, PathRouted, Requested, NoFlow, FlowIngress, UpstreamConnection, DestinationAddress, WriteRefusal, Write, Stay
<1>15. ASSUME into_flow_explicit PROVE RouteInv'
  BY <1>15 DEF RouteInv, PathRouted, Requested, NoFlow, FlowIngress, UpstreamConnection, DestinationAddress, into_flow_explicit, Stay, Fail
<1>16. ASSUME into_flow_macos PROVE RouteInv'
  <2>1. flow.ingress = "none" /\ flow.upstream = "Deferred" /\ flow.destination = "Unknown"
        /\ flow.via = "none" /\ flow.peer = {}
    BY <1>16, NoFlowIs DEF into_flow_macos
  <2>2. ASSUME NEW i \in {"macos", "windows"}, NEW t, NEW d \in DestinationAddress, NEW h,
               Platform(i, t, d, h), client' = client
        PROVE  RouteInv'
    BY <2>1, <2>2 DEF Platform, RouteInv, PathRouted, Stay, FlowIngress, UpstreamConnection, DestinationAddress
  <2>3. ASSUME NEW e, Fail(e), client' = client, flow' = flow PROVE RouteInv'
    BY <2>1, <2>3 DEF Fail, RouteInv, PathRouted, Stay, FlowIngress, UpstreamConnection, DestinationAddress
  <2> HIDE DEF WhereInv, RouteInv
  <2> QED BY <1>16, <2>2, <2>3 DEF into_flow_macos, Stay, DestinationAddress
<1>17. ASSUME into_flow_windows PROVE RouteInv'
  <2>1. flow.ingress = "none" /\ flow.upstream = "Deferred" /\ flow.destination = "Unknown"
        /\ flow.via = "none" /\ flow.peer = {}
    BY <1>17, NoFlowIs DEF into_flow_windows
  <2>2. ASSUME NEW i \in {"macos", "windows"}, NEW t, NEW d \in DestinationAddress, NEW h,
               Platform(i, t, d, h), client' = client
        PROVE  RouteInv'
    BY <2>1, <2>2 DEF Platform, RouteInv, PathRouted, Stay, FlowIngress, UpstreamConnection, DestinationAddress
  <2>3. ASSUME NEW e, Fail(e), client' = client, flow' = flow PROVE RouteInv'
    BY <2>1, <2>3 DEF Fail, RouteInv, PathRouted, Stay, FlowIngress, UpstreamConnection, DestinationAddress
  <2> HIDE DEF WhereInv, RouteInv
  <2> QED BY <1>17, <2>2, <2>3 DEF into_flow_windows, Stay, DestinationAddress
<1>18. ASSUME NEW n \in 0..Total, detect(n) \/ read_client_hello(n) \/ passthrough(n) PROVE RouteInv'
  BY <1>18 DEF RouteInv, PathRouted, Requested, NoFlow, FlowIngress, UpstreamConnection, DestinationAddress, detect, read_client_hello, passthrough, HandleFrame, Stay
<1> QED BY <1>1, <1>2, <1>3, <1>4, <1>5, <1>6, <1>7, <1>8, <1>9, <1>10, <1>11, <1>12, <1>13, <1>14,
           <1>15, <1>16, <1>17, <1>18 DEF PathNext, PathBounded

(* A policy that does not need the ClientHello means Intercept for every host *)
(* and process: the flow may be accepted without reading it.                  *)
LEMMA NoPeekIntercepts ==
    ASSUME NEW p, IsPolicy(p), ~requires_sni_peek(p), NEW host, NEW process
    PROVE  Means(p, host, process, "Intercept")
<1>1. p.missing = "" /\ p.rules = <<>> /\ p.default = "Intercept"
  BY DEF IsPolicy, requires_sni_peek, TlsDecryptionAction
<1>2. Len(p.rules) = 0
  <2>1. Len(<<>>) = 0 OBVIOUS
  <2> QED BY <1>1, <2>1, Zenon
<1>3. \A i \in 1..Len(p.rules) : FALSE BY <1>2
<1> QED BY <1>1, <1>3, Zenon DEF Means

(* Steps before the protocol is found. *)
LEMMA PolicyQuiet ==
    ASSUME PolicyInv, policy' = policy, flow'.snapshot = flow.snapshot,
           at' \notin {"plain", "hello", "accept", "connect", "copy", "relay"},
           at' = "failed" \/ flow'.decision = "", flow'.via # "proxy" \/ flow'.ingress = "explicit"
    PROVE  PolicyInv'
BY DEF PolicyInv

(* Steps that end a connection. *)
LEMMA PolicyFail ==
    ASSUME PolicyInv, policy' = policy, flow' = flow, at' = "failed"
    PROVE  PolicyInv'
BY DEF PolicyInv

(* with_server_name gives a tunnel a name, or the address the client named. *)
LEMMA ServerNamed ==
    ASSUME NEW target, NEW sni
    PROVE  /\ target.host.kind # "dns" /\ sni # NoHost /\ with_server_name(target, sni).error = ""
              => with_server_name(target, sni).value.host = [kind |-> sni.kind, labels |-> sni.labels]
           /\ target.host.kind = "dns" => with_server_name(target, sni).value = target
<1>1. CASE target.host.kind = "dns" BY <1>1 DEF with_server_name, Accepted
<1>2. ASSUME target.host.kind # "dns", sni # NoHost, with_server_name(target, sni).error = ""
      PROVE  with_server_name(target, sni).value.host = [kind |-> sni.kind, labels |-> sni.labels]
  <2> DEFINE raw == [user |-> FALSE, host |-> sni, port |-> target.port]
             d == with_server_name(target, sni)
  <2>1. d = parse_target_authority(raw, NoPort) BY <1>2 DEF with_server_name
  <2>2. raw.host = sni OBVIOUS
  <2> HIDE DEF raw
  <2>3. parse_target_authority(raw, NoPort).error = "" BY <1>2, <2>1
  <2>4. parse_target_authority(raw, NoPort).value =
          [host |-> [kind |-> raw.host.kind, labels |-> raw.host.labels],
           port |-> IF raw.port = NoPort THEN NoPort ELSE raw.port]
    BY <2>3, AuthorityRead
  <2>5. d.value = [host |-> [kind |-> sni.kind, labels |-> sni.labels],
                   port |-> IF raw.port = NoPort THEN NoPort ELSE raw.port]
    BY <2>1, <2>2, <2>4
  <2> HIDE DEF d
  <2>6. d.value.host = [kind |-> sni.kind, labels |-> sni.labels] BY <2>5
  <2> QED BY <2>6 DEF d
<1> QED BY <1>1, <1>2

(* Every step keeps PolicyInv: the snapshot is taken once, and a policy *)
(* installed later changes nothing of the flow.                         *)
LEMMA PolicyStep ==
    ASSUME WhereInv, RouteInv, PolicyInv, PathNext PROVE PolicyInv'
<1> USE DEF Fresh, Later, FlowFields, WhereInv
<1>0. ASSUME NEW e, NEW code, Refuse(e, code), policy' = policy, at \in {"head", "parse", "prepare"},
             flow.via = "none" \/ flow.ingress = "explicit"
      PROVE  PolicyInv' BY <1>0, PolicyQuiet DEF PolicyInv, Refuse
<1>1. ASSUME NEW c \in Clients, Accept(c) PROVE PolicyInv'
  BY <1>1, ClientsAssumption DEF PolicyInv, Meant, Accept, NoFlow
<1>2. ASSUME NEW p \in Policies, replace_tls_decryption_policy(p) PROVE PolicyInv'
  BY <1>2, ClientsAssumption DEF PolicyInv, Meant, replace_tls_decryption_policy
<1>3. ASSUME NEW n \in 0..ReadSize, read_request_head(n) PROVE PolicyInv'
  <2>1. at = "head" /\ policy' = policy /\ client' = client BY <1>3 DEF read_request_head, Stay
  <2>2. flow.via = "none" BY <2>1, NoFlowIs
  <2>3. CASE flow' = flow /\ at' \in {"head", "parse"} BY <2>1, <2>2, <2>3, PolicyQuiet DEF PolicyInv
  <2>4. CASE reject_decoder_error("HeaderTooLarge") BY <1>0, <2>1, <2>2, <2>4 DEF reject_decoder_error
  <2> QED BY <1>3, <2>1, <2>3, <2>4 DEF read_request_head
<1>4. ASSUME decode PROVE PolicyInv'
  <2>1. flow.via = "none" /\ flow.decision = "" /\ policy' = policy
    BY <1>4, NoFlowIs DEF decode, Stay
  <2> DEFINE r == parse(client.request)  t == r.value.target  q == r.value.protocol
  <2>2. \/ flow' = [flow EXCEPT !.ingress = "explicit", !.target = t, !.protocol = q] /\ at' = "prepare"
        \/ \E k : Refuse(r.error, k)
    <3>1. CASE r.error # ""
      <4>1. reject_decoder_error(r.error) BY <1>4, <3>1 DEF decode
      <4> HIDE DEF r
      <4> QED BY <4>1 DEF reject_decoder_error
    <3>2. CASE r.error = "" BY <1>4, <3>2, Zenon DEF decode
    <3> QED BY <3>1, <3>2
  <2> HIDE DEF r, t, q
  <2>3. at' \in {"prepare", "refuse", "failed"} BY <2>2 DEF Refuse
  <2>4. flow'.snapshot = flow.snapshot /\ flow'.decision = flow.decision /\ flow'.via = flow.via
    BY <2>2 DEF Refuse
  <2> HIDE DEF WhereInv
  <2> QED BY <2>1, <2>3, <2>4, PolicyQuiet
<1>5. ASSUME prepare_direct PROVE PolicyInv'
  BY <1>0, <1>5, PolicyQuiet DEF prepare_direct, Stay, RouteInv, PolicyInv, Prepared
<1>6. ASSUME prepare_proxied PROVE PolicyInv'
  BY <1>6, PolicyQuiet DEF prepare_proxied, Stay, RouteInv, PolicyInv, Refuse, Prepared
<1>7. ASSUME handle_flow PROVE PolicyInv'
  <2>0. at = "detect" /\ client' = client /\ policy' = policy /\ IsPolicy(policy) /\ flow.decision = ""
        /\ (flow.ingress # "explicit" => flow.via = "none")
    BY <1>7 DEF handle_flow, HandleFrame, Stay, PolicyInv, RouteInv
  <2>1. PICK next, p : /\ flow' = [flow EXCEPT !.protocol = p, !.snapshot = policy] /\ at' = next
                       /\ \/ next = "plain" /\ p = "PlainHttp"
                          \/ next = "hello" /\ p = "Tls"
                          \/ next = "accept" /\ p = "Tls" /\ ~requires_sni_peek(policy)
    BY <1>7 DEF handle_flow, with_read_prefix
  <2>2. /\ flow'.protocol = p /\ flow'.snapshot = policy /\ flow'.decision = "" /\ flow'.via = flow.via
        /\ flow'.ingress = flow.ingress
    BY <2>0, <2>1
  <2>3. at' = "accept" => Meant("Intercept")' BY <2>0, <2>1, <2>2, NoPeekIntercepts DEF Meant
  <2> HIDE DEF WhereInv
  <2> QED BY <2>0, <2>1, <2>2, <2>3 DEF PolicyInv
<1>8. ASSUME handle_with_decryption_policy PROVE PolicyInv'
  <2>0. at = "hello" /\ client' = client /\ policy' = policy /\ IsPolicy(flow.snapshot) /\ flow.protocol = "Tls"
        /\ (flow.ingress # "explicit" => flow.via = "none") /\ IsPolicy(policy)
    BY <1>8 DEF handle_with_decryption_policy, HandleFrame, Stay, PolicyInv, RouteInv
  <2> DEFINE domain == IF client.sni # NoHost THEN client.sni ELSE flow.host
             action == decide(flow.snapshot, domain, client.process)
  <2>1. \/ \E e : Fail(e) /\ UNCHANGED flow
        \/ /\ at' = IF action = "Intercept" THEN "accept" ELSE "connect"
           /\ flow' = [flow EXCEPT !.decision = action, !.sni = client.sni]
    BY <1>8, Zenon DEF handle_with_decryption_policy
  <2>2. CASE \E e : Fail(e) /\ UNCHANGED flow
    <3> HIDE DEF WhereInv
    <3> QED BY <2>0, <2>2, PolicyFail DEF Fail
  <2>3. PICK x : x = action OBVIOUS
  <2>5. Meant(x) BY <2>0, <2>3, DecideMeans DEF Meant
  <2> HIDE DEF action, domain
  <2>4. CASE /\ at' = IF x = "Intercept" THEN "accept" ELSE "connect"
             /\ flow' = [flow EXCEPT !.decision = x, !.sni = client.sni] BY <2>0, <2>4, <2>5 DEF Meant, PolicyInv
  <2> QED BY <2>1, <2>2, <2>3, <2>4
<1>9. ASSUME accept_client_tls PROVE PolicyInv'
  <2>0. at = "accept" /\ client' = client /\ policy' = policy /\ IsPolicy(flow.snapshot) /\ flow.protocol = "Tls"
        /\ (flow.ingress # "explicit" => flow.via = "none") /\ IsPolicy(policy) /\ Meant("Intercept")
    BY <1>9 DEF accept_client_tls, HandleFrame, Stay, PolicyInv, RouteInv
  <2>1. \/ \E e : Fail(e) /\ UNCHANGED flow
        \/ /\ at' = "connect" /\ validate_tls_server_name(client.sni) = ""
           /\ flow' = [flow EXCEPT !.decision = "Intercept", !.sni = client.sni]
    BY <1>9 DEF accept_client_tls
  <2>2. CASE \E e : Fail(e) /\ UNCHANGED flow
    <3> HIDE DEF WhereInv
    <3> QED BY <2>0, <2>2, PolicyFail DEF Fail
  <2>3. CASE /\ at' = "connect" /\ validate_tls_server_name(client.sni) = ""
             /\ flow' = [flow EXCEPT !.decision = "Intercept", !.sni = client.sni]
    BY <2>0, <2>3 DEF Meant, validate_tls_server_name, requires_tls_server_name_validation, SameName, PolicyInv
  <2> QED BY <2>1, <2>2, <2>3
<1>10. ASSUME decode_plain PROVE PolicyInv'
  <2>0. at = "plain" /\ client' = client /\ policy' = policy /\ IsPolicy(flow.snapshot) /\ flow.protocol = "PlainHttp"
        /\ (flow.ingress # "explicit" => flow.via = "none") /\ IsPolicy(policy) /\ flow.decision = ""
    BY <1>10 DEF decode_plain, HandleFrame, Stay, PolicyInv, RouteInv
  <2>1. CASE \E e : Fail(e) /\ UNCHANGED flow
    <3> HIDE DEF WhereInv
    <3> QED BY <2>0, <2>1, PolicyFail DEF Fail
  <2>2. CASE at' = "connect" /\ flow' = [flow EXCEPT !.sni = client.sni] BY <2>0, <2>2 DEF PolicyInv
  <2> QED BY <1>10, <2>1, <2>2 DEF decode_plain
<1>11. ASSUME connect_upstream PROVE PolicyInv'
  <2>0. at = "connect" /\ client' = client /\ policy' = policy /\ IsPolicy(flow.snapshot)
        /\ (flow.ingress # "explicit" => flow.via = "none") /\ IsPolicy(policy)
        /\ (flow.ingress = "explicit" => flow.upstream = "Prepared")
    BY <1>11 DEF connect_upstream, HandleFrame, Stay, PolicyInv, RouteInv
  <2>1. CASE \E e : Fail(e) /\ UNCHANGED flow
    <3> HIDE DEF WhereInv
    <3> QED BY <2>0, <2>1, PolicyFail DEF Fail
  <2>2. ASSUME NEW v, NEW t, Upstream(v, t), flow.ingress = "explicit" => t = flow.target,
               v = "proxy" /\ flow.ingress # "explicit" /\ flow.sni # NoHost
               => t.host.kind = "dns" \/ t.host = [kind |-> flow.sni.kind, labels |-> flow.sni.labels]
        PROVE  PolicyInv' BY <2>0, <2>2 DEF Upstream, Meant, PolicyInv
  <2>3. CASE flow.upstream = "Prepared" /\ Upstream(flow.via, flow.target)
    <3> HIDE DEF WhereInv
    <3> QED BY <2>0, <2>2, <2>3
  <2>4. CASE flow.upstream = "Deferred" /\ Upstream("direct", flow.target)
    <3> HIDE DEF WhereInv
    <3> QED BY <2>0, <2>2, <2>4
  <2> DEFINE named == with_server_name(flow.target, flow.sni)
  <2>5. CASE flow.upstream = "HttpConnect" /\ named.error = "" /\ Upstream("proxy", named.value)
    <3>0. with_server_name(flow.target, flow.sni).error = "" BY <2>5
    <3> HIDE DEF WhereInv
    <3>1. flow.target.host.kind # "dns" /\ flow.sni # NoHost
          => named.value.host = [kind |-> flow.sni.kind, labels |-> flow.sni.labels]
      BY <3>0, ServerNamed, Zenon
    <3>2. flow.target.host.kind = "dns" => named.value = flow.target
      BY ServerNamed, Zenon
    <3> DEFINE t == named.value
    <3>3. Upstream("proxy", t) BY <2>5
    <3>4. flow.sni # NoHost => t.host.kind = "dns" \/ t.host = [kind |-> flow.sni.kind, labels |-> flow.sni.labels]
      BY <3>1, <3>2
    <3> HIDE DEF WhereInv, t
    <3> QED BY <2>0, <2>2, <2>5, <3>3, <3>4
  <2> QED BY <1>11, <2>1, <2>3, <2>4, <2>5 DEF connect_upstream
<1>12. ASSUME NEW e \in ExplicitRequestError, HeadFails(e) PROVE PolicyInv'
  BY <1>12 DEF PolicyInv, Meant, HeadFails, reject_decoder_error, Refuse, Stay
<1>13. ASSUME NEW e \in TransparentFlowError, DetectFails(e) \/ HelloFails(e) PROVE PolicyInv'
  BY <1>13 DEF PolicyInv, Meant, DetectFails, HelloFails, Fail, HandleFrame, Stay
<1>14. ASSUME WriteRefusal PROVE PolicyInv'
  BY <1>14 DEF PolicyInv, Meant, WriteRefusal, Write, Stay
<1>15. ASSUME into_flow_explicit PROVE PolicyInv'
  BY <1>15 DEF PolicyInv, Meant, into_flow_explicit, Stay, Fail
<1>16. ASSUME into_flow_macos PROVE PolicyInv'
  <2>1. flow.via = "none" /\ flow.decision = "" /\ policy' = policy
    BY <1>16, NoFlowIs DEF into_flow_macos, Stay
  <2>2. (\E i, t, d, h : Platform(i, t, d, h)) \/ \E e : Fail(e) /\ UNCHANGED flow
    BY <1>16, Zenon DEF into_flow_macos
  <2>3. at' \in {"detect", "failed"} BY <2>2 DEF Platform, Fail
  <2>4. flow'.snapshot = flow.snapshot /\ flow'.decision = flow.decision /\ flow'.via = flow.via
    BY <2>2 DEF Platform
  <2> HIDE DEF WhereInv
  <2> QED BY <2>1, <2>3, <2>4, PolicyQuiet
<1>17. ASSUME into_flow_windows PROVE PolicyInv'
  <2>1. flow.via = "none" /\ flow.decision = "" /\ policy' = policy
    BY <1>17, NoFlowIs DEF into_flow_windows, Stay
  <2>2. (\E i, t, d, h : Platform(i, t, d, h)) \/ \E e : Fail(e) /\ UNCHANGED flow
    BY <1>17, Zenon DEF into_flow_windows
  <2>3. at' \in {"detect", "failed"} BY <2>2 DEF Platform, Fail
  <2>4. flow'.snapshot = flow.snapshot /\ flow'.decision = flow.decision /\ flow'.via = flow.via
    BY <2>2 DEF Platform
  <2> HIDE DEF WhereInv
  <2> QED BY <2>1, <2>3, <2>4, PolicyQuiet
<1>18. ASSUME NEW n \in 0..Total, detect(n) \/ read_client_hello(n) \/ passthrough(n) PROVE PolicyInv'
  BY <1>18 DEF PolicyInv, Meant, detect, read_client_hello, passthrough, HandleFrame, Stay
<1> QED BY <1>1, <1>2, <1>3, <1>4, <1>5, <1>6, <1>7, <1>8, <1>9, <1>10, <1>11, <1>12, <1>13, <1>14,
           <1>15, <1>16, <1>17, <1>18 DEF PathNext, PathBounded

-----------------------------------------------------------------------------
(* What the client is told. *)

(* Every error a connection can end with. *)
Errors == ExplicitIngressError \cup IngressError \cup TransparentFlowError

(* At most one response. *)
OneAnswer(r) == r = <<>> \/ \E code : r = <<code>>

(* A connection has been answered when its error says so, and at most once. *)
AnswerInv ==
    /\ failure # "" <=> at \in {"failed", "refuse"}
    /\ failure # "" => failure \in Errors
    /\ at \in Fresh \cup {"prepare", "established", "refuse"} => replies = <<>>
    /\ at = "refuse" => flow.code # 200
    /\ OneAnswer(replies)
    /\ replies = <<200>> => flow.upstream = "Prepared"
    /\ at = "failed" /\ failure \in ExplicitRequestError \ {"Io"} => replies # <<>>

(* A list of one is not the empty list. *)
LEMMA OneIsNotNone == \A c : <<c>> # <<>> /\ Append(<<>>, c) = <<c>>
<1>1. ASSUME NEW c PROVE <<c>> # <<>> OBVIOUS
<1>2. ASSUME NEW c PROVE Append(<<>>, c) = <<c>> OBVIOUS
<1> QED BY <1>1, <1>2

(* A refusal is written before the connection ends, unless it has no status. *)
LEMMA RefuseAnswers ==
    ASSUME WhereInv, AnswerInv, at \in {"head", "parse", "prepare"}, replies' = replies,
           NEW e \in Errors, NEW code \in Nat \ {200}, Refuse(e, code),
           code = 0 => e \notin ExplicitRequestError \ {"Io"}, e # ""
    PROVE  AnswerInv'
<1> USE DEF Fresh, Later, FlowFields, WhereInv
<1>1. /\ at' = IF code = 0 THEN "failed" ELSE "refuse"
      /\ failure' = e /\ flow'.code = code /\ flow'.upstream = flow.upstream
  BY DEF Refuse
<1>2. replies = <<>> /\ OneAnswer(replies) BY DEF AnswerInv
<1>3. replies # <<200>> BY <1>2, OneIsNotNone, Zenon
<1> HIDE DEF Errors, OneAnswer, ExplicitRequestError
<1> QED BY <1>1, <1>2, <1>3 DEF AnswerInv

(* A decoder's error has a status unless the connection is broken *)
(* (reject_decoder_error).                                        *)
LEMMA DecoderRefuses ==
    ASSUME WhereInv, AnswerInv, at \in {"head", "parse", "prepare"}, replies' = replies,
           NEW e \in ExplicitRequestError, reject_decoder_error(e)
    PROVE  AnswerInv'
<1> DEFINE code == CASE category(e) = "RequestTimeout" -> 408
                     [] category(e) = "HeaderTooLarge" -> 431
                     [] category(e) = "VersionNotSupported" -> 505
                     [] category(e) = "ConnectionIo" -> 0
                     [] OTHER -> 400
<1>1. Refuse(e, code) BY DEF reject_decoder_error
<1>2. category(e) = "ConnectionIo" => e = "Io" BY DEF category, ExplicitRequestError
<1>3. code \in Nat \ {200} /\ (code = 0 => e = "Io") BY <1>2
<1>4. e \in Errors /\ e # "" BY DEF Errors, ExplicitIngressError, ExplicitRequestError
<1> HIDE DEF code
<1>5. code = 0 => e \notin ExplicitRequestError \ {"Io"} BY <1>3
<1> QED BY <1>1, <1>3, <1>4, <1>5, RefuseAnswers, Zenon

(* A failed preparation has a status (ExplicitIngressError::response). *)
LEMMA PrepareRefuses ==
    ASSUME WhereInv, AnswerInv, at = "prepare", replies' = replies,
           NEW e \in ExplicitIngressError \ ExplicitRequestError, Refuse(e, response(e))
    PROVE  AnswerInv'
<1>1. response(e) \in {502, 403, 504} BY DEF response
<1>2. e \in Errors /\ e # "" BY DEF Errors, ExplicitIngressError, ExplicitRequestError
<1> DEFINE code == response(e)
<1>3. code \in Nat \ {200} /\ (code = 0 => e \notin ExplicitRequestError \ {"Io"}) /\ Refuse(e, code)
      /\ at \in {"head", "parse", "prepare"}
  BY <1>1
<1> HIDE DEF code
<1> QED BY <1>2, <1>3, RefuseAnswers, Zenon

(* Steps that answer nothing and refuse nothing. *)
LEMMA AnswerQuiet ==
    ASSUME WhereInv, AnswerInv, replies' = replies, flow'.upstream = flow.upstream \/ replies = <<>>,
           \/ failure' = failure /\ at \notin {"failed", "refuse"} /\ at' \notin {"failed", "refuse"}
              /\ (at' \in Fresh \cup {"prepare", "established"} => replies = <<>>)
           \/ at' = "failed" /\ failure' \in Errors /\ failure' \notin ExplicitRequestError \ {"Io"} /\ failure' # ""
    PROVE  AnswerInv'
<1> HIDE DEF Errors, OneAnswer, ExplicitRequestError
<1>1. replies = <<>> => replies # <<200>> BY OneIsNotNone, Zenon
<1> QED BY <1>1 DEF AnswerInv, Fresh

(* Every step keeps AnswerInv. *)
LEMMA AnswerStep ==
    ASSUME WhereInv, RouteInv, AnswerInv, PathNext PROVE AnswerInv'
<1> USE DEF Fresh, Later, FlowFields, WhereInv
<1>1. ASSUME NEW c \in Clients, Accept(c) PROVE AnswerInv'
  BY <1>1, ClientsAssumption DEF AnswerInv, Errors, ExplicitIngressError, IngressError, TransparentFlowError, ExplicitRequestError, Accept
<1>2. ASSUME NEW p \in Policies, replace_tls_decryption_policy(p) PROVE AnswerInv'
  BY <1>2 DEF AnswerInv, replace_tls_decryption_policy
<1>3. ASSUME NEW n \in 0..ReadSize, read_request_head(n) PROVE AnswerInv'
  BY <1>3, DecoderRefuses, AnswerQuiet DEF read_request_head, ExplicitRequestError, AnswerInv
<1>4. ASSUME decode PROVE AnswerInv'
  BY <1>4, ClientsAssumption, ParseErrors, DecoderRefuses, AnswerQuiet DEF decode, AnswerInv
<1>5. ASSUME prepare_direct PROVE AnswerInv'
  BY <1>5, PrepareRefuses, AnswerQuiet DEF prepare_direct, AnswerInv, ExplicitIngressError, ExplicitRequestError,
     Prepared
<1>6. ASSUME prepare_proxied PROVE AnswerInv'
  BY <1>6, PrepareRefuses, AnswerQuiet DEF prepare_proxied, AnswerInv, ExplicitIngressError, ExplicitRequestError,
     Prepared
<1>7. ASSUME handle_flow PROVE AnswerInv'
  BY <1>7 DEF AnswerInv, Errors, ExplicitIngressError, IngressError, TransparentFlowError, ExplicitRequestError, handle_flow, with_read_prefix, HandleFrame, Stay
<1>8. ASSUME handle_with_decryption_policy PROVE AnswerInv'
  BY <1>8 DEF AnswerInv, Errors, ExplicitIngressError, IngressError, TransparentFlowError, ExplicitRequestError, handle_with_decryption_policy, validate_tls_server_name, HandleFrame, Stay, Fail
<1>9. ASSUME accept_client_tls PROVE AnswerInv'
  BY <1>9 DEF AnswerInv, Errors, ExplicitIngressError, IngressError, TransparentFlowError, ExplicitRequestError, accept_client_tls, validate_tls_server_name, HandleFrame, Stay, Fail
<1>10. ASSUME decode_plain PROVE AnswerInv'
  BY <1>10 DEF AnswerInv, Errors, ExplicitIngressError, IngressError, TransparentFlowError, ExplicitRequestError, decode_plain, HandleFrame, Stay, Fail
<1>11. ASSUME connect_upstream PROVE AnswerInv'
  BY <1>11 DEF AnswerInv, Errors, ExplicitIngressError, IngressError, TransparentFlowError, ExplicitRequestError, connect_upstream, Upstream, HandleFrame, Stay, Fail
<1>12. ASSUME NEW e \in ExplicitRequestError, HeadFails(e) PROVE AnswerInv' BY <1>12, DecoderRefuses DEF HeadFails
<1>13. ASSUME NEW e \in TransparentFlowError, DetectFails(e) \/ HelloFails(e) PROVE AnswerInv'
  BY <1>13 DEF AnswerInv, Errors, ExplicitIngressError, IngressError, TransparentFlowError, ExplicitRequestError, DetectFails, HelloFails, Fail, HandleFrame, Stay
<1>14. ASSUME WriteRefusal PROVE AnswerInv'
  <2>0. at = "refuse" /\ at' = "failed" /\ flow' = flow /\ replies = <<>> /\ flow.code # 200
        /\ failure \in Errors /\ failure # ""
    BY <1>14 DEF WriteRefusal, AnswerInv
  <2>1. CASE Write(flow.code) /\ UNCHANGED failure
    <3>0. PICK c : c = flow.code OBVIOUS
    <3>1. replies' = <<c>> BY <2>0, <2>1, <3>0, OneIsNotNone, Zenon DEF Write
    <3>2. OneAnswer(replies)' /\ replies' # <<>> BY <3>1, OneIsNotNone, Zenon DEF OneAnswer
    <3>3. replies' # <<200>> BY <2>0, <3>0, <3>1
    <3> HIDE DEF Errors, OneAnswer, ExplicitRequestError
    <3> QED BY <2>0, <2>1, <3>2, <3>3 DEF AnswerInv
  <2>2. CASE failure' = (IF failure \in ExplicitRequestError THEN "WriteResponse" ELSE failure) /\ replies' = replies
    BY <2>0, <2>2, AnswerQuiet DEF Errors, ExplicitIngressError, ExplicitRequestError
  <2> QED BY <1>14, <2>1, <2>2 DEF WriteRefusal
<1>15. ASSUME into_flow_explicit PROVE AnswerInv'
  <2>0. at = "established" /\ replies = <<>> /\ flow.upstream = "Prepared" /\ failure = ""
    BY <1>15 DEF into_flow_explicit, AnswerInv, RouteInv
  <2>1. CASE replies' = Append(replies, 200) /\ at' = "detect" /\ failure' = failure
             /\ flow' = [flow EXCEPT !.host = flow.target.host @@ [upper |-> FALSE, dots |-> 0]]
    BY <2>0, <2>1, OneIsNotNone DEF OneAnswer, AnswerInv
  <2>2. CASE replies' = replies /\ at' = "detect" /\ failure' = failure
             /\ flow' = [flow EXCEPT !.host = flow.target.host @@ [upper |-> FALSE, dots |-> 0]]
    BY <2>0, <2>2, AnswerQuiet
  <2>3. CASE Fail("WriteResponse") /\ UNCHANGED <<replies, flow>>
    BY <2>0, <2>3, AnswerQuiet DEF Errors, ExplicitIngressError, ExplicitRequestError, Fail
  <2> QED BY <1>15, <2>1, <2>2, <2>3 DEF into_flow_explicit, Write
<1>16. ASSUME into_flow_macos PROVE AnswerInv'
  <2>0. at \in {"open", "redirect"} /\ replies' = replies /\ replies = <<>> BY <1>16 DEF into_flow_macos, AnswerInv
  <2>1. \/ at' = "detect" /\ failure' = failure
        \/ \E e \in IngressError : Fail(e)
    BY <1>16 DEF into_flow_macos, Platform, IngressError
  <2>2. CASE at' = "detect" /\ failure' = failure BY <2>0, <2>2, AnswerQuiet
  <2>3. ASSUME NEW e \in IngressError, Fail(e) PROVE AnswerInv'
    BY <2>0, <2>3, AnswerQuiet DEF Errors, IngressError, ExplicitRequestError, Fail
  <2> QED BY <2>1, <2>2, <2>3
<1>17. ASSUME into_flow_windows PROVE AnswerInv'
  BY <1>17, AnswerQuiet DEF into_flow_windows, AnswerInv, Platform, IngressError, Errors, ExplicitRequestError, Fail
<1>18. ASSUME NEW n \in 0..Total, detect(n) \/ read_client_hello(n) \/ passthrough(n) PROVE AnswerInv'
  BY <1>18 DEF AnswerInv, Errors, ExplicitIngressError, IngressError, TransparentFlowError, ExplicitRequestError, detect, read_client_hello, passthrough, HandleFrame, Stay
<1> QED BY <1>1, <1>2, <1>3, <1>4, <1>5, <1>6, <1>7, <1>8, <1>9, <1>10, <1>11, <1>12, <1>13, <1>14,
           <1>15, <1>16, <1>17, <1>18 DEF PathNext, PathBounded

-----------------------------------------------------------------------------
(* The client's bytes. *)

(* A unit of the flow's stream. *)
StreamUnits == {"new", "old"} \X Nat

(* Concatenation, by a name the provers do not look into. *)
Cat(s, t) == s \o t

(* What was written, what is held, what was put back and what is to come. *)
Whole(a, b, c, d) == Cat(Cat(Cat(a, b), c), d)

(* The four together are the stream of the flow, from the moment the request *)
(* head is decoded or the platform flow opened; and the buffers that look    *)
(* ahead are bounded.                                                        *)
BytesInv ==
    /\ taken \in Nat /\ taken <= Total
    /\ pre \in Seq(StreamUnits) /\ held \in Seq(StreamUnits) /\ up \in Seq(StreamUnits)
    /\ at \in Fresh \cup {"prepare", "established"} => held = <<>> /\ up = <<>>
    /\ at \in Fresh => pre = <<>>
    /\ at \in {"idle", "open", "redirect"} => taken = 0
    /\ at = "parse" => client.head <= taken
    /\ at \in Later \cup {"prepare", "established"} => Whole(up, held, pre, Old(taken + 1, Total)) = Stream
    /\ Len(held) <= MaxPrefix + MaxHello
    /\ at = "detect" => Len(held) <= MaxPrefix
    /\ at = "hello" => Len(held) <= MaxHello

(* Old(i + 1, j) is the units from i + 1 to j. *)
LEMMA OldType ==
    ASSUME NEW i \in Nat, NEW j \in Nat
    PROVE  /\ Old(i + 1, j) \in Seq(StreamUnits)
           /\ Len(Old(i + 1, j)) = IF j < i + 1 THEN 0 ELSE j - i
           /\ \A k \in 1..Len(Old(i + 1, j)) : Old(i + 1, j)[k] = <<"old", i + k>>
<1> DEFINE n == IF j < i + 1 THEN 0 ELSE j - i
<1>1. n \in Nat OBVIOUS
<1>2. Old(i + 1, j) = [k \in 1..n |-> <<"old", i + k>>] BY <1>1 DEF Old
<1> HIDE DEF n
<1> DEFINE f == [k \in 1..n |-> <<"old", i + k>>]
<1>3. f \in Seq(StreamUnits) /\ Len(f) = n /\ \A k \in 1..n : f[k] = <<"old", i + k>>
  BY <1>1 DEF StreamUnits
<1> QED BY <1>2, <1>3 DEF n

(* A stretch of the client's bytes is its front and its rest. *)
LEMMA OldSplit ==
    ASSUME NEW i \in Nat, NEW j \in Nat, NEW k \in Nat, i <= j, j <= k
    PROVE  Old(i + 1, j) \o Old(j + 1, k) = Old(i + 1, k)
<1>0. ASSUME NEW x \in Nat, NEW y \in Nat, x <= y
      PROVE  /\ Old(x + 1, y) \in Seq(StreamUnits) /\ Len(Old(x + 1, y)) = y - x
             /\ \A m \in 1..(y - x) : Old(x + 1, y)[m] = <<"old", x + m>>
  <2>1. (IF y < x + 1 THEN 0 ELSE y - x) = y - x BY <1>0
  <2> QED BY <2>1, OldType, Zenon
<1> DEFINE a == Old(i + 1, j)  b == Old(j + 1, k)  c == Old(i + 1, k)
<1>1. a \in Seq(StreamUnits) /\ Len(a) = j - i /\ \A m \in 1..(j - i) : a[m] = <<"old", i + m>>
  BY <1>0, Zenon
<1>2. b \in Seq(StreamUnits) /\ Len(b) = k - j /\ \A m \in 1..(k - j) : b[m] = <<"old", j + m>>
  BY <1>0, Zenon
<1>9. i <= k OBVIOUS
<1>3. c \in Seq(StreamUnits) /\ Len(c) = k - i /\ \A m \in 1..(k - i) : c[m] = <<"old", i + m>>
  BY <1>0, <1>9, Zenon
<1> HIDE DEF a, b, c
<1>4. a \o b \in Seq(StreamUnits) /\ Len(a \o b) = k - i BY <1>1, <1>2
<1>5. \A m \in 1..(k - i) : (a \o b)[m] = c[m]
  <2> SUFFICES ASSUME NEW m \in 1..(k - i) PROVE (a \o b)[m] = c[m] OBVIOUS
  <2>1. CASE m <= j - i
    <3>1. (a \o b)[m] = a[m] BY <1>1, <1>2, <2>1
    <3>2. m \in 1..(j - i) BY <2>1
    <3>3. a[m] = <<"old", i + m>> /\ c[m] = <<"old", i + m>> BY <1>1, <1>3, <3>2, Zenon
    <3> QED BY <3>1, <3>3, Zenon
  <2>2. CASE m > j - i
    <3>0. \A q \in 1..(Len(a) + Len(b)) : (a \o b)[q] = IF q <= Len(a) THEN a[q] ELSE b[q - Len(a)]
      BY <1>1, <1>2, ConcatProperties
    <3>1. (a \o b)[m] = b[m - (j - i)] BY <1>1, <1>2, <2>2, <3>0
    <3>2. m - (j - i) \in 1..(k - j) /\ j + (m - (j - i)) = i + m BY <2>2
    <3> QED BY <1>2, <1>3, <3>1, <3>2
  <2>3. m <= j - i \/ m > j - i OBVIOUS
  <2> QED BY <2>1, <2>2, <2>3, Zenon
<1>6. a \o b = c BY <1>3, <1>4, <1>5, SeqEqual
<1> QED BY <1>6 DEF a, b, c

(* A list is its first n elements and the rest. *)
LEMMA SubSeqSplit ==
    ASSUME NEW S, NEW s \in Seq(S), NEW n \in 0..Len(s)
    PROVE  /\ SubSeq(s, 1, n) \in Seq(S) /\ SubSeq(s, n + 1, Len(s)) \in Seq(S)
           /\ Len(SubSeq(s, 1, n)) = n
           /\ SubSeq(s, 1, n) \o SubSeq(s, n + 1, Len(s)) = s
<1> DEFINE a == SubSeq(s, 1, n)  b == SubSeq(s, n + 1, Len(s))
<1>0. \A i \in 1..n : s[i] \in S OBVIOUS
<1>00. \A i \in (n + 1)..Len(s) : s[i] \in S OBVIOUS
<1>1. a \in Seq(S) /\ Len(a) = n /\ \A i \in 1..n : a[i] = s[i]
  BY <1>0, SubSeqProperties
<1>2. b \in Seq(S) /\ Len(b) = Len(s) - n /\ \A i \in 1..(Len(s) - n) : b[i] = s[n + i]
  BY <1>00, SubSeqProperties
<1> HIDE DEF a, b
<1>6. /\ a \o b \in Seq(S) /\ Len(a \o b) = Len(a) + Len(b)
      /\ \A i \in 1..(Len(a) + Len(b)) : (a \o b)[i] = IF i <= Len(a) THEN a[i] ELSE b[i - Len(a)]
  BY <1>1, <1>2, ConcatProperties, Zenon
<1>3. a \o b \in Seq(S) /\ Len(a \o b) = Len(s) BY <1>1, <1>2, <1>6
<1>4. \A i \in 1..Len(s) : (a \o b)[i] = s[i] BY <1>1, <1>2, <1>6
<1>5. a \o b = s BY <1>3, <1>4, SeqEqual
<1> QED BY <1>1, <1>2, <1>5 DEF a, b

(* Concatenation is associative. *)
LEMMA CatAssociative ==
    ASSUME NEW S, NEW x \in Seq(S), NEW y \in Seq(S), NEW z \in Seq(S)
    PROVE  Cat(Cat(x, y), z) = Cat(x, Cat(y, z))
BY ConcatAssociative DEF Cat

(* The length and the unit of concatenation. *)
LEMMA CatSeq ==
    ASSUME NEW S, NEW x \in Seq(S), NEW y \in Seq(S)
    PROVE  Cat(x, y) \in Seq(S) /\ Cat(x, <<>>) = x /\ Len(Cat(x, y)) = Len(x) + Len(y)
BY ConcatProperties, ConcatEmptySeq DEF Cat

(* The regroupings that moving a stretch between neighbours amounts to. *)
LEMMA Regroup ==
    ASSUME NEW S, NEW a \in Seq(S), NEW b \in Seq(S), NEW c \in Seq(S), NEW d \in Seq(S), NEW e \in Seq(S)
    PROVE  /\ Cat(Cat(Cat(a, Cat(b, c)), d), e) = Cat(Cat(Cat(a, b), Cat(c, d)), e)
           /\ Cat(Cat(Cat(a, Cat(b, c)), <<>>), e) = Cat(Cat(Cat(a, b), <<>>), Cat(c, e))
           /\ Cat(Cat(Cat(a, <<>>), Cat(b, c)), e) = Cat(Cat(Cat(a, b), c), e)
           /\ Cat(Cat(Cat(Cat(a, b), <<>>), c), e) = Cat(Cat(Cat(a, b), c), e)
           /\ Cat(Cat(Cat(Cat(a, c), <<>>), d), e) = Cat(Cat(Cat(a, <<>>), Cat(c, d)), e)
           /\ Cat(Cat(Cat(Cat(a, c), <<>>), <<>>), e) = Cat(Cat(Cat(a, <<>>), <<>>), Cat(c, e))
<1>1. /\ Cat(a, b) \in Seq(S) /\ Cat(b, c) \in Seq(S) /\ Cat(c, d) \in Seq(S) /\ Cat(a, c) \in Seq(S)
      /\ Cat(c, e) \in Seq(S) BY CatSeq
<1>2. Cat(a, Cat(b, c)) \in Seq(S) BY <1>1, CatSeq
<1>3. /\ Cat(Cat(a, b), c) = Cat(a, Cat(b, c)) /\ Cat(Cat(a, c), d) = Cat(a, Cat(c, d))
      /\ Cat(Cat(a, c), e) = Cat(a, Cat(c, e)) BY CatAssociative
<1>4. /\ Cat(Cat(Cat(a, b), c), d) = Cat(Cat(a, b), Cat(c, d))
      /\ Cat(Cat(Cat(a, b), c), e) = Cat(Cat(a, b), Cat(c, e)) BY <1>1, CatAssociative
<1>5. /\ Cat(Cat(a, Cat(b, c)), <<>>) = Cat(a, Cat(b, c)) /\ Cat(Cat(a, b), <<>>) = Cat(a, b)
      /\ Cat(a, <<>>) = a /\ Cat(Cat(a, c), <<>>) = Cat(a, c)
  BY <1>1, <1>2, CatSeq
<1> QED BY <1>3, <1>4, <1>5, Zenon

(* A client sends a number of units, its head among them. *)
LEMMA TotalNat ==
    ASSUME WhereInv
    PROVE  Total \in Nat /\ client.head \in Nat /\ client.head <= Total
<1>1. CASE at = "idle" BY <1>1 DEF WhereInv, Idle, Total
<1>2. CASE at # "idle" BY <1>2, ClientsAssumption DEF WhereInv, Total
<1> QED BY <1>1, <1>2

(* The stream depends on the client and the ingress only. *)
LEMMA SameStream ==
    ASSUME client' = client, flow'.ingress = flow.ingress
    PROVE  Total' = Total /\ Stream' = Stream
<1>1. Total' = Total BY DEF Total
<1> QED BY <1>1 DEF Stream

(* Steps that move no byte. *)
LEMMA BytesQuiet ==
    ASSUME WhereInv, BytesInv, UNCHANGED <<client, taken, pre, held, up>>,
           \/ at' \in {"failed", "refuse"}
           \/ /\ at \in Later \cup {"prepare", "established"} /\ at' \in (Later \ {"hello"}) \cup {"established"}
              /\ at' = "established" => at = "prepare"
              /\ at' = "detect" => at = "established" \/ at = "detect"
              /\ flow'.ingress = flow.ingress
    PROVE  BytesInv'
<1>1. Total' = Total BY DEF Total
<1>2. CASE at' \in {"failed", "refuse"}
  BY <1>1, <1>2 DEF BytesInv, Fresh, Later
<1>3. CASE /\ at \in Later \cup {"prepare", "established"} /\ at' \in (Later \ {"hello"}) \cup {"established"}
           /\ at' = "established" => at = "prepare"
           /\ at' = "detect" => at = "established" \/ at = "detect"
           /\ flow'.ingress = flow.ingress BY <1>1, <1>3, SameStream, FlowPathAssumption DEF BytesInv, Fresh, Later
<1> QED BY <1>2, <1>3

(* A read moves units from the front of what is left into the buffer. *)
LEMMA ReadMoves ==
    ASSUME WhereInv, BytesInv, NEW n \in Nat, NEW cap \in Nat, ReadInto(n, cap), client' = client, up' = up
    PROVE  /\ taken' \in Nat /\ taken' <= Total /\ pre' \in Seq(StreamUnits) /\ held' \in Seq(StreamUnits)
           /\ Whole(up, held, pre, Old(taken + 1, Total))' = Whole(up, held, pre, Old(taken + 1, Total))
           /\ Len(held') <= Len(held) + cap
<1>0. Total' = Total BY DEF Total
<1>1. taken \in Nat /\ taken <= Total /\ pre \in Seq(StreamUnits) /\ held \in Seq(StreamUnits) /\ up \in Seq(StreamUnits)
  BY DEF BytesInv
<1>2. Total \in Nat BY TotalNat
<1>3. n <= cap
  <2>1. {ReadSize, cap} \subseteq Nat BY FlowPathAssumption
  <2>2. Min({ReadSize, cap}) \in {ReadSize, cap} /\ Min({ReadSize, cap}) <= cap BY <2>1, MinOfNaturals
  <2>3. Min({ReadSize, cap}) \in Nat BY <2>1, <2>2
  <2> QED BY <2>2, <2>3 DEF ReadInto
<1> DEFINE o == Old(taken + 1, Total)
<1>4. o \in Seq(StreamUnits) BY <1>1, <1>2, OldType
<1>5. CASE /\ pre # <<>> /\ n <= Len(pre)
           /\ held' = held \o SubSeq(pre, 1, n) /\ pre' = SubSeq(pre, n + 1, Len(pre)) /\ taken' = taken
  <2> DEFINE p == SubSeq(pre, 1, n)  q == SubSeq(pre, n + 1, Len(pre))
  <2>1. n \in 0..Len(pre) BY <1>5, <1>1
  <2>2. p \in Seq(StreamUnits) /\ q \in Seq(StreamUnits) /\ Len(p) = n /\ p \o q = pre BY <2>1, <1>1, SubSeqSplit
  <2>3. held' = Cat(held, p) /\ pre' = q /\ pre = Cat(p, q) BY <1>5, <2>2 DEF Cat
  <2> HIDE DEF p, q, o
  <2>4. held' \in Seq(StreamUnits) /\ Len(held') = Len(held) + n BY <1>1, <2>2, <2>3, CatSeq
  <2>50. Cat(Cat(Cat(up, Cat(held, p)), q), o) = Cat(Cat(Cat(up, held), Cat(p, q)), o)
    BY <1>1, <1>4, <2>2, Regroup
  <2>5. Whole(up, held', pre', o) = Whole(up, held, pre, o)
    BY <2>3, <2>50, Zenon DEF Whole
  <2>6. Whole(up, held, pre, Old(taken + 1, Total))' = Whole(up, held', pre', o) BY <1>0, <1>5 DEF o
  <2>7. Len(held') <= Len(held) + cap BY <1>1, <1>3, <2>4
  <2> QED BY <1>0, <1>1, <1>5, <2>2, <2>3, <2>4, <2>5, <2>6, <2>7 DEF o
<1>6. CASE /\ pre = <<>> /\ n <= Total - taken
           /\ held' = held \o Old(taken + 1, taken + n) /\ taken' = taken + n /\ pre' = pre
  <2> DEFINE m == taken + n  p == Old(taken + 1, m)  q == Old(m + 1, Total)
  <2>1. m \in Nat /\ taken <= m /\ m <= Total BY <1>6, <1>1, <1>2
  <2>2. p \in Seq(StreamUnits) /\ q \in Seq(StreamUnits) /\ p \o q = o
    <3> HIDE DEF m
    <3> QED BY <2>1, <1>1, <1>2, OldType, OldSplit
  <2>22. Len(p) = n
    <3>1. Len(p) = IF m < taken + 1 THEN 0 ELSE m - taken
      <4> HIDE DEF m
      <4> QED BY <2>1, <1>1, OldType
    <3> QED BY <3>1, <1>1
  <2>3. held' = Cat(held, p) /\ o = Cat(p, q) /\ taken' = m BY <1>6, <2>2 DEF Cat
  <2> HIDE DEF p, q, o, m
  <2>4. held' \in Seq(StreamUnits) /\ Len(held') = Len(held) + n BY <1>1, <2>2, <2>22, <2>3, CatSeq
  <2>50. Cat(Cat(Cat(up, Cat(held, p)), <<>>), q) = Cat(Cat(Cat(up, held), <<>>), Cat(p, q))
    BY <1>1, <2>2, Regroup
  <2>5. Whole(up, held', pre, q) = Whole(up, held, pre, o)
    BY <1>6, <2>2, <2>3, <2>50, Zenon DEF Whole
  <2>6. Whole(up, held, pre, Old(taken + 1, Total))' = Whole(up, held', pre, q) BY <1>0, <1>6, <2>3 DEF q
  <2>7. Len(held') <= Len(held) + cap BY <1>1, <1>3, <2>4
  <2> QED BY <1>0, <1>1, <1>6, <2>1, <2>3, <2>4, <2>5, <2>6, <2>7 DEF o
<1> QED BY <1>5, <1>6 DEF ReadInto

(* A platform's flow starts with nothing read. *)
LEMMA PlatformBytes ==
    ASSUME WhereInv, BytesInv, at \in {"open", "redirect"}, UNCHANGED <<client, taken, pre, held, up>>,
           at' = "detect", flow'.ingress \in {"macos", "windows"}
    PROVE  BytesInv'
<1>1. /\ taken = 0 /\ pre = <<>> /\ held = <<>> /\ up = <<>> /\ client.head = 0 /\ Total' = Total /\ Total \in Nat
  BY TotalNat, ClientsAssumption DEF BytesInv, Fresh, WhereInv, Total
<1> DEFINE o == Old(taken + 1, Total)
<1>2. o \in Seq(StreamUnits) BY <1>1, OldType
<1>3. Stream' = <<>> \o o BY <1>1 DEF Stream
<1>4. Old(taken + 1, Total)' = o BY <1>1
<1> HIDE DEF o
<1>5. <<>> \o o = o BY <1>2, ConcatEmptySeq
<1>6. Cat(Cat(<<>>, <<>>), <<>>) = <<>> BY DEF Cat
<1>7. Whole(<<>>, <<>>, <<>>, o) = Cat(<<>>, o) BY <1>6, Zenon DEF Whole
<1>8. (Whole(up, held, pre, Old(taken + 1, Total)) = Stream)'
  BY <1>1, <1>3, <1>4, <1>7 DEF Cat
<1>9. <<>> \in Seq(StreamUnits) /\ Len(<<>>) = 0 OBVIOUS
<1> QED BY <1>1, <1>8, <1>9, FlowPathAssumption DEF BytesInv, Fresh

(* A passthrough writes the front of what is left. *)
LEMMA CopyMoves ==
    ASSUME WhereInv, BytesInv, NEW n \in 0..Total, passthrough(n), at = "copy", UNCHANGED <<at, client, flow>>
    PROVE  BytesInv'
<1>0. /\ taken \in Nat /\ taken <= Total /\ Total \in Nat
      /\ pre \in Seq(StreamUnits) /\ held \in Seq(StreamUnits) /\ up \in Seq(StreamUnits)
      /\ <<>> \in Seq(StreamUnits) /\ Len(<<>>) = 0
  BY TotalNat DEF BytesInv
<1>1. Total' = Total /\ Stream' = Stream BY SameStream
<1> DEFINE o == Old(taken + 1, Total)
<1>2. o \in Seq(StreamUnits) BY <1>0, OldType
<1>3. Whole(up, held, pre, o) = Stream BY DEF BytesInv, Later
<1>4. ASSUME taken' \in Nat, taken' <= Total, pre' \in Seq(StreamUnits), up' \in Seq(StreamUnits), held' = <<>>,
             Whole(up', <<>>, pre', Old(taken' + 1, Total)) = Stream
      PROVE  BytesInv' BY <1>0, <1>1, <1>4, FlowPathAssumption DEF BytesInv, Fresh, Later
<1>5. CASE held # <<>> /\ up' = up \o held /\ held' = <<>> /\ UNCHANGED <<pre, taken>>
  <2>1. up' = Cat(up, held) /\ up' \in Seq(StreamUnits) BY <1>0, <1>5, CatSeq DEF Cat
  <2>2. Old(taken' + 1, Total) = o BY <1>5
  <2> HIDE DEF o
  <2>3. Cat(Cat(Cat(Cat(up, held), <<>>), pre), o) = Cat(Cat(Cat(up, held), pre), o) BY <1>0, <1>2, Regroup
  <2>4. Whole(up', <<>>, pre', o) = Stream BY <1>3, <1>5, <2>1, <2>3, Zenon DEF Whole
  <2> QED BY <1>0, <1>4, <1>5, <2>1, <2>2, <2>4
<1>6. CASE /\ held = <<>> /\ pre # <<>> /\ n \in 1..Len(pre)
           /\ up' = up \o SubSeq(pre, 1, n) /\ pre' = SubSeq(pre, n + 1, Len(pre)) /\ UNCHANGED <<held, taken>>
  <2> DEFINE p == SubSeq(pre, 1, n)  q == SubSeq(pre, n + 1, Len(pre))
  <2>1. n \in 0..Len(pre) BY <1>6, <1>0
  <2>2. p \in Seq(StreamUnits) /\ q \in Seq(StreamUnits) /\ p \o q = pre BY <2>1, <1>0, SubSeqSplit
  <2>3. up' = Cat(up, p) /\ pre' = q /\ pre = Cat(p, q) BY <1>6, <2>2 DEF Cat
  <2>4. Old(taken' + 1, Total) = o BY <1>6
  <2> HIDE DEF p, q, o
  <2>5. up' \in Seq(StreamUnits) BY <1>0, <2>2, <2>3, CatSeq
  <2>6. Cat(Cat(Cat(Cat(up, p), <<>>), q), o) = Cat(Cat(Cat(up, <<>>), Cat(p, q)), o) BY <1>0, <1>2, <2>2, Regroup
  <2>7. Whole(up', <<>>, pre', o) = Stream BY <1>3, <1>6, <2>3, <2>6, Zenon DEF Whole
  <2> QED BY <1>0, <1>4, <1>6, <2>2, <2>3, <2>4, <2>5, <2>7
<1>7. CASE /\ held = <<>> /\ pre = <<>> /\ n \in 1..(Total - taken)
           /\ up' = up \o Old(taken + 1, taken + n) /\ taken' = taken + n /\ UNCHANGED <<held, pre>>
  <2> DEFINE m == taken + n  p == Old(taken + 1, m)  q == Old(m + 1, Total)
  <2>1. m \in Nat /\ taken <= m /\ m <= Total BY <1>7, <1>0
  <2>2. p \in Seq(StreamUnits) /\ q \in Seq(StreamUnits) /\ p \o q = o
    <3> HIDE DEF m
    <3> QED BY <2>1, <1>0, OldType, OldSplit
  <2>3. up' = Cat(up, p) /\ o = Cat(p, q) /\ taken' = m BY <1>7, <2>2 DEF Cat
  <2>4. Old(taken' + 1, Total) = q BY <2>3
  <2> HIDE DEF p, q, o, m
  <2>5. up' \in Seq(StreamUnits) BY <1>0, <2>2, <2>3, CatSeq
  <2>6. Cat(Cat(Cat(Cat(up, p), <<>>), <<>>), q) = Cat(Cat(Cat(up, <<>>), <<>>), Cat(p, q)) BY <1>0, <1>2, <2>2, Regroup
  <2>7. Whole(up', <<>>, pre', q) = Stream BY <1>3, <1>7, <2>3, <2>6, Zenon DEF Whole
  <2> QED BY <1>0, <1>4, <1>7, <2>1, <2>3, <2>4, <2>5, <2>7
<1> QED BY <1>5, <1>6, <1>7 DEF passthrough

(* Every step keeps BytesInv. *)
LEMMA BytesStep ==
    ASSUME WhereInv, RouteInv, BytesInv, PathNext PROVE BytesInv'
<1> USE DEF Fresh, Later, FlowFields
<1>0. /\ taken \in Nat /\ taken <= Total /\ Total \in Nat /\ client.head \in Nat /\ client.head <= Total
      /\ pre \in Seq(StreamUnits) /\ held \in Seq(StreamUnits) /\ up \in Seq(StreamUnits)
  BY TotalNat DEF BytesInv
<1>00. <<>> \in Seq(StreamUnits) /\ Len(<<>>) = 0 OBVIOUS
<1>1. ASSUME NEW c \in Clients, Accept(c) PROVE BytesInv'
  BY <1>00, <1>1, ClientsAssumption, FlowPathAssumption DEF Accept, BytesInv, Total
<1>2. ASSUME NEW p \in Policies, replace_tls_decryption_policy(p) PROVE BytesInv'
  BY <1>2, SameStream DEF replace_tls_decryption_policy, BytesInv
<1>3. ASSUME NEW n \in 0..ReadSize, read_request_head(n) PROVE BytesInv'
  <2>0. at = "head" /\ UNCHANGED <<client, pre, held, up>> BY <1>3 DEF read_request_head, Stay
  <2>1. Total' = Total BY <2>0 DEF Total
  <2>2. CASE at' \in {"failed", "refuse"} /\ taken' = taken BY <2>0, <2>2, BytesQuiet
  <2>3. CASE client.head <= taken /\ at' = "parse" /\ taken' = taken
    BY <2>0, <2>1, <2>3 DEF BytesInv
  <2>4. CASE taken < MaxHead /\ n \in 1..Min({ReadSize, MaxHead - taken, Total - taken}) /\ taken' = taken + n /\ at' = at
    <3> DEFINE S == {ReadSize, MaxHead - taken, Total - taken}
    <3>1. S \subseteq Nat BY <1>0, <2>4, FlowPathAssumption
    <3>2. Min(S) \in S /\ Min(S) <= Total - taken BY <3>1, MinOfNaturals
    <3>3. Min(S) \in Nat BY <3>1, <3>2
    <3>4. n <= Min(S) BY <2>4, <3>3
    <3> HIDE DEF S
    <3>5. n \in Nat /\ n <= Total - taken BY <1>0, <3>2, <3>3, <3>4, FlowPathAssumption
    <3>6. taken' \in Nat /\ taken' <= Total BY <1>0, <2>4, <3>5
    <3> QED BY <2>0, <2>1, <2>4, <3>6 DEF BytesInv
  <2> QED BY <1>0, <1>3, <2>2, <2>3, <2>4, FlowPathAssumption DEF read_request_head, reject_decoder_error, Refuse
<1>4. ASSUME decode PROVE BytesInv'
  <2>0. at = "parse" /\ UNCHANGED <<client, taken, held, up>> /\ held = <<>> /\ up = <<>> /\ client.head <= taken
    BY <1>4 DEF decode, Stay, BytesInv
  <2> DEFINE r == parse(client.request)
  <2>1. CASE r.error # "" BY <1>4, <2>0, <2>1, BytesQuiet DEF decode, reject_decoder_error, Refuse
  <2>2. CASE r.error = ""
    <3> DEFINE new == IF r.value.rewritten = {} THEN <<>> ELSE <<<<"new", 1>>, <<"new", 2>>>>
               x == Old(client.head + 1, taken)  y == Old(taken + 1, Total)  z == Old(client.head + 1, Total)
    <3>1. pre' = new \o x /\ at' = "prepare" /\ flow'.ingress = "explicit"
      BY <1>4, <2>2 DEF decode, WhereInv
    <3>2. IsHead(client.request) BY <2>0, ClientsAssumption DEF WhereInv
    <3>3. (r.value.rewritten = {}) <=> (client.request.method = "CONNECT") BY <2>2, <3>2, ParseMeans
    <3>4. Total' = Total BY <2>0 DEF Total
    <3>5. Stream' = new \o z BY <2>0, <3>1, <3>3, <3>4 DEF Stream
    <3>6. x \in Seq(StreamUnits) /\ y \in Seq(StreamUnits) /\ z \in Seq(StreamUnits) /\ x \o y = z BY <1>0, <2>0, OldType, OldSplit
    <3>7. new \in Seq(StreamUnits)
      <4>1. <<"new", 1>> \in StreamUnits /\ <<"new", 2>> \in StreamUnits BY DEF StreamUnits
      <4>2. ASSUME NEW S, NEW a \in S, NEW b \in S PROVE <<a, b>> \in Seq(S) OBVIOUS
      <4>3. <<<<"new", 1>>, <<"new", 2>>>> \in Seq(StreamUnits) BY <4>1, <4>2
      <4> QED BY <1>00, <4>3, Zenon
    <3>8. Old(taken + 1, Total)' = y BY <2>0, <3>4
    <3> HIDE DEF new, x, y, z
    <3>9. Cat(Cat(<<>>, <<>>), Cat(new, x)) = Cat(new, x) /\ Cat(new, x) \in Seq(StreamUnits)
      BY <3>6, <3>7, CatSeq, ConcatEmptySeq DEF Cat
    <3>10. Cat(Cat(new, x), y) = Cat(new, Cat(x, y)) BY <3>6, <3>7, CatAssociative
    <3>11. pre' = Cat(new, x) /\ Stream' = Cat(new, z) /\ Cat(x, y) = z BY <3>1, <3>5, <3>6 DEF Cat
    <3>12. Whole(<<>>, <<>>, pre', y) = Stream' BY <3>9, <3>10, <3>11, Zenon DEF Whole
    <3>13. (Whole(up, held, pre, Old(taken + 1, Total)) = Stream)' BY <2>0, <3>8, <3>12
    <3> QED BY <1>0, <1>00, <2>0, <3>1, <3>4, <3>9, <3>11, <3>13, FlowPathAssumption DEF BytesInv
  <2> QED BY <2>1, <2>2
<1>5. ASSUME prepare_direct PROVE BytesInv' BY <1>5, BytesQuiet DEF prepare_direct, Stay, Prepared, Refuse, WhereInv
<1>6. ASSUME prepare_proxied PROVE BytesInv'
  BY <1>6, BytesQuiet DEF prepare_proxied, Stay, Prepared, Refuse, WhereInv
<1>7. ASSUME handle_flow PROVE BytesInv'
  <2>0. /\ at = "detect" /\ UNCHANGED <<client, taken, up>> /\ pre' = Cat(held, pre) /\ held' = <<>>
        /\ at' \in {"plain", "hello", "accept"} /\ flow'.ingress = flow.ingress
    BY <1>7 DEF handle_flow, with_read_prefix, HandleFrame, Stay, Cat, WhereInv
  <2>1. Total' = Total /\ Stream' = Stream BY <2>0, SameStream
  <2> DEFINE o == Old(taken + 1, Total)
  <2>2. o \in Seq(StreamUnits) BY <1>0, OldType
  <2>3. Whole(up, held, pre, o) = Stream BY <2>0 DEF BytesInv
  <2>4. Old(taken + 1, Total)' = o BY <2>0, <2>1
  <2> HIDE DEF o
  <2>5. Cat(Cat(Cat(up, <<>>), Cat(held, pre)), o) = Cat(Cat(Cat(up, held), pre), o) BY <1>0, <2>2, Regroup
  <2>6. Whole(up, held', pre', o) = Stream BY <2>0, <2>3, <2>5, Zenon DEF Whole
  <2>7. (Whole(up, held, pre, Old(taken + 1, Total)) = Stream)' BY <2>0, <2>1, <2>4, <2>6
  <2>8. pre' \in Seq(StreamUnits) BY <1>0, <2>0, CatSeq
  <2> QED BY <1>0, <1>00, <2>0, <2>1, <2>7, <2>8, FlowPathAssumption DEF BytesInv
<1>8. ASSUME handle_with_decryption_policy PROVE BytesInv'
  BY <1>8, BytesQuiet DEF handle_with_decryption_policy, HandleFrame, Stay, Fail, WhereInv
<1>9. ASSUME accept_client_tls PROVE BytesInv'
  BY <1>9, BytesQuiet DEF accept_client_tls, HandleFrame, Stay, Fail, WhereInv
<1>10. ASSUME decode_plain PROVE BytesInv' BY <1>10, BytesQuiet DEF decode_plain, HandleFrame, Stay, Fail, WhereInv
<1>11. ASSUME connect_upstream PROVE BytesInv'
  BY <1>11, BytesQuiet DEF connect_upstream, HandleFrame, Stay, Fail, Upstream, WhereInv
<1>12. ASSUME NEW e \in ExplicitRequestError, HeadFails(e) PROVE BytesInv'
  BY <1>12, BytesQuiet DEF HeadFails, reject_decoder_error, Refuse, Stay
<1>13. ASSUME NEW e \in TransparentFlowError, DetectFails(e) \/ HelloFails(e) PROVE BytesInv'
  BY <1>13, BytesQuiet DEF DetectFails, HelloFails, Fail, HandleFrame, Stay
<1>14. ASSUME WriteRefusal PROVE BytesInv' BY <1>14, BytesQuiet DEF WriteRefusal, Stay
<1>15. ASSUME into_flow_explicit PROVE BytesInv' BY <1>15, BytesQuiet DEF into_flow_explicit, Fail, Stay, WhereInv
<1>16. ASSUME into_flow_macos PROVE BytesInv'
  BY <1>16, BytesQuiet, PlatformBytes DEF into_flow_macos, Platform, Fail, Stay, WhereInv
<1>17. ASSUME into_flow_windows PROVE BytesInv'
  BY <1>17, BytesQuiet, PlatformBytes DEF into_flow_windows, Platform, Fail, Stay, WhereInv
<1>18. ASSUME NEW n \in 0..Total, detect(n) PROVE BytesInv'
  BY <1>0, <1>18, FlowPathAssumption, SameStream, ReadMoves DEF detect, HandleFrame, Stay, BytesInv
<1>19. ASSUME NEW n \in 0..Total, read_client_hello(n) PROVE BytesInv'
  BY <1>0, <1>19, FlowPathAssumption, SameStream, ReadMoves DEF read_client_hello, HandleFrame, Stay, BytesInv
<1>20. ASSUME NEW n \in 0..Total, passthrough(n) PROVE BytesInv' BY <1>20, CopyMoves DEF passthrough, Stay
<1> QED BY <1>1, <1>2, <1>3, <1>4, <1>5, <1>6, <1>7, <1>8, <1>9, <1>10, <1>11, <1>12, <1>13, <1>14,
           <1>15, <1>16, <1>17, <1>18, <1>19, <1>20 DEF PathNext, PathBounded

-----------------------------------------------------------------------------
(* The connection. *)

(* The inductive invariant of a connection. *)
PathInv ==
    /\ WhereInv /\ RouteInv /\ PolicyInv /\ AnswerInv /\ BytesInv
    /\ validate(policy) = ""

(* At most one response is a list of length at most one. *)
LEMMA OneAnswerLength == ASSUME NEW r, OneAnswer(r) PROVE Len(r) <= 1
<1>1. Len(<<>>) <= 1 /\ \A c : Len(<<c>>) <= 1 OBVIOUS
<1> QED BY <1>1, Zenon DEF OneAnswer

(* A client that nothing was read of. *)
LEMMA NothingTaken == ASSUME WhereInv, taken = 0 PROVE taken \in Nat /\ taken <= Total
<1>1. Total \in Nat BY TotalNat
<1> QED BY <1>1

(* The default policy is one, and validates. *)
LEMMA DefaultIsPolicy == IsPolicy(DefaultPolicy) /\ validate(DefaultPolicy) = ""
<1>1. /\ DefaultPolicy.default = "Passthrough" /\ DefaultPolicy.missing = "Passthrough"
      /\ DefaultPolicy.rules = <<>>
  BY DEF DefaultPolicy
<1>2. <<>> \in Seq(Range(<<>>)) /\ Len(<<>>) = 0 OBVIOUS
<1>3. IsPolicy(DefaultPolicy) BY <1>1, <1>2 DEF IsPolicy, TlsDecryptionAction
<1>4. {i \in 1..Len(<<>>) : validate_rule(<<>>[i]) # ""} = {} BY <1>2
<1>5. SelectInSeq(<<>>, LAMBDA r : validate_rule(r) # "") = 0 BY <1>4 DEF SelectInSeq
<1>6. SelectInSeq(DefaultPolicy.rules, LAMBDA r : validate_rule(r) # "") = 0 BY <1>1, <1>5
<1>7. validate(DefaultPolicy) = "" BY <1>6 DEF validate
<1> QED BY <1>3, <1>7

(* The invariant holds initially. *)
LEMMA PathStarts == ASSUME PathInit PROVE PathInv
<1>1. /\ at = "idle" /\ client = Idle /\ taken = 0 /\ pre = <<>> /\ held = <<>>
      /\ flow = NoFlow /\ policy = DefaultPolicy /\ replies = <<>> /\ up = <<>> /\ failure = ""
  BY DEF PathInit
<1>2. WhereInv BY <1>1, NoFlowIs DEF WhereInv, Fresh, Later
<1>3. RouteInv
  <2>1. Idle.proxy = FALSE BY DEF Idle
  <2> QED BY <1>1, <2>1, NoFlowIs DEF RouteInv, PathRouted, Later, FlowIngress, UpstreamConnection, DestinationAddress
<1>4. PolicyInv BY <1>1, NoFlowIs, DefaultIsPolicy DEF PolicyInv
<1>5. AnswerInv BY <1>1, OneIsNotNone DEF AnswerInv, OneAnswer
<1>6. BytesInv
  <2>1. <<>> \in Seq(StreamUnits) /\ Len(<<>>) = 0 OBVIOUS
  <2>2. taken \in Nat /\ taken <= Total BY <1>1, <1>2, NothingTaken
  <2>3. held \in Seq(StreamUnits) /\ pre \in Seq(StreamUnits) /\ up \in Seq(StreamUnits) /\ Len(held) = 0 BY <1>1, <2>1
  <2>4. Len(held) <= MaxPrefix + MaxHello BY <2>3, FlowPathAssumption
  <2>5. at \notin Later \cup {"prepare", "established"} BY <1>1 DEF Later
  <2>6. at \notin {"parse", "detect", "hello"} BY <1>1
  <2> HIDE DEF StreamUnits
  <2> QED BY <1>1, <2>2, <2>3, <2>4, <2>5, <2>6, Zenon DEF BytesInv
<1>7. validate(policy) = "" BY <1>1, DefaultIsPolicy
<1> QED BY <1>2, <1>3, <1>4, <1>5, <1>6, <1>7 DEF PathInv

(* Only a policy that validates is installed. *)
LEMMA ValidStep ==
    ASSUME validate(policy) = "", PathNext PROVE validate(policy)' = ""
<1>1. ASSUME NEW p \in Policies, replace_tls_decryption_policy(p) PROVE validate(policy)' = ""
  BY <1>1 DEF replace_tls_decryption_policy
<1>2. ASSUME policy' = policy PROVE validate(policy)' = "" BY <1>2
<1> QED BY <1>1, <1>2 DEF PathNext, PathBounded, Accept, read_request_head, decode, prepare_direct,
      prepare_proxied, handle_flow, handle_with_decryption_policy, accept_client_tls, decode_plain,
      connect_upstream, HeadFails, DetectFails, HelloFails, WriteRefusal, into_flow_explicit,
      into_flow_macos, into_flow_windows, detect, read_client_hello, passthrough, HandleFrame, Stay

(* It holds while another part of the flow path moves. *)
LEMMA PathRests == ASSUME PathInv, UNCHANGED pathVars PROVE PathInv'
<1>1. UNCHANGED <<at, client, taken, pre, held, flow, policy, replies, up, failure>> BY DEF pathVars
<1>2. WhereInv' BY <1>1 DEF PathInv, WhereInv
<1>3. RouteInv' BY <1>1 DEF PathInv, RouteInv, PathRouted, Requested
<1>4. PolicyInv' BY <1>1 DEF PathInv, PolicyInv, Meant
<1>5. AnswerInv' BY <1>1 DEF PathInv, AnswerInv
<1>6. BytesInv' BY <1>1 DEF PathInv, BytesInv, Total, Stream
<1>7. validate(policy)' = "" BY <1>1 DEF PathInv
<1> QED BY <1>2, <1>3, <1>4, <1>5, <1>6, <1>7 DEF PathInv

(* Every step of a connection keeps it. *)
LEMMA PathStep == ASSUME PathInv, PathNext PROVE PathInv'
<1> USE DEF PathInv
<1> QED BY WhereStep, RouteStep, PolicyStep, AnswerStep, BytesStep, ValidStep

(* The invariant gives PathFaithful. *)
LEMMA PathIsFaithful == ASSUME PathInv PROVE PathFaithful
<1> USE DEF PathInv
<1>1. PathTypeOK
  <2>1. /\ at \in {"idle", "head", "parse", "prepare", "refuse", "established", "open", "redirect",
               "detect", "hello", "accept", "plain", "connect", "copy", "relay", "failed"}
        /\ flow.ingress \in FlowIngress /\ flow.upstream \in UpstreamConnection
        /\ flow.destination \in DestinationAddress
    BY DEF WhereInv, RouteInv, Fresh, Later
  <2>2. /\ failure # "" <=> at \in {"failed", "refuse"}
        /\ failure # "" => failure \in ExplicitIngressError \cup IngressError \cup TransparentFlowError
    BY Zenon DEF AnswerInv, Errors
  <2>3. taken <= Total /\ Len(held) <= MaxPrefix + MaxHello BY DEF BytesInv
  <2>4. category(failure) \in ExplicitProxyErrorCategory BY DEF category, ExplicitProxyErrorCategory
  <2>5. policy.default \in TlsDecryptionAction /\ validate(policy) \notin TlsDecryptionPolicyError
    BY DEF PolicyInv, IsPolicy, TlsDecryptionPolicyError
  <2> QED BY <2>1, <2>2, <2>3, <2>4, <2>5 DEF PathTypeOK
<1>2. PathBytesOnce BY DEF PathBytesOnce, BytesInv, Whole, Cat, Later
<1>3. PathAnswers BY OneAnswerLength DEF AnswerInv, PathAnswers
<1>4. PathRequestUnambiguous
  <2> SUFFICES ASSUME flow.ingress = "explicit" PROVE ReadsOneWay(client.request, flow.target)
    BY DEF PathRequestUnambiguous, ReadsOneWay
  <2>1. Requested(flow.target) BY DEF RouteInv
  <2>2. IsHead(client.request) BY <2>1, ClientsAssumption DEF Requested
  <2> QED BY <2>1, <2>2, ParseMeans DEF Requested
<1> QED BY <1>1, <1>2, <1>3, <1>4 DEF PathFaithful

(* The invariant gives PathAuthorised. *)
LEMMA PathIsAuthorised == ASSUME PathInv PROVE PathAuthorised
<1> USE DEF PathInv
<1>1. PathRouted BY DEF RouteInv
<1>2. PathNamesTarget BY DEF PolicyInv, PathNamesTarget
<1>3. PathOnePolicy BY DEF PolicyInv, PathOnePolicy, Meant
<1> QED BY <1>1, <1>2, <1>3 DEF PathAuthorised

-----------------------------------------------------------------------------
(* Sums. *)

(* The running sums of the list w, for its first n elements: what the local *)
(* functions of HeadsTo and UnitsTo are.                                    *)
IsSum(w, f, n) == f = [i \in 0..n |-> IF i = 0 THEN 0 ELSE f[i - 1] + w[i]]

(* Their last value. *)
SumTo(w, n) == (CHOOSE f : IsSum(w, f, n))[n]

(* They exist for every length, by the least length for which they would not. *)
LEMMA SumExists ==
    ASSUME NEW w, NEW m \in Nat
    PROVE  \E f : IsSum(w, f, m)
<1> DEFINE B == {n \in Nat : ~ \E f : IsSum(w, f, n)}
<1> SUFFICES ASSUME B # {} PROVE FALSE OBVIOUS
<1>1. PICK n \in B : \A y \in B : n <= y BY LeastNatural
<1>2. n \in Nat /\ ~ \E f : IsSum(w, f, n) BY <1>1
<1>3. CASE n = 0
  <2> DEFINE f == [i \in 0..0 |-> 0]
  <2>1. f = [i \in 0..0 |-> IF i = 0 THEN 0 ELSE f[i - 1] + w[i]] OBVIOUS
  <2> QED BY <1>2, <1>3, <2>1 DEF IsSum
<1>4. CASE n # 0
  <2>1. n - 1 \in Nat /\ n - 1 \notin B BY <1>1, <1>2, <1>4
  <2>2. PICK f : IsSum(w, f, n - 1) BY <2>1
  <2> DEFINE v == f[n - 1] + w[n]
             g == [i \in 0..n |-> IF i = n THEN v ELSE f[i]]
             h == [i \in 0..n |-> IF i = 0 THEN 0 ELSE g[i - 1] + w[i]]
  <2>3. \A i \in 0..n : g[i] = h[i] BY <1>2, <1>4, <2>2 DEF IsSum
  <2>4. g = h BY <2>3
  <2>5. IsSum(w, g, n) BY <2>4 DEF IsSum
  <2> QED BY <2>5, <1>2
<1> QED BY <1>3, <1>4

(* Running sums of lists that agree so far agree. *)
LEMMA SumsAgree ==
    ASSUME NEW w, NEW f, NEW m \in Nat, IsSum(w, f, m), NEW x, NEW g, NEW n \in Nat, IsSum(x, g, n), m <= n,
           \A i \in 1..m : w[i] = x[i]
    PROVE  \A i \in 0..m : f[i] = g[i]
<1>1. \A i \in 0..m : f[i] = IF i = 0 THEN 0 ELSE f[i - 1] + w[i] BY DEF IsSum
<1>2. \A i \in 0..n : g[i] = IF i = 0 THEN 0 ELSE g[i - 1] + x[i] BY DEF IsSum
<1> DEFINE B == {i \in 0..m : f[i] # g[i]}
<1> SUFFICES ASSUME B # {} PROVE FALSE OBVIOUS
<1>3. PICK k \in B : \A y \in B : k <= y
  <2>1. B \subseteq Nat OBVIOUS
  <2> HIDE DEF B
  <2> QED BY <2>1, LeastNatural
<1>4. k \in 0..m /\ f[k] # g[k] /\ k \in Nat /\ k \in 0..n BY <1>3
<1>5. CASE k = 0 BY <1>1, <1>2, <1>4, <1>5
<1>6. CASE k # 0 BY <1>1, <1>2, <1>3, <1>4, <1>6
<1> QED BY <1>5, <1>6

(* A sum grows by the next element. *)
LEMMA SumSteps ==
    ASSUME NEW n \in Nat, NEW w, NEW x, \A i \in 1..n : w[i] = x[i]
    PROVE  /\ SumTo(w, 0) = 0
           /\ SumTo(w, n) = SumTo(x, n)
           /\ SumTo(x, n + 1) = SumTo(w, n) + x[n + 1]
<1> DEFINE Z == CHOOSE f : IsSum(w, f, 0)
           F == CHOOSE f : IsSum(w, f, n)
           G == CHOOSE f : IsSum(x, f, n)
           H == CHOOSE f : IsSum(x, f, n + 1)
<1>1. IsSum(w, Z, 0) BY SumExists
<1>2. IsSum(w, F, n) BY SumExists
<1>3. IsSum(x, G, n) BY SumExists
<1>4. IsSum(x, H, n + 1)
  <2>1. n + 1 \in Nat OBVIOUS
  <2> QED BY <2>1, SumExists
<1>5. SumTo(w, 0) = Z[0] /\ SumTo(w, n) = F[n] /\ SumTo(x, n) = G[n] /\ SumTo(x, n + 1) = H[n + 1]
  BY Zenon DEF SumTo
<1> HIDE DEF Z, F, G, H
<1>6. Z[0] = 0 BY <1>1 DEF IsSum
<1>7. F[n] = G[n] BY <1>2, <1>3, SumsAgree
<1>8. F[n] = H[n] BY <1>2, <1>4, SumsAgree
<1>9. H[n + 1] = H[n] + x[n + 1] BY <1>4 DEF IsSum
<1> QED BY <1>5, <1>6, <1>7, <1>8, <1>9

(* A sum of naturals is one. *)
LEMMA SumNatural ==
    ASSUME NEW n \in Nat, NEW w, \A i \in 1..n : w[i] \in Nat
    PROVE  SumTo(w, n) \in Nat
<1> DEFINE F == CHOOSE f : IsSum(w, f, n)
<1>1. IsSum(w, F, n) BY SumExists
<1>2. SumTo(w, n) = F[n] BY Zenon DEF SumTo
<1> HIDE DEF F
<1>3. \A i \in 0..n : F[i] = IF i = 0 THEN 0 ELSE F[i - 1] + w[i] BY <1>1 DEF IsSum
<1> DEFINE B == {i \in 0..n : F[i] \notin Nat}
<1>4. B = {}
  <2> SUFFICES ASSUME B # {} PROVE FALSE OBVIOUS
  <2>3. PICK k \in B : \A y \in B : k <= y
    <3>1. B \subseteq Nat OBVIOUS
    <3> HIDE DEF B
    <3> QED BY <3>1, LeastNatural
  <2>4. k \in 0..n /\ F[k] \notin Nat /\ k \in Nat BY <2>3
  <2>5. CASE k = 0 BY <1>3, <2>4, <2>5
  <2>6. CASE k # 0 BY <1>3, <2>3, <2>4, <2>6
  <2> QED BY <2>5, <2>6
<1> QED BY <1>2, <1>4

-----------------------------------------------------------------------------
(* The tunnel through an upstream proxy. *)

(* A list of heads or frames that have a length. *)
Sized(h) == h \in Seq(Range(h)) /\ \A x \in Range(h) : x.len \in Nat

(* The length of the first n heads. *)
LensTo(h, n) == SumTo([i \in 1..n |-> h[i].len], n)

(* HeadsTo is such a sum. *)
LEMMA HeadsToSum == ASSUME NEW n PROVE HeadsTo(n) = LensTo(answer.heads, n)
BY Zenon DEF HeadsTo, LensTo, SumTo, IsSum, Heads

(* Every element of such a list has a length. *)
LEMMA SizedAt ==
    ASSUME NEW h, Sized(h)
    PROVE  Len(h) \in Nat /\ \A i \in 1..Len(h) : h[i].len \in Nat /\ h[i] \in Range(h)
<1>1. \A S : \A s \in Seq(S) : Len(s) \in Nat /\ \A i \in 1..Len(s) : s[i] \in S OBVIOUS
<1>2. Len(h) \in Nat /\ \A i \in 1..Len(h) : h[i] \in Range(h) BY <1>1, Zenon DEF Sized
<1> QED BY <1>2 DEF Sized

(* The length of one head more. *)
LEMMA LensSteps ==
    ASSUME NEW h, Sized(h), NEW n \in Nat, n <= Len(h)
    PROVE  /\ LensTo(h, 0) = 0
           /\ LensTo(h, n) \in Nat
           /\ n < Len(h) => LensTo(h, n + 1) = LensTo(h, n) + h[n + 1].len /\ h[n + 1].len \in Nat
<1> DEFINE w(k) == [i \in 1..k |-> h[i].len]
<1>0. Len(h) \in Nat /\ \A i \in 1..Len(h) : h[i].len \in Nat BY SizedAt
<1>1. \A i \in 1..n : w(n)[i] = w(n + 1)[i] OBVIOUS
<1>2. \A i \in 1..n : w(n)[i] \in Nat BY <1>0
<1>3. n < Len(h) => n + 1 \in 1..Len(h) BY <1>0
<1>4. w(n + 1)[n + 1] = h[n + 1].len OBVIOUS
<1>5. LensTo(h, n) = SumTo(w(n), n) /\ LensTo(h, n + 1) = SumTo(w(n + 1), n + 1)
      /\ LensTo(h, 0) = SumTo(w(0), 0)
  BY Zenon DEF LensTo
<1> HIDE DEF w
<1>6. SumTo(w(n + 1), n + 1) = SumTo(w(n), n) + w(n + 1)[n + 1] BY <1>1, SumSteps
<1>7. SumTo(w(n), n) \in Nat BY <1>2, SumNatural
<1>8. SumTo(w(0), 0) = 0 BY SumSteps
<1> QED BY <1>0, <1>3, <1>4, <1>5, <1>6, <1>7, <1>8

(* The fields of a call. *)
TunnelFields == {"phase", "proxy", "excluded", "addresses", "pending", "peer", "error"}

(* The phases before a connection. *)
Calling == {"idle", "resolve", "check", "connect"}

(* What a call knows in each phase: what is about to be tried was compared *)
(* with every listener, and so was what is connected.                      *)
CallInv ==
    /\ DOMAIN tunnel = TunnelFields
    /\ tunnel.phase \in Calling \cup {"handshake", "open", "failed"}
    /\ tunnel.phase = "failed" <=> tunnel.error # ""
    /\ tunnel.error # "" => tunnel.error \in UpstreamProxyError
    /\ tunnel.proxy \subseteq Proxies /\ tunnel.excluded \subseteq Listeners
    /\ tunnel.phase \in Calling => tunnel.peer = {}
    /\ tunnel.phase \in {"check", "connect"} =>
         tunnel.addresses \in Seq(Range(tunnel.addresses)) /\ tunnel.addresses # <<>>
         /\ \A a \in Range(tunnel.addresses) : IsAddress(a)
    /\ tunnel.phase = "connect" =>
         tunnel.pending # {} /\ \A a \in tunnel.pending, l \in tunnel.excluded : ~Arrives(l, a)
    /\ NoTunnelToSelf

(* How far the proxy's answer is read: what is drained is exactly the heads *)
(* accepted, what is passed begins right behind them.                       *)
AnswerOK ==
    /\ Sized(answer.heads) /\ answer.tail \in Nat
    /\ got \in Nat /\ drained \in Nat /\ heads \in Nat /\ drained <= got /\ got <= WireLen
    /\ tunnel.phase \in Calling => got = 0 /\ drained = 0 /\ heads = 0
    /\ tunnel.phase # "open" => passed = <<>>
    /\ tunnel.phase = "handshake" => heads <= Len(Heads) /\ drained = HeadsTo(heads)
    /\ tunnel.phase = "open" => drained = HeadsTo(heads + 1)
    /\ TunnelBuffersBounded
    /\ passed \in Seq(Nat) /\ drained + Len(passed) <= got
    /\ TunnelBytesExact

(* The inductive invariant of a call. *)
TunnelInv == CallInv /\ AnswerOK

(* It holds initially. *)
LEMMA TunnelStarts == ASSUME TunnelInit PROVE TunnelInv
<1>1. CallInv
  BY DEF CallInv, TunnelInit, TunnelFields, Calling, NoTunnelToSelf
<1>2. AnswerOK
  <2> DEFINE h == answer.heads
  <2>1. answer = [heads |-> <<>>, tail |-> 0] /\ got = 0 /\ drained = 0 /\ heads = 0 /\ passed = <<>>
        /\ tunnel.phase = "idle"
    BY DEF TunnelInit
  <2>2. h = <<>> /\ answer.tail = 0 BY <2>1
  <2>3. <<>> \in Seq(Range(<<>>)) /\ Len(<<>>) = 0 /\ Range(<<>>) = {} BY DEF Range
  <2>4. Sized(h) BY <2>2, <2>3 DEF Sized
  <2>5. Len(h) = 0 BY <2>2, <2>3
  <2>6. LensTo(h, 0) = 0 BY <2>4, <2>5, LensSteps
  <2>7. WireLen = 0 BY <2>2, <2>5, <2>6, HeadsToSum DEF WireLen, Heads
  <2>8. passed \in Seq(Nat) /\ Len(passed) = 0 BY <2>1, <2>3
  <2>9. [k \in 1..0 |-> drained + k] = <<>> OBVIOUS
  <2>10. TunnelBytesExact BY <2>1, <2>8, <2>9 DEF TunnelBytesExact
  <2> HIDE DEF h
  <2>11. Sized(answer.heads) BY <2>4 DEF h
  <2> QED BY <2>1, <2>2, <2>7, <2>8, <2>10, <2>11 DEF AnswerOK, TunnelBuffersBounded, Calling
<1> QED BY <1>1, <1>2 DEF TunnelInv

(* Every step keeps CallInv: an address that is contacted was excluded by no *)
(* listener (ExcludeListeners).                                              *)
LEMMA CallStep == ASSUME CallInv, TunnelNext PROVE CallInv'
<1> USE DEF TunnelFields, Calling
<1>1. ASSUME NEW p \in Proxies, NEW l \in SUBSET Listeners, connect_tunnel(p, l) PROVE CallInv'
  BY <1>1 DEF CallInv, connect_tunnel, NoTunnelToSelf
<1>0. ASSUME NEW e \in UpstreamProxyError, TunnelFails(e), tunnel.phase \in Calling \cup {"handshake"} PROVE CallInv'
  BY <1>0 DEF CallInv, TunnelFails, NoTunnelToSelf, UpstreamProxyError
<1>2. ASSUME resolve PROVE CallInv'
  <2>1. tunnel.phase = "resolve" /\ tunnel.peer = {} BY <1>2 DEF resolve, CallInv
  <2>2. PICK p \in tunnel.proxy :
         \/ \E addresses \in IF p.ip # {} THEN {<<a>> : a \in p.ip} ELSE p.dns :
                tunnel' = IF addresses = <<>>
                          THEN [tunnel EXCEPT !.phase = "failed", !.error = "Resolve"]
                          ELSE [tunnel EXCEPT !.phase = "check", !.addresses = addresses]
         \/ p.ip = {} /\ \E e \in {"Resolve", "ResolveTimeout"} : TunnelFails(e)
    BY <1>2 DEF resolve
  <2>3. p \in Proxies BY DEF CallInv
  <2>4. ASSUME NEW e \in {"Resolve", "ResolveTimeout"}, TunnelFails(e) PROVE CallInv'
    BY <1>0, <2>1, <2>4 DEF UpstreamProxyError
  <2>5. ASSUME NEW s, s \in Seq(Range(s)), \A a \in Range(s) : IsAddress(a),
               tunnel' = IF s = <<>> THEN [tunnel EXCEPT !.phase = "failed", !.error = "Resolve"]
                         ELSE [tunnel EXCEPT !.phase = "check", !.addresses = s]
        PROVE  CallInv' BY <2>1, <2>4, <2>5 DEF TunnelFails, CallInv, NoTunnelToSelf
  <2>6. \A s \in p.dns : s \in Seq(Range(s)) /\ \A a \in Range(s) : IsAddress(a) BY <2>3, ProxyTunnelAssumption
  <2>7. \A a \in p.ip : <<a>> \in Seq(Range(<<a>>)) /\ \A b \in Range(<<a>>) : IsAddress(b)
    BY <2>3, ProxyTunnelAssumption DEF Range
  <2>8. ASSUME NEW s \in IF p.ip # {} THEN {<<a>> : a \in p.ip} ELSE p.dns
        PROVE  s \in Seq(Range(s)) /\ \A a \in Range(s) : IsAddress(a)
    BY <2>6, <2>7
  <2> QED BY <2>2, <2>4, <2>5, <2>8
<1>3. ASSUME ExcludeListeners PROVE CallInv'
  <2> DEFINE all == {<<l, i>> : l \in tunnel.excluded, i \in 1..Len(tunnel.addresses)}
             hit == {p \in all : contains(p[1], tunnel.addresses[p[2]])}
  <2>1. tunnel.phase = "check" /\ tunnel.peer = {} /\ tunnel.addresses \in Seq(Range(tunnel.addresses))
        /\ tunnel.addresses # <<>> /\ \A a \in Range(tunnel.addresses) : IsAddress(a)
    BY <1>3 DEF ExcludeListeners, CallInv
  <2>2. \/ \E e \in {"Loop", "Connect"} : TunnelFails(e)
        \/ hit = {} /\ tunnel' = [tunnel EXCEPT !.phase = "connect", !.pending = Range(tunnel.addresses)]
    BY <1>3 DEF ExcludeListeners
  <2>3. CASE \E e \in {"Loop", "Connect"} : TunnelFails(e) BY <1>0, <2>1, <2>3 DEF UpstreamProxyError
  <2>4. CASE hit = {} /\ tunnel' = [tunnel EXCEPT !.phase = "connect", !.pending = Range(tunnel.addresses)]
    <3> DEFINE s == tunnel.addresses
    <3>1. \A a \in Range(s) : \E i \in 1..Len(s) : a = s[i] BY <2>1 DEF Range
    <3>2. \A l \in tunnel.excluded, i \in 1..Len(s) : ~contains(l, s[i])
      <4> SUFFICES ASSUME NEW l \in tunnel.excluded, NEW i \in 1..Len(s), contains(l, s[i]) PROVE FALSE OBVIOUS
      <4>1. <<l, i>> \in all OBVIOUS
      <4>2. <<l, i>>[1] = l /\ <<l, i>>[2] = i OBVIOUS
      <4> HIDE DEF all
      <4>3. <<l, i>> \in hit BY <4>1, <4>2
      <4> QED BY <4>3, <2>4
    <3>3. \A a \in Range(s), l \in tunnel.excluded : ~contains(l, a) BY <3>1, <3>2, Zenon
    <3>4. \A a \in Range(s), l \in tunnel.excluded : ~Arrives(l, a)
      BY <2>1, <3>3, ProxyTunnelAssumption, ArrivesContained DEF CallInv
    <3>5. Range(s) # {}
      <4>1. \A S : \A q \in Seq(S) : q # <<>> => q[1] \in Range(q) BY DEF Range
      <4> QED BY <2>1, <4>1, Zenon
    <3>6. tunnel'.pending = Range(s) /\ tunnel'.excluded = tunnel.excluded /\ tunnel'.addresses = s
          /\ tunnel'.phase = "connect" /\ tunnel'.peer = {} /\ tunnel'.error = tunnel.error
          /\ tunnel'.proxy = tunnel.proxy /\ DOMAIN tunnel' = TunnelFields
      BY <2>1, <2>4 DEF CallInv
    <3> QED BY <2>1, <3>4, <3>5, <3>6 DEF CallInv, NoTunnelToSelf
  <2> QED BY <2>2, <2>3, <2>4
<1>4. ASSUME TunnelConnectTimeout PROVE CallInv'
  BY <1>0, <1>4 DEF TunnelConnectTimeout, UpstreamProxyError
<1>5. ASSUME NEW a \in tunnel.pending, connect_address(a) PROVE CallInv'
  <2>1. CASE TunnelFails("Connect") BY <1>0, <1>5, <2>1 DEF connect_address, UpstreamProxyError
  <2>2. CASE tunnel' = [tunnel EXCEPT !.phase = "handshake", !.peer = {a}, !.pending = {}]
    BY <1>5, <2>2 DEF connect_address, CallInv, NoTunnelToSelf
  <2>3. CASE tunnel.pending # {a} /\ tunnel' = [tunnel EXCEPT !.pending = @ \ {a}]
    BY <1>5, <2>3 DEF connect_address, CallInv, NoTunnelToSelf
  <2> QED BY <1>5, <2>1, <2>2, <2>3 DEF connect_address
<1>6. ASSUME tunnel.phase = "handshake", tunnel' = [tunnel EXCEPT !.phase = "open"] PROVE CallInv'
  BY <1>6 DEF CallInv, NoTunnelToSelf
<1>7. ASSUME JudgeHead PROVE CallInv'
  BY <1>0, <1>6, <1>7 DEF JudgeHead, TunnelStep, CallInv, NoTunnelToSelf, UpstreamProxyError
<1>8. ASSUME HeadTooLong PROVE CallInv' BY <1>0, <1>8 DEF HeadTooLong, UpstreamProxyError
<1>9. ASSUME NEW n, ReadHandshake(n) \/ poll_read_prefixed(n) PROVE CallInv'
  <2>1. tunnel' = tunnel BY <1>9 DEF ReadHandshake, poll_read_prefixed
  <2> QED BY <2>1 DEF CallInv, NoTunnelToSelf
<1>10. ASSUME NEW e \in UpstreamProxyError, HandshakeBreaks(e) PROVE CallInv' BY <1>0, <1>10 DEF HandshakeBreaks
<1> QED BY <1>1, <1>2, <1>3, <1>4, <1>5, <1>7, <1>8, <1>9, <1>10 DEF TunnelNext

(* The sizes depend on the answer only. *)
LEMMA WireSame ==
    ASSUME answer' = answer
    PROVE  WireLen' = WireLen /\ Heads' = Heads /\ \A n : HeadsTo(n)' = HeadsTo(n)
BY DEF WireLen, Heads, HeadsTo

(* The answer has a length. *)
LEMMA WireNat == ASSUME AnswerOK PROVE WireLen \in Nat /\ Len(Heads) \in Nat
<1>1. Sized(answer.heads) /\ answer.tail \in Nat BY DEF AnswerOK
<1> DEFINE h == answer.heads
<1>2. Len(h) \in Nat BY <1>1, SizedAt
<1>3. LensTo(h, Len(h)) \in Nat BY <1>1, <1>2, LensSteps
<1> QED BY <1>1, <1>2, <1>3, HeadsToSum DEF WireLen, Heads

(* Steps that read nothing. *)
LEMMA AnswerRests ==
    ASSUME AnswerOK, TunnelFrame, tunnel'.phase \notin {"handshake", "open"},
           tunnel.phase # "open", tunnel'.phase = "failed" \/ tunnel.phase \in Calling
    PROVE  AnswerOK'
<1>1. UNCHANGED <<answer, got, drained, heads, passed>> BY DEF TunnelFrame
<1>2. WireLen' = WireLen BY <1>1, WireSame
<1>3. passed = <<>> /\ TunnelBytesExact BY DEF AnswerOK
<1>4. TunnelBytesExact' BY <1>1, <1>3 DEF TunnelBytesExact
<1> QED BY <1>1, <1>2, <1>3, <1>4 DEF AnswerOK, TunnelBuffersBounded, Calling

(* A read of the handshake stays within the answer and one read beyond the *)
(* limit.                                                                  *)
LEMMA ReadAnswer ==
    ASSUME AnswerOK, tunnel.phase = "handshake", NEW n, ReadHandshake(n) PROVE AnswerOK'
<1>1. /\ n \in 1..Min({Chunk, WireLen - got}) /\ got' = got + n /\ Buffered < MaxHeaderBytes
      /\ UNCHANGED <<tunnel, answer, drained, heads, passed>>
  BY DEF ReadHandshake
<1>2. WireLen' = WireLen /\ Heads' = Heads /\ HeadsTo(heads)' = HeadsTo(heads)
  BY <1>1 DEF WireLen, Heads, HeadsTo
<1>3. WireLen \in Nat /\ got \in Nat /\ got <= WireLen /\ drained \in Nat /\ drained <= got BY WireNat DEF AnswerOK
<1> DEFINE left == WireLen - got  S == {Chunk, left}
<1>4. left \in Nat BY <1>3
<1>5. Min(S) <= left /\ Min(S) <= Chunk /\ Min(S) \in Nat BY <1>4, ProxyTunnelAssumption, MinOfNaturals
<1> HIDE DEF S
<1>6. n \in Nat /\ n <= left /\ n <= Chunk BY <1>1, <1>4, <1>5, ProxyTunnelAssumption DEF S
<1>7. got' \in Nat /\ got' <= WireLen' /\ drained' <= got' BY <1>1, <1>2, <1>3, <1>6
<1>8. Buffered' < MaxHeaderBytes + Chunk BY <1>1, <1>3, <1>6, ProxyTunnelAssumption DEF Buffered
<1>9. passed = <<>> /\ TunnelBytesExact /\ Sized(answer.heads) /\ answer.tail \in Nat /\ heads \in Nat
      /\ heads <= Len(Heads) /\ drained = HeadsTo(heads) /\ passed \in Seq(Nat) /\ drained + Len(passed) <= got
  BY DEF AnswerOK
<1>10. TunnelBytesExact' BY <1>1, <1>9 DEF TunnelBytesExact
<1>11. drained' + Len(passed') <= got' BY <1>1, <1>3, <1>6, <1>9
<1> QED BY <1>1, <1>2, <1>3, <1>7, <1>8, <1>9, <1>10, <1>11 DEF AnswerOK, TunnelBuffersBounded, Calling

(* A head that is judged is drained whole. *)
LEMMA JudgeAnswer == ASSUME CallInv, AnswerOK, JudgeHead PROVE AnswerOK'
<1> DEFINE h == Heads[heads + 1]  size == h.len
<1>1. tunnel.phase = "handshake" /\ Complete BY DEF JudgeHead
<1>2. /\ Sized(answer.heads) /\ answer.tail \in Nat /\ got \in Nat /\ drained \in Nat /\ heads \in Nat
      /\ drained <= got /\ got <= WireLen /\ passed = <<>> /\ heads <= Len(Heads) /\ drained = HeadsTo(heads)
      /\ TunnelBuffersBounded /\ TunnelBytesExact /\ passed \in Seq(Nat) /\ WireLen \in Nat /\ Len(Heads) \in Nat
  BY <1>1, WireNat DEF AnswerOK
<1>3. heads < Len(Heads) /\ Buffered >= size BY <1>1, <1>2 DEF Complete, NextHead
<1>4. HeadsTo(heads + 1) = drained + size /\ size \in Nat BY <1>2, <1>3, LensSteps, HeadsToSum DEF Heads
<1> HIDE DEF size
<1>5. drained + size \in Nat /\ drained + size <= got BY <1>2, <1>3, <1>4 DEF Buffered
<1>6. Len(passed) = 0
  <2>1. Len(<<>>) = 0 OBVIOUS
  <2> QED BY <1>2, <2>1
<1>7. CASE tunnel'.phase = "failed" /\ TunnelFrame
  BY <1>1, <1>7, AnswerRests
<1>8. CASE /\ TunnelStep("open") /\ drained' = drained + size /\ UNCHANGED <<answer, got, heads, passed>>
  <2>2. WireLen' = WireLen /\ Heads' = Heads /\ HeadsTo(heads)' = HeadsTo(heads)
    BY <1>8 DEF WireLen, Heads, HeadsTo
  <2>3. passed' = [k \in 1..Len(passed') |-> drained' + k] BY <1>2, <1>6, <1>8
  <2>4. HeadsTo(heads + 1)' = HeadsTo(heads + 1) BY <1>8 DEF HeadsTo, Heads
  <2>5. TunnelBytesExact' BY <2>3, <2>4, <1>4, <1>8 DEF TunnelBytesExact
  <2>6. tunnel'.phase = "open" BY <1>8 DEF CallInv, TunnelStep, TunnelFields
  <2>7. drained' = HeadsTo(heads + 1)' BY <1>4, <1>8, <2>4
  <2> QED BY <1>2, <1>5, <1>6, <1>8, <2>2, <2>5, <2>6, <2>7 DEF AnswerOK, TunnelBuffersBounded, Calling
<1>9. CASE heads < MaxInformational /\ drained' = drained + size /\ heads' = heads + 1
           /\ UNCHANGED <<tunnel, answer, got, passed>>
  <2>2. WireLen' = WireLen /\ Heads' = Heads /\ HeadsTo(heads + 1)' = HeadsTo(heads' + 1)
    BY <1>9 DEF WireLen, Heads, HeadsTo
  <2>3. drained' = HeadsTo(heads)' BY <1>4, <1>9 DEF HeadsTo, Heads
  <2>4. TunnelBytesExact' BY <1>2, <1>6, <1>9 DEF TunnelBytesExact
  <2>5. Buffered' < MaxHeaderBytes + Chunk
    BY <1>1, <1>2, <1>4, <1>9, ProxyTunnelAssumption DEF TunnelBuffersBounded, Buffered
  <2>6. heads' <= Len(Heads') /\ heads' \in Nat BY <1>2, <1>3, <1>9, <2>2
  <2> QED BY <1>1, <1>2, <1>5, <1>6, <1>9, <2>2, <2>3, <2>4, <2>5, <2>6 DEF AnswerOK, TunnelBuffersBounded, Calling
<1>10. ASSUME NEW e, TunnelFails(e), TunnelFrame PROVE tunnel'.phase = "failed" /\ TunnelFrame
  BY <1>10 DEF CallInv, TunnelFails, TunnelFields
<1> QED BY <1>7, <1>8, <1>9, <1>10, Zenon DEF JudgeHead, size

(* A run of units. *)
LEMMA RunLength ==
    ASSUME NEW d \in Nat, NEW n \in Nat
    PROVE  [k \in 1..n |-> d + k] \in Seq(Nat) /\ Len([k \in 1..n |-> d + k]) = n
<1>1. \A k \in 1..n : d + k \in Nat OBVIOUS
<1> QED BY <1>1

(* Two runs that meet are one. *)
LEMMA RunsJoin ==
    ASSUME NEW d \in Nat, NEW m \in Nat, NEW n \in Nat
    PROVE  [k \in 1..m |-> d + k] \o [k \in 1..n |-> d + m + k] = [k \in 1..(m + n) |-> d + k]
<1> DEFINE a == [k \in 1..m |-> d + k]  b == [k \in 1..n |-> d + m + k]  c == [k \in 1..(m + n) |-> d + k]
<1>1. a \in Seq(Nat) /\ Len(a) = m /\ \A k \in 1..m : a[k] = d + k BY RunLength
<1>2. b \in Seq(Nat) /\ Len(b) = n /\ \A k \in 1..n : b[k] = d + m + k
  <2>1. d + m \in Nat OBVIOUS
  <2> QED BY <2>1, RunLength
<1>3. c \in Seq(Nat) /\ Len(c) = m + n /\ \A k \in 1..(m + n) : c[k] = d + k
  <2>1. m + n \in Nat OBVIOUS
  <2> QED BY <2>1, RunLength
<1> HIDE DEF a, b, c
<1>4. a \o b \in Seq(Nat) /\ Len(a \o b) = m + n BY <1>1, <1>2, ConcatProperties
<1>5. \A k \in 1..(m + n) : (a \o b)[k] = c[k]
  <2> SUFFICES ASSUME NEW k \in 1..(m + n) PROVE (a \o b)[k] = c[k] OBVIOUS
  <2>0. k \in Nat /\ (k <= m \/ k > m) OBVIOUS
  <2>1. CASE k <= m BY <2>1, <1>1, <1>2, <1>3
  <2>2. CASE k > m
    <3>1. (a \o b)[k] = b[k - m] BY <2>2, <1>1, <1>2
    <3>2. k - m \in 1..n /\ d + m + (k - m) = d + k BY <2>2
    <3> QED BY <3>1, <3>2, <1>2, <1>3
  <2> QED BY <2>0, <2>1, <2>2
<1>6. a \o b = c BY <1>3, <1>4, <1>5, SeqEqual
<1> QED BY <1>6 DEF a, b, c

(* A read of the stream hands on the next units, from the prefix and then *)
(* from the socket (PrefixedDuplexStream::poll_read).                     *)
LEMMA StreamRead ==
    ASSUME AnswerOK, NEW n, poll_read_prefixed(n) PROVE AnswerOK'
<1> DEFINE m == Len(passed)  from == drained + m
<1>1. /\ tunnel.phase = "open" /\ n \in 1..(IF from < got THEN got - from ELSE WireLen - got)
      /\ passed' = passed \o [k \in 1..n |-> from + k] /\ got' = IF from < got THEN got ELSE got + n
      /\ UNCHANGED <<tunnel, answer, drained, heads>>
  BY DEF poll_read_prefixed
<1>2. /\ Sized(answer.heads) /\ answer.tail \in Nat /\ got \in Nat /\ drained \in Nat /\ heads \in Nat
      /\ drained <= got /\ got <= WireLen /\ passed \in Seq(Nat) /\ WireLen \in Nat /\ drained = HeadsTo(heads + 1)
      /\ passed = [k \in 1..m |-> drained + k] /\ from <= got BY <1>1, WireNat DEF AnswerOK, TunnelBytesExact
<1>3. m \in Nat BY <1>2
<1>4. WireLen' = WireLen /\ HeadsTo(heads + 1)' = HeadsTo(heads + 1)
  BY <1>1, WireSame DEF HeadsTo, Heads
<1>5. n \in Nat /\ got' \in Nat /\ got' <= WireLen' /\ drained + (m + n) <= got'
  <2> HIDE DEF m
  <2> QED BY <1>1, <1>2, <1>3, <1>4
<1>6. passed' = [k \in 1..(m + n) |-> drained + k] /\ Len(passed') = m + n /\ passed' \in Seq(Nat)
  <2>1. passed \o [k \in 1..n |-> drained + m + k] = [k \in 1..(m + n) |-> drained + k]
    <3>1. drained \in Nat /\ m \in Nat /\ n \in Nat BY <1>2, <1>3, <1>5
    <3>2. passed = [k \in 1..m |-> drained + k] BY <1>2
    <3> HIDE DEF m
    <3>3. [k \in 1..m |-> drained + k] \o [k \in 1..n |-> drained + m + k] = [k \in 1..(m + n) |-> drained + k]
      BY <3>1, RunsJoin
    <3> QED BY <3>2, <3>3, Zenon
  <2>2. [k \in 1..(m + n) |-> drained + k] \in Seq(Nat) /\ Len([k \in 1..(m + n) |-> drained + k]) = m + n
    BY <1>2, <1>3, <1>5, RunLength
  <2>3. passed' = passed \o [k \in 1..n |-> drained + m + k] BY <1>1
  <2>4. passed' = [k \in 1..(m + n) |-> drained + k] BY <2>1, <2>3, Zenon
  <2> QED BY <2>2, <2>4, Zenon
<1>7. TunnelBytesExact' BY <1>1, <1>2, <1>4, <1>6 DEF TunnelBytesExact
<1>8. drained' = HeadsTo(heads + 1)' /\ drained' + Len(passed') <= got' /\ drained' <= got'
  <2> HIDE DEF m
  <2>1. drained' = drained BY <1>1
  <2>2. drained' = HeadsTo(heads + 1)' BY <1>2, <1>4, <2>1
  <2>3. Len(passed') = m + n BY <1>6
  <2>4. drained' + Len(passed') <= got' BY <1>5, <2>1, <2>3
  <2>5. drained <= drained + (m + n) /\ drained + (m + n) \in Nat BY <1>2, <1>3, <1>5
  <2> QED BY <1>2, <1>5, <2>1, <2>2, <2>4, <2>5
<1>9. tunnel'.phase = "open" BY <1>1
<1>10. answer' = answer /\ drained' \in Nat /\ heads' \in Nat BY <1>1, <1>2
<1> HIDE DEF m
<1> QED BY <1>2, <1>4, <1>5, <1>6, <1>7, <1>8, <1>9, <1>10 DEF AnswerOK, TunnelBuffersBounded, Calling

(* Every step keeps AnswerOK. *)
LEMMA AnswerMoves == ASSUME CallInv, AnswerOK, TunnelNext PROVE AnswerOK'
<1> USE DEF TunnelFields, Calling
<1>0. DOMAIN tunnel = TunnelFields BY DEF CallInv
<1>1. ASSUME NEW e, TunnelFails(e), TunnelFrame, tunnel.phase # "open" PROVE AnswerOK'
  BY <1>0, <1>1, AnswerRests DEF TunnelFails
<1>2. ASSUME tunnel.phase \in Calling, tunnel'.phase \in Calling, TunnelFrame PROVE AnswerOK'
  BY <1>2, AnswerRests
<1>3. ASSUME NEW p \in Proxies, NEW l \in SUBSET Listeners, connect_tunnel(p, l) PROVE AnswerOK'
  BY <1>0, <1>2, <1>3 DEF connect_tunnel
<1>4. ASSUME resolve PROVE AnswerOK' BY <1>0, <1>2, <1>4, AnswerRests DEF resolve, TunnelFails
<1>5. ASSUME ExcludeListeners PROVE AnswerOK'
  <2>1. tunnel.phase = "check" /\ TunnelFrame BY <1>5 DEF ExcludeListeners
  <2>2. tunnel'.phase = "failed" \/ tunnel'.phase = "connect"
    <3>1. \/ \E e \in {"Loop", "Connect"} : TunnelFails(e)
          \/ tunnel' = [tunnel EXCEPT !.phase = "connect", !.pending = Range(tunnel.addresses)]
      BY <1>5 DEF ExcludeListeners
    <3> QED BY <1>0, <3>1 DEF TunnelFails
  <2>3. CASE tunnel'.phase = "failed" BY <2>1, <2>3, AnswerRests
  <2>4. CASE tunnel'.phase = "connect" BY <2>1, <2>4, <1>2
  <2> QED BY <2>2, <2>3, <2>4
<1>6. ASSUME NEW a \in tunnel.pending, connect_address(a) PROVE AnswerOK'
  <2>1. tunnel.phase = "connect" BY <1>6 DEF connect_address
  <2>2. CASE TunnelFails("Connect") /\ TunnelFrame BY <1>1, <2>1, <2>2
  <2>3. CASE tunnel' = [tunnel EXCEPT !.pending = @ \ {a}] /\ TunnelFrame
    BY <1>0, <1>2, <2>1, <2>3
  <2>4. CASE /\ tunnel' = [tunnel EXCEPT !.phase = "handshake", !.peer = {a}, !.pending = {}]
             /\ answer' \in Answers /\ UNCHANGED <<got, drained, heads, passed>>
    <3>1. Sized(answer.heads)' /\ answer'.tail \in Nat BY <2>4, ProxyTunnelAssumption DEF Sized
    <3>2. got' = 0 /\ drained' = 0 /\ heads' = 0 /\ passed' = <<>> BY <2>1, <2>4 DEF AnswerOK
    <3>3. tunnel'.phase = "handshake" BY <1>0, <2>4
    <3>4. PICK h : h = answer'.heads OBVIOUS
    <3>5. Sized(h) /\ Len(h) \in Nat BY <3>1, <3>4, SizedAt
    <3>6. LensTo(h, 0) = 0 /\ LensTo(h, Len(h)) \in Nat BY <3>5, LensSteps
    <3>8. \A n : HeadsTo(n)' = LensTo(h, n) BY <3>4 DEF HeadsTo, LensTo, SumTo, IsSum, Heads
    <3>9. WireLen' \in Nat /\ HeadsTo(heads)' = 0 /\ Len(Heads') = Len(h)
      BY <3>1, <3>2, <3>4, <3>5, <3>6, <3>8 DEF WireLen, Heads
    <3>10. TunnelBytesExact' /\ passed' \in Seq(Nat) /\ Len(passed') = 0 BY <3>2 DEF TunnelBytesExact
    <3>11. Buffered' = 0 /\ 0 < MaxHeaderBytes + Chunk BY <3>2, ProxyTunnelAssumption DEF Buffered
    <3> QED BY <3>1, <3>2, <3>3, <3>5, <3>9, <3>10, <3>11 DEF AnswerOK, TunnelBuffersBounded
  <2> QED BY <1>6, <2>2, <2>3, <2>4 DEF connect_address
<1>7. ASSUME TunnelConnectTimeout PROVE AnswerOK' BY <1>1, <1>7 DEF TunnelConnectTimeout
<1>8. ASSUME HeadTooLong PROVE AnswerOK' BY <1>1, <1>8 DEF HeadTooLong
<1>9. ASSUME NEW e, HandshakeBreaks(e) PROVE AnswerOK' BY <1>1, <1>9 DEF HandshakeBreaks
<1>10. ASSUME NEW n, ReadHandshake(n) PROVE AnswerOK' BY <1>10, ReadAnswer DEF ReadHandshake
<1>11. ASSUME NEW n, poll_read_prefixed(n) PROVE AnswerOK' BY <1>11, StreamRead
<1>12. ASSUME JudgeHead PROVE AnswerOK' BY <1>12, JudgeAnswer
<1> QED BY <1>3, <1>4, <1>5, <1>6, <1>7, <1>8, <1>9, <1>10, <1>11, <1>12 DEF TunnelNext

(* Every step of a call keeps the invariant. *)
LEMMA TunnelMoves == ASSUME TunnelInv, TunnelNext PROVE TunnelInv'
BY CallStep, AnswerMoves DEF TunnelInv

(* It holds while another part moves. *)
LEMMA TunnelRests == ASSUME TunnelInv, UNCHANGED tunnelVars PROVE TunnelInv'
<1>1. UNCHANGED <<tunnel, answer, got, drained, heads, passed>> BY DEF tunnelVars
<1>2. CallInv' BY <1>1 DEF TunnelInv, CallInv, NoTunnelToSelf
<1>3. WireLen' = WireLen /\ Heads' = Heads /\ HeadsTo(heads)' = HeadsTo(heads) /\ HeadsTo(heads + 1)' = HeadsTo(heads + 1)
  BY <1>1 DEF WireLen, Heads, HeadsTo
<1>4. TunnelBytesExact <=> TunnelBytesExact' BY <1>1, <1>3 DEF TunnelBytesExact
<1>5. AnswerOK' BY <1>1, <1>3, <1>4 DEF TunnelInv, AnswerOK, TunnelBuffersBounded, Buffered
<1> QED BY <1>2, <1>5 DEF TunnelInv

(* The invariant gives TunnelFaithful. *)
LEMMA TunnelIsFaithful == ASSUME TunnelInv PROVE TunnelFaithful
<1>1. TunnelTypeOK BY DEF TunnelInv, CallInv, AnswerOK, TunnelTypeOK, Calling
<1> QED BY <1>1 DEF TunnelInv, CallInv, AnswerOK, TunnelFaithful

-----------------------------------------------------------------------------
(* Frames and their bytes. *)

(* UnitsTo is such a sum too. *)
LEMMA UnitsToSum == ASSUME NEW s, NEW n PROVE UnitsTo(s, n) = SumTo([i \in 1..n |-> HeaderLen + s[i].len], n)
BY Zenon DEF UnitsTo, SumTo, IsSum

(* The units of one frame more. *)
LEMMA UnitsSteps ==
    ASSUME NEW s, Sized(s), NEW n \in Nat, n <= Len(s)
    PROVE  /\ UnitsTo(s, 0) = 0
           /\ UnitsTo(s, n) \in Nat
           /\ n < Len(s) => UnitsTo(s, n + 1) = UnitsTo(s, n) + (HeaderLen + s[n + 1].len) /\ s[n + 1].len \in Nat
<1> DEFINE w(k) == [i \in 1..k |-> HeaderLen + s[i].len]
<1>0. Len(s) \in Nat /\ \A i \in 1..Len(s) : s[i].len \in Nat BY SizedAt
<1>1. \A i \in 1..n : w(n)[i] = w(n + 1)[i] OBVIOUS
<1>2. \A i \in 1..n : w(n)[i] \in Nat BY <1>0, FramedFlowAssumption
<1>3. n < Len(s) => n + 1 \in 1..Len(s) BY <1>0
<1>4. w(n + 1)[n + 1] = HeaderLen + s[n + 1].len OBVIOUS
<1>5. UnitsTo(s, n) = SumTo(w(n), n) /\ UnitsTo(s, n + 1) = SumTo(w(n + 1), n + 1)
      /\ UnitsTo(s, 0) = SumTo(w(0), 0)
  BY UnitsToSum, Zenon
<1> HIDE DEF w
<1>6. SumTo(w(n + 1), n + 1) = SumTo(w(n), n) + w(n + 1)[n + 1] BY <1>1, SumSteps
<1>7. SumTo(w(n), n) \in Nat BY <1>2, SumNatural
<1>8. SumTo(w(0), 0) = 0 BY SumSteps
<1> QED BY <1>0, <1>3, <1>4, <1>5, <1>6, <1>7, <1>8

(* The units of the frames with one appended. *)
LEMMA UnitsAppend ==
    ASSUME NEW S, NEW s \in Seq(S), \A x \in S : x.len \in Nat, NEW f \in S
    PROVE  Units(Append(s, f)) = Units(s) + (HeaderLen + f.len)
<1> DEFINE q == Append(s, f)  n == Len(s)
<1>1. n \in Nat /\ q \in Seq(S) /\ Len(q) = n + 1 /\ q[n + 1] = f /\ \A i \in 1..n : q[i] = s[i] OBVIOUS
<1> DEFINE v == [i \in 1..n |-> HeaderLen + s[i].len]  w == [i \in 1..(n + 1) |-> HeaderLen + q[i].len]
<1> HIDE DEF q
<1>2. \A i \in 1..n : v[i] = w[i] BY <1>1
<1>3. w[n + 1] = HeaderLen + f.len BY <1>1
<1>4. Units(s) = SumTo(v, n) /\ Units(q) = SumTo(w, n + 1) BY <1>1, UnitsToSum DEF Units
<1> HIDE DEF v, w, n
<1>5. SumTo(w, n + 1) = SumTo(v, n) + w[n + 1]
  <2>1. n \in Nat BY <1>1
  <2> QED BY <2>1, <1>2, SumSteps
<1> QED BY <1>3, <1>4, <1>5 DEF q

(* What lists that agree so far flatten to agrees. *)
LEMMA FlattensAgree ==
    ASSUME NEW s, NEW f, NEW m \in Nat, IsFlatten(s, f, m), NEW t, NEW g, NEW n \in Nat, IsFlatten(t, g, n), m <= n,
           \A i \in 1..m : s[i] = t[i]
    PROVE  \A i \in 1..m : f[i] = g[i]
<1>1. \A i \in 1..m : f[i] = IF i = 1 THEN s[i] ELSE f[i - 1] \o s[i] BY DEF IsFlatten
<1>2. \A i \in 1..n : g[i] = IF i = 1 THEN t[i] ELSE g[i - 1] \o t[i] BY DEF IsFlatten
<1> DEFINE B == {i \in 1..m : f[i] # g[i]}
<1> SUFFICES ASSUME B # {} PROVE FALSE OBVIOUS
<1>3. PICK k \in B : \A y \in B : k <= y
  <2>1. B \subseteq Nat OBVIOUS
  <2> HIDE DEF B
  <2> QED BY <2>1, LeastNatural
<1>4. k \in 1..m /\ f[k] # g[k] /\ k \in Nat /\ k \in 1..n BY <1>3
<1>5. s[k] = t[k] BY <1>4
<1>6. CASE k = 1 BY <1>1, <1>2, <1>4, <1>5, <1>6
<1>7. CASE k # 1 BY <1>1, <1>2, <1>3, <1>4, <1>5, <1>7
<1> QED BY <1>6, <1>7

(* FlattenSeq is the last value of that function. *)
LEMMA FlattenIs ==
    ASSUME NEW s, NEW n \in Nat, n > 0, Len(s) = n
    PROVE  \E f : IsFlatten(s, f, n) /\ FlattenSeq(s) = f[n]
<1> DEFINE F == CHOOSE f : IsFlatten(s, f, n)
<1>1. IsFlatten(s, F, n) BY FlattenExists
<1>2. ~ (Len(s) = 0) OBVIOUS
<1>3. FlattenSeq(s) = F[n] BY <1>2 DEF FlattenSeq, IsFlatten
<1> QED BY <1>1, <1>3, Zenon

(* Flattening one part more appends it. *)
LEMMA FlattenStep ==
    ASSUME NEW s, NEW t, NEW n \in Nat, n > 0, Len(s) = n, Len(t) = n + 1, \A i \in 1..n : s[i] = t[i]
    PROVE  FlattenSeq(t) = FlattenSeq(s) \o t[n + 1]
<1>4. PICK f : IsFlatten(s, f, n) /\ FlattenSeq(s) = f[n] BY FlattenIs
<1>5. n + 1 \in Nat /\ n + 1 > 0 /\ n <= n + 1 /\ n \in 1..n OBVIOUS
<1>6. PICK g : IsFlatten(t, g, n + 1) /\ FlattenSeq(t) = g[n + 1] BY <1>5, FlattenIs
<1>7. \A i \in 1..n : f[i] = g[i] BY <1>4, <1>5, <1>6, FlattensAgree
<1>8. g[n + 1] = g[n] \o t[n + 1]
  <2>1. \A i \in 1..(n + 1) : g[i] = IF i = 1 THEN t[i] ELSE g[i - 1] \o t[i] BY <1>6 DEF IsFlatten
  <2>2. n + 1 \in 1..(n + 1) /\ n + 1 # 1 /\ n + 1 - 1 = n OBVIOUS
  <2>3. PICK j : j = n + 1 OBVIOUS
  <2>4. j \in 1..(n + 1) /\ j # 1 /\ j - 1 = n BY <2>2, <2>3
  <2>5. g[j] = g[j - 1] \o t[j] BY <2>1, <2>4, Zenon
  <2> QED BY <2>3, <2>4, <2>5, Zenon
<1> QED BY <1>4, <1>5, <1>6, <1>7, <1>8

(* Flattening one part gives it. *)
LEMMA FlattenFirst == ASSUME NEW s, Len(s) = 1 PROVE FlattenSeq(s) = s[1]
<1>1. PICK f : IsFlatten(s, f, 1) /\ FlattenSeq(s) = f[1] BY FlattenIs
<1>2. \A i \in 1..1 : f[i] = IF i = 1 THEN s[i] ELSE f[i - 1] \o s[i] BY <1>1 DEF IsFlatten
<1>3. 1 \in 1..1 OBVIOUS
<1> QED BY <1>1, <1>2, <1>3

(* A byte of a frame. *)
FrameBytes == Nat \X Nat

(* n bytes of frame i behind the first from. *)
Bytes(i, from, n) == [k \in 1..n |-> <<i, from + k>>]

(* What a frame gives the pipeline. *)
DataPart(s, i) == [k \in 1..(IF Dispatch(s[i]) = "open" THEN s[i].len ELSE 0) |-> <<i, k>>]

(* Such a stretch has n bytes. *)
LEMMA BytesAre ==
    ASSUME NEW i \in Nat, NEW from \in Nat, NEW n \in Nat
    PROVE  Bytes(i, from, n) \in Seq(FrameBytes) /\ Len(Bytes(i, from, n)) = n
           /\ \A k \in 1..n : Bytes(i, from, n)[k] = <<i, from + k>>
<1>1. \A k \in 1..n : <<i, from + k>> \in FrameBytes BY DEF FrameBytes
<1>2. [k \in 1..n |-> <<i, from + k>>] \in Seq(FrameBytes) BY <1>1
<1>3. Len([k \in 1..n |-> <<i, from + k>>]) = n OBVIOUS
<1> QED BY <1>2, <1>3 DEF Bytes

(* The stretch of m bytes and the one of n behind it are one. *)
Joined(i, d, m, n) == Bytes(i, d, m) \o Bytes(i, d + m, n) = Bytes(i, d, m + n)

(* It holds of every two stretches that meet. *)
LEMMA BytesJoin ==
    ASSUME NEW i \in Nat, NEW d \in Nat, NEW m \in Nat, NEW n \in Nat
    PROVE  Joined(i, d, m, n)
<1> DEFINE a == Bytes(i, d, m)  b == Bytes(i, d + m, n)  c == Bytes(i, d, m + n)
<1>0. d + m \in Nat /\ m + n \in Nat OBVIOUS
<1>1. a \in Seq(FrameBytes) /\ Len(a) = m /\ \A k \in 1..m : a[k] = <<i, d + k>> BY BytesAre
<1>2. b \in Seq(FrameBytes) /\ Len(b) = n /\ \A k \in 1..n : b[k] = <<i, d + m + k>> BY <1>0, BytesAre
<1>3. c \in Seq(FrameBytes) /\ Len(c) = m + n /\ \A k \in 1..(m + n) : c[k] = <<i, d + k>> BY <1>0, BytesAre
<1> HIDE DEF a, b, c
<1>4. a \o b \in Seq(FrameBytes) /\ Len(a \o b) = m + n BY <1>1, <1>2
<1>5. \A k \in 1..(m + n) : (a \o b)[k] = c[k]
  <2> SUFFICES ASSUME NEW k \in 1..(m + n) PROVE (a \o b)[k] = c[k] OBVIOUS
  <2>0. k \in Nat /\ (k <= m \/ k > m) OBVIOUS
  <2>1. CASE k <= m
    <3>1. (a \o b)[k] = a[k] BY <2>1, <1>1, <1>2
    <3>2. k \in 1..m BY <2>1
    <3> QED BY <3>1, <3>2, <1>1, <1>3
  <2>2. CASE k > m
    <3>0. \A j \in 1..(Len(a) + Len(b)) : (a \o b)[j] = IF j <= Len(a) THEN a[j] ELSE b[j - Len(a)]
      BY <1>1, <1>2, ConcatProperties
    <3>1. (a \o b)[k] = b[k - m] BY <2>2, <3>0, <1>1, <1>2
    <3>2. k - m \in 1..n /\ d + m + (k - m) = d + k BY <2>2
    <3> QED BY <3>1, <3>2, <1>2, <1>3
  <2> QED BY <2>0, <2>1, <2>2
<1>6. a \o b = c BY <1>3, <1>4, <1>5, SeqEqual
<1> QED BY <1>6 DEF a, b, c, Joined

(* One frame more appends its bytes to those of the frames before. *)
LEMMA DataSteps ==
    ASSUME NEW s, NEW n \in Nat, DataTo(s, n) \in Seq(FrameBytes), DataPart(s, n + 1) \in Seq(FrameBytes)
    PROVE  DataTo(s, 0) = <<>> /\ DataTo(s, n + 1) = DataTo(s, n) \o DataPart(s, n + 1)
<1> DEFINE w(k) == [i \in 1..k |-> DataPart(s, i)]
<1>1. DataTo(s, 0) = FlattenSeq(w(0)) /\ DataTo(s, n) = FlattenSeq(w(n)) /\ DataTo(s, n + 1) = FlattenSeq(w(n + 1))
  BY Zenon DEF DataTo, DataPart
<1>2. DataTo(s, 0) = <<>> BY <1>1 DEF FlattenSeq
<1>3. Len(w(n)) = n /\ Len(w(n + 1)) = n + 1 OBVIOUS
<1>4. \A i \in 1..n : w(n)[i] = w(n + 1)[i] OBVIOUS
<1>5. w(n + 1)[n + 1] = DataPart(s, n + 1) OBVIOUS
<1>6. CASE n > 0
  <2> HIDE DEF w
  <2>1. FlattenSeq(w(n + 1)) = FlattenSeq(w(n)) \o w(n + 1)[n + 1] BY <1>3, <1>4, <1>6, FlattenStep
  <2> QED BY <1>1, <1>2, <1>5, <2>1
<1>7. CASE n = 0 BY <1>1, <1>2, <1>3, <1>5, <1>7, FlattenFirst
<1> QED BY <1>6, <1>7

-----------------------------------------------------------------------------
(* The reader of a framed flow. *)

(* Where the reader is in its frames: nothing is read that has not arrived,  *)
(* no frame behind the last one is begun, and the bytes in ready_payload are *)
(* the end of the frame read last.                                           *)
CountInv ==
    /\ Sized(script)
    /\ \A i \in 1..Len(script) : script[i].type \in FlowFrameType /\ script[i].direction \in FlowFrameDirection
    /\ reader \in [frame : Nat, header : Nat, payload : Nat, left : Nat]
    /\ input \in {"open", "closed", "error"} /\ arrived \in Nat /\ arrived <= Units(script)
    /\ reader.frame <= Len(script) /\ reader.header <= HeaderLen
    /\ reader.header < HeaderLen => reader.payload = 0
    /\ reader.header > 0 => reader.frame < Len(script) /\ reader.payload <= Current.len
    /\ Taken <= arrived
    /\ reader.left > 0 => reader.frame > 0 /\ reader.left <= script[reader.frame].len

(* The bytes handed on are the data read, less those in ready_payload. *)
DataInv ==
    /\ delivered \in Seq(FrameBytes)
    /\ FramedBytesOnce

(* The inductive invariant of the reader. *)
ReadInv == CountInv /\ FramedEndGenuine /\ DataInv

(* Min of two naturals. *)
LEMMA MinOfTwo ==
    ASSUME NEW a \in Nat, NEW b \in Nat
    PROVE  Min({a, b}) \in Nat /\ Min({a, b}) <= a /\ Min({a, b}) <= b /\ Min({a, b}) \in {a, b}
<1> DEFINE S == {a, b}
<1>1. S \subseteq Nat /\ S # {} /\ a \in S /\ b \in S OBVIOUS
<1> HIDE DEF S
<1>2. Min(S) \in S /\ \A x \in S : Min(S) <= x BY <1>1, MinOfNaturals
<1> QED BY <1>1, <1>2 DEF S

(* The types that follow. *)
LEMMA ReadTypes ==
    ASSUME CountInv
    PROVE  /\ Len(script) \in Nat /\ Units(script) \in Nat /\ HeaderLen \in Nat /\ HeaderLen > 0
           /\ UnitsTo(script, reader.frame) \in Nat /\ Taken \in Nat
           /\ \A i \in 1..Len(script) : script[i].len \in Nat
           /\ reader.frame \in Nat /\ reader.header \in Nat /\ reader.payload \in Nat /\ reader.left \in Nat
           /\ Taken = UnitsTo(script, reader.frame) + reader.header + reader.payload
<1>1. Sized(script) /\ reader \in [frame : Nat, header : Nat, payload : Nat, left : Nat] /\ reader.frame <= Len(script)
  BY DEF CountInv
<1>2. Len(script) \in Nat /\ \A i \in 1..Len(script) : script[i].len \in Nat BY <1>1, SizedAt
<1>3. reader.frame \in Nat /\ reader.header \in Nat /\ reader.payload \in Nat /\ reader.left \in Nat BY <1>1
<1>4. UnitsTo(script, reader.frame) \in Nat BY <1>1, <1>3, UnitsSteps
<1>5. Units(script) \in Nat BY <1>1, <1>2, UnitsSteps DEF Units
<1> QED BY <1>2, <1>3, <1>4, <1>5, FramedFlowAssumption DEF Taken

(* A reader that has a unit to read, or has read one of a header, is in a *)
(* frame of the script.                                                   *)
LEMMA FrameThere ==
    ASSUME CountInv, Taken < arrived \/ reader.header > 0
    PROVE  /\ reader.frame < Len(script) /\ Current.len \in Nat
           /\ UnitsTo(script, reader.frame + 1) = UnitsTo(script, reader.frame) + (HeaderLen + Current.len)
<1>1. reader.frame < Len(script) BY ReadTypes DEF CountInv, Units
<1>2. Sized(script) /\ reader.frame \in Nat /\ reader.frame <= Len(script) BY ReadTypes DEF CountInv
<1> QED BY <1>1, <1>2, UnitsSteps DEF Current

(* Steps that leave the reader alone. *)
LEMMA CountsKept ==
    ASSUME CountInv, script' = script, arrived' = arrived, input' \in {"open", "closed", "error"}, reader' = reader
    PROVE  CountInv'
<1>1. Units(script)' = Units(script) /\ Taken' = Taken /\ Current' = Current
  BY DEF Units, UnitsTo, Taken, Current
<1> QED BY <1>1 DEF CountInv

(* What is left of a length bounds what is added. *)
LEMMA Within == ASSUME NEW l \in Nat, NEW h \in Nat, NEW n \in Nat, n <= l - h PROVE h + n <= l
OBVIOUS

(* A read of header units (poll_read_header). *)
LEMMA HeaderCounts ==
    ASSUME CountInv, NEW n, Reading, InHeader, n \in 1..Min({HeaderLen - reader.header, Available}),
           reader' = [reader EXCEPT !.header = @ + n], Progress
    PROVE  CountInv'
<1>1. /\ reader.header < HeaderLen /\ reader.payload = 0 /\ Taken <= arrived /\ arrived \in Nat
      /\ reader \in [frame : Nat, header : Nat, payload : Nat, left : Nat] /\ reader.left = 0
  BY DEF CountInv, InHeader, Reading
<1> DEFINE a == HeaderLen - reader.header  b == Available
<1>2. a \in Nat /\ b \in Nat /\ b = arrived - Taken BY <1>1, ReadTypes DEF Available
<1>3. n \in 1..Min({a, b}) OBVIOUS
<1> HIDE DEF a, b
<1>4. n \in Nat /\ n >= 1 /\ n <= a /\ n <= b BY <1>2, <1>3, MinOfTwo
<1>5. Taken < arrived BY <1>1, <1>2, <1>4, ReadTypes
<1>6. reader.frame < Len(script) /\ Current.len \in Nat BY <1>5, FrameThere
<1>7. /\ reader'.frame = reader.frame /\ reader'.header = reader.header + n /\ reader'.payload = 0 /\ reader'.left = 0
      /\ reader' \in [frame : Nat, header : Nat, payload : Nat, left : Nat]
  BY <1>1, <1>4
<1>8. script' = script /\ arrived' = arrived /\ input' = input BY DEF Progress
<1>9. Units(script)' = Units(script) /\ Current' = Current /\ UnitsTo(script, reader.frame)' = UnitsTo(script, reader.frame)
  BY <1>7, <1>8 DEF Units, UnitsTo, Current
<1>10. Taken' <= arrived'
  <2>1. Taken' = UnitsTo(script, reader.frame) + (reader.header + n) + 0 BY <1>7, <1>9 DEF Taken
  <2>2. UnitsTo(script, reader.frame) \in Nat /\ reader.header \in Nat /\ Taken \in Nat
        /\ Taken = UnitsTo(script, reader.frame) + reader.header + 0
    BY <1>1, ReadTypes
  <2>3. Taken' = Taken + n BY <1>4, <2>1, <2>2
  <2>4. Taken + n <= arrived BY <1>1, <1>2, <1>4, <2>2
  <2> QED BY <1>8, <2>3, <2>4
<1>11. reader'.header <= HeaderLen BY <1>4, <1>7, ReadTypes, Within DEF a
<1> QED BY <1>6, <1>7, <1>8, <1>9, <1>10, <1>11 DEF CountInv

(* A read of payload units (poll_read_payload). *)
LEMMA PayloadCounts ==
    ASSUME CountInv, NEW n, Reading, ~InHeader, reader.payload < Current.len,
           n \in 1..Min({Current.len - reader.payload, Available}), ReadPayload(n), Progress
    PROVE  CountInv'
<1>1. /\ reader.header = HeaderLen /\ reader.header > 0 /\ Taken <= arrived /\ arrived \in Nat
      /\ reader \in [frame : Nat, header : Nat, payload : Nat, left : Nat] /\ reader.left = 0
  BY ReadTypes DEF CountInv, InHeader, Reading
<1>2. reader.frame < Len(script) /\ Current.len \in Nat BY <1>1, FrameThere
<1> DEFINE a == Current.len - reader.payload  b == Available
<1>3. a \in Nat /\ b \in Nat /\ b = arrived - Taken
  <2>1. reader.payload \in Nat /\ Taken \in Nat BY ReadTypes
  <2>2. a \in Nat BY <1>2, <2>1
  <2>3. b = arrived - Taken BY DEF Available
  <2> QED BY <1>1, <2>1, <2>2, <2>3
<1>4. n \in 1..Min({a, b}) OBVIOUS
<1>5. n \in Nat /\ n <= a /\ n <= b BY <1>3, <1>4, MinOfTwo
<1>7. /\ reader'.frame = reader.frame /\ reader'.header = reader.header /\ reader'.payload = reader.payload + n
      /\ reader'.left = 0 /\ reader' \in [frame : Nat, header : Nat, payload : Nat, left : Nat]
  BY <1>1, <1>5 DEF ReadPayload
<1>8. script' = script /\ arrived' = arrived /\ input' = input BY DEF Progress
<1>9. Units(script)' = Units(script) /\ Current' = Current /\ UnitsTo(script, reader.frame)' = UnitsTo(script, reader.frame)
  BY <1>7, <1>8 DEF Units, UnitsTo, Current
<1>10. Taken' <= arrived'
  <2>1. Taken' = UnitsTo(script, reader.frame) + reader.header + (reader.payload + n) BY <1>7, <1>9 DEF Taken
  <2>2. UnitsTo(script, reader.frame) \in Nat /\ reader.header \in Nat /\ Taken \in Nat /\ reader.payload \in Nat
        /\ Taken = UnitsTo(script, reader.frame) + reader.header + reader.payload
    BY ReadTypes
  <2>3. Taken' = Taken + n BY <1>5, <2>1, <2>2
  <2>4. Taken + n <= arrived BY <1>1, <1>3, <1>5, <2>2
  <2> QED BY <1>8, <2>3, <2>4
<1>11. reader'.payload <= Current.len
  <2>1. reader.payload \in Nat BY ReadTypes
  <2>2. n <= Current.len - reader.payload BY <1>5
  <2>3. reader.payload + n <= Current.len BY <1>2, <1>5, <2>1, <2>2, Within
  <2> QED BY <1>7, <2>3
<1> QED BY <1>1, <1>2, <1>7, <1>8, <1>9, <1>10, <1>11 DEF CountInv

(* A frame that is complete is taken whole (poll_next_client_frame). *)
LEMMA NextFrame ==
    ASSUME CountInv, poll_next_client_frame
    PROVE  /\ CountInv' /\ reader.left = 0 /\ reader.frame + 1 \in 1..Len(script) /\ reader'.frame = reader.frame + 1
           /\ reader'.left = (IF Dispatch(Current) = "open" THEN Current.len ELSE 0) /\ Current.len \in Nat
           /\ input' = Dispatch(Current) /\ UNCHANGED <<script, delivered, arrived>>
<1>1. /\ reader.left = 0 /\ reader.header >= HeaderLen /\ reader.payload = Current.len
      /\ reader' = [NewReader EXCEPT !.frame = reader.frame + 1,
                                     !.left = IF Dispatch(Current) = "open" THEN Current.len ELSE 0]
      /\ input' = Dispatch(Current) /\ UNCHANGED <<script, arrived, hungUp, delivered>>
  BY ReadTypes DEF poll_next_client_frame, Reading, InHeader, EndInput
<1>2. reader.header = HeaderLen /\ reader.header > 0 /\ Taken <= arrived /\ arrived \in Nat
  BY <1>1, ReadTypes DEF CountInv
<1>3. /\ reader.frame < Len(script) /\ Current.len \in Nat
      /\ UnitsTo(script, reader.frame + 1) = UnitsTo(script, reader.frame) + (HeaderLen + Current.len)
  BY <1>2, FrameThere
<1> DEFINE left == IF Dispatch(Current) = "open" THEN Current.len ELSE 0
<1>4. left \in Nat /\ left <= Current.len BY <1>3
<1>5. /\ reader'.frame = reader.frame + 1 /\ reader'.header = 0 /\ reader'.payload = 0 /\ reader'.left = left
      /\ reader' = [frame |-> reader.frame + 1, header |-> 0, payload |-> 0, left |-> left]
  BY <1>1 DEF left, NewReader
<1>6. reader.frame + 1 \in 1..Len(script) /\ reader.frame + 1 \in Nat
  <2>1. reader.frame < Len(script) /\ reader.frame \in Nat /\ Len(script) \in Nat BY <1>3, ReadTypes
  <2> QED BY <2>1
<1>7. reader' \in [frame : Nat, header : Nat, payload : Nat, left : Nat]
  <2> HIDE DEF left
  <2> QED BY <1>4, <1>5, <1>6
<1>8. Units(script)' = Units(script) /\ UnitsTo(script, reader.frame)' = UnitsTo(script, reader.frame + 1)
  BY <1>1, <1>5 DEF Units, UnitsTo
<1>9. Taken' <= arrived' BY <1>1, <1>2, <1>3, <1>5, <1>8, ReadTypes DEF Taken
<1>10. Dispatch(Current) \in {"open", "closed", "error"} BY DEF Dispatch
<1>11. script'[reader'.frame] = Current BY <1>1, <1>5 DEF Current
<1> HIDE DEF left
<1>12. reader'.left > 0 => reader'.frame > 0 /\ reader'.left <= script'[reader'.frame].len BY <1>4, <1>5, <1>6, <1>11
<1>13. CountInv'
  <2>1. reader'.frame <= Len(script') /\ reader'.header <= HeaderLen /\ ~ (reader'.header > 0)
    BY <1>1, <1>5, <1>6, ReadTypes
  <2>2. input' \in {"open", "closed", "error"} BY <1>1, <1>10
  <2> QED BY <1>1, <1>2, <1>5, <1>7, <1>8, <1>9, <1>12, <2>1, <2>2 DEF CountInv
<1> QED BY <1>1, <1>3, <1>5, <1>6, <1>13 DEF left

(* The bytes in ready_payload. *)
Rest == Bytes(reader.frame, script[reader.frame].len - reader.left, reader.left)

(* FramedBytesOnce in these words. *)
LEMMA OnceMeans == FramedBytesOnce <=> delivered \o Rest = DataTo(script, reader.frame)
BY DEF FramedBytesOnce, Rest, Bytes

(* An empty stretch. *)
LEMMA NoRest == ASSUME NEW i, NEW d PROVE Bytes(i, d, 0) = <<>>
BY DEF Bytes

(* Concatenation of frame bytes. *)
LEMMA CatAssociated ==
    \A p, q, r \in Seq(FrameBytes) : (p \o q) \o r = p \o (q \o r) /\ p \o q \in Seq(FrameBytes)
BY ConcatAssociative, ConcatProperties

(* A copy moves the front of ready_payload to the pipeline *)
(* (copy_ready_payload).                                   *)
LEMMA CopyReady ==
    ASSUME CountInv, DataInv, copy_ready_payload
    PROVE  CountInv' /\ DataInv' /\ reader'.frame = reader.frame /\ UNCHANGED <<script, arrived, hungUp, input>>
<1> DEFINE i == reader.frame  len == script[i].len  left == reader.left  n == Min({left, ReadBuffer})
           from == len - left
<1>1. /\ left > 0 /\ delivered' = delivered \o [k \in 1..n |-> <<i, from + k>>]
      /\ reader' = [reader EXCEPT !.left = @ - n] /\ UNCHANGED <<script, arrived, hungUp, input>>
  BY DEF copy_ready_payload
<1>2. /\ i > 0 /\ left <= len /\ i <= Len(script) /\ reader \in [frame : Nat, header : Nat, payload : Nat, left : Nat]
      /\ input \in {"open", "closed", "error"}
  BY <1>1 DEF CountInv
<1>3. i \in Nat /\ left \in Nat /\ Len(script) \in Nat BY ReadTypes
<1>4. len \in Nat /\ from \in Nat BY <1>2, <1>3, ReadTypes
<1>5. n \in Nat /\ n <= left BY <1>3, MinOfTwo, FramedFlowAssumption
<1> HIDE DEF n
<1>6. /\ reader'.frame = i /\ reader'.header = reader.header /\ reader'.payload = reader.payload /\ reader'.left = left - n
      /\ reader' \in [frame : Nat, header : Nat, payload : Nat, left : Nat]
  <2>1. left - n \in Nat BY <1>3, <1>5
  <2>2. reader' = [reader EXCEPT !.left = left - n] BY <1>1
  <2> QED BY <1>2, <2>1, <2>2
<1>7. CountInv'
  <2>1. Units(script)' = Units(script) /\ Taken' = Taken /\ Current' = Current
    BY <1>1, <1>6 DEF Units, UnitsTo, Taken, Current
  <2>2. reader'.left > 0 => reader'.frame > 0 /\ reader'.left <= script'[reader'.frame].len
    <3>1. script'[reader'.frame].len = len BY <1>1, <1>6
    <3> HIDE DEF len
    <3> QED BY <1>2, <1>3, <1>4, <1>5, <1>6, <3>1
  <2> QED BY <1>1, <1>6, <2>1, <2>2 DEF CountInv
<1>8. DataInv'
  <2> DEFINE a == Bytes(i, from, n)  b == Bytes(i, from + n, left - n)
  <2> HIDE DEF from, left
  <2>0. left - n \in Nat /\ from + n \in Nat BY <1>3, <1>4, <1>5
  <2>1. a \in Seq(FrameBytes) /\ b \in Seq(FrameBytes) BY <1>3, <1>4, <1>5, <2>0, BytesAre
  <2>2. a \o b = Bytes(i, from, left)
    <3>1. from \in Nat /\ i \in Nat /\ n \in Nat /\ left - n \in Nat /\ n + (left - n) = left
      BY <1>3, <1>4, <1>5, <2>0
    <3>2. Joined(i, from, n, left - n) BY <3>1, BytesJoin
    <3>3. a \o b = Bytes(i, from, n + (left - n)) BY <3>2 DEF Joined
    <3> QED BY <3>1, <3>3
  <2>3. delivered' = delivered \o a BY <1>1 DEF Bytes
  <2>4. Rest' = b
    <3>1. Rest' = Bytes(i, len - (left - n), left - n) BY <1>1, <1>6 DEF Rest
    <3>2. len - (left - n) = from + n
      <4> HIDE DEF len
      <4> QED BY <1>3, <1>4, <1>5 DEF from
    <3> QED BY <3>1, <3>2
  <2>5. Rest = Bytes(i, from, left) BY DEF Rest, from, left
  <2>6. delivered \in Seq(FrameBytes) /\ delivered \o Rest = DataTo(script, reader.frame) BY OnceMeans DEF DataInv
  <2> HIDE DEF a, b
  <2>7. \A p, q, r \in Seq(FrameBytes) : (p \o q) \o r = p \o (q \o r) /\ p \o q \in Seq(FrameBytes) BY CatAssociated
  <2>8. delivered' \o Rest' = DataTo(script, reader.frame)
    <3>1. delivered' \o Rest' = (delivered \o a) \o b BY <2>3, <2>4
    <3>2. (delivered \o a) \o b = delivered \o (a \o b) BY <2>1, <2>6, <2>7
    <3>3. a \o b = Rest BY <2>2, <2>5
    <3> QED BY <3>1, <3>2, <3>3, <2>6
  <2>9. DataTo(script, reader.frame)' = DataTo(script, reader.frame) BY <1>1, <1>6 DEF DataTo
  <2>10. FramedBytesOnce' <=> delivered' \o Rest' = DataTo(script, reader.frame)' BY DEF FramedBytesOnce, Rest, Bytes
  <2> QED BY <2>1, <2>3, <2>6, <2>7, <2>8, <2>9, <2>10 DEF DataInv
<1> QED BY <1>1, <1>6, <1>7, <1>8

(* Steps that move no byte to the pipeline. *)
LEMMA DataKept ==
    ASSUME DataInv, UNCHANGED <<script, delivered>>, reader'.frame = reader.frame, reader'.left = reader.left
    PROVE  DataInv'
BY DEF DataInv, FramedBytesOnce, DataTo

(* A frame's bytes are the next ones. *)
LEMMA NextData == ASSUME CountInv, DataInv, poll_next_client_frame PROVE DataInv'
<1> DEFINE i == reader.frame + 1  f == script[i]  open == Dispatch(f) = "open"  n == IF open THEN f.len ELSE 0
<1>1. /\ reader.left = 0 /\ i \in 1..Len(script) /\ reader'.frame = i /\ reader'.left = n /\ f.len \in Nat
      /\ script' = script /\ delivered' = delivered
  BY NextFrame DEF Current
<1>2. i \in Nat /\ n \in Nat /\ reader.frame \in Nat BY <1>1, ReadTypes
<1>3. delivered = DataTo(script, reader.frame) /\ delivered \in Seq(FrameBytes)
  <2>1. delivered \o Rest = DataTo(script, reader.frame) /\ delivered \in Seq(FrameBytes) BY OnceMeans DEF DataInv
  <2>2. Rest = <<>> BY <1>1, NoRest DEF Rest
  <2>3. \A p \in Seq(FrameBytes) : p \o <<>> = p OBVIOUS
  <2> QED BY <2>1, <2>2, <2>3
<1>4. DataPart(script, i) = Bytes(i, 0, n) BY DEF DataPart, Bytes
<1>5. Rest' = Bytes(i, 0, n)
  <2>1. Rest' = Bytes(i, f.len - n, n) BY <1>1 DEF Rest
  <2>2. CASE open BY <1>1, <2>1, <2>2
  <2>3. CASE ~open
    <3>1. n = 0 BY <2>3
    <3> QED BY <2>1, <3>1, NoRest
  <2> QED BY <2>2, <2>3
<1>6. Bytes(i, 0, n) \in Seq(FrameBytes) BY <1>2, BytesAre
<1> HIDE DEF n, f
<1>7. DataTo(script, i) = DataTo(script, reader.frame) \o DataPart(script, i)
  BY <1>2, <1>3, <1>4, <1>6, DataSteps
<1>8. DataTo(script, reader.frame)' = DataTo(script, i) BY <1>1 DEF DataTo
<1>9. FramedBytesOnce' <=> delivered' \o Rest' = DataTo(script, reader.frame)' BY DEF FramedBytesOnce, Rest, Bytes
<1> QED BY <1>1, <1>3, <1>4, <1>5, <1>7, <1>8, <1>9 DEF DataInv

(* An end once reported stays genuine: a client that hung up sends no more. *)
LEMMA EndKept ==
    ASSUME FramedEndGenuine, script' = script, reader'.frame = reader.frame, input' = "closed" => input = "closed",
           hungUp => hungUp' /\ arrived' = arrived
    PROVE  FramedEndGenuine'
<1>1. UnitsTo(script, reader.frame)' = UnitsTo(script, reader.frame) BY DEF UnitsTo
<1> QED BY <1>1 DEF FramedEndGenuine

(* Every step of the reader keeps its invariant. *)
LEMMA ReadStep == ASSUME ReadInv, FramedRead PROVE ReadInv'
<1>0. CountInv /\ FramedEndGenuine /\ DataInv BY DEF ReadInv
<1>1. ASSUME NEW n, poll_read_header(n) PROVE ReadInv'
  <2>1. Reading /\ InHeader BY <1>1 DEF poll_read_header
  <2>2. CASE n \in 1..Min({HeaderLen - reader.header, Available}) /\ reader' = [reader EXCEPT !.header = @ + n] /\ Progress
    BY <1>0, <2>1, <2>2, HeaderCounts, EndKept, DataKept DEF CountInv, Progress, ReadInv
  <2>3. CASE /\ hungUp /\ Available = 0 /\ EndInput(IF reader.header = 0 THEN "closed" ELSE "error") /\ UNCHANGED reader
    BY <1>0, <2>3, CountsKept, DataKept, ReadTypes DEF EndInput, UnitsTo, CountInv, Available, FramedEndGenuine,
       ReadInv
  <2> QED BY <1>1, <2>2, <2>3 DEF poll_read_header
<1>2. ASSUME EndInput("error"), UNCHANGED reader PROVE ReadInv'
  BY <1>0, <1>2, CountsKept, DataKept DEF EndInput, FramedEndGenuine, ReadInv
<1>3. ASSUME BadHeader PROVE ReadInv' BY <1>2, <1>3 DEF BadHeader
<1>4. ASSUME NEW n, poll_read_payload(n) PROVE ReadInv'
  <2>1. Reading /\ ~InHeader /\ reader.payload < Current.len BY <1>4 DEF poll_read_payload
  <2>2. CASE n \in 1..Min({Current.len - reader.payload, Available}) /\ ReadPayload(n) /\ Progress
    BY <1>0, <2>1, <2>2, PayloadCounts, EndKept, DataKept DEF CountInv, ReadPayload, Progress, ReadInv
  <2> QED BY <1>2, <1>4, <2>2 DEF poll_read_payload
<1>5. ASSUME poll_next_client_frame PROVE ReadInv'
  <2>1. CountInv' /\ DataInv' BY <1>0, <1>5, NextFrame, NextData
  <2>2. /\ reader'.frame = reader.frame + 1 /\ reader.frame \in Nat /\ script' = script /\ input' = Dispatch(Current)
    BY <1>0, <1>5, NextFrame, ReadTypes
  <2>3. script'[reader'.frame] = Current BY <2>2 DEF Current
  <2>4. Dispatch(Current) = "closed" => Current.type = "Close" BY DEF Dispatch
  <2>5. FramedEndGenuine'
    <3>1. reader'.frame > 0 BY <2>2
    <3>2. Dispatch(script'[reader'.frame]) = Dispatch(Current) BY <2>3
    <3> HIDE DEF Dispatch, Current
    <3> QED BY <2>2, <2>3, <2>4, <3>1, <3>2 DEF FramedEndGenuine
  <2> QED BY <2>1, <2>5 DEF ReadInv
<1>6. ASSUME copy_ready_payload PROVE ReadInv' BY <1>0, <1>6, CopyReady, EndKept DEF ReadInv
<1> QED BY <1>1, <1>3, <1>4, <1>5, <1>6 DEF FramedRead

(* Steps of the writer keep it. *)
LEMMA ReadRests == ASSUME ReadInv, UNCHANGED readVars PROVE ReadInv'
<1>1. UNCHANGED <<script, arrived, hungUp, reader, input, delivered>> BY DEF readVars
<1>2. CountInv' BY <1>1, CountsKept DEF ReadInv, CountInv
<1>3. DataInv' BY <1>1, DataKept DEF ReadInv
<1>4. FramedEndGenuine' BY <1>1, EndKept DEF ReadInv
<1> QED BY <1>2, <1>3, <1>4 DEF ReadInv

(* It holds initially. *)
LEMMA ReadStarts == ASSUME FramedInit PROVE ReadInv
<1>1. /\ script \in Scripts /\ arrived = 0 /\ input = "open" /\ delivered = <<>>
      /\ reader = [frame |-> 0, header |-> 0, payload |-> 0, left |-> 0]
  BY DEF FramedInit, NewReader
<1>2. Sized(script) BY <1>1, FramedFlowAssumption DEF Sized
<1>3. Len(script) \in Nat /\ \A i \in 1..Len(script) : script[i] \in Range(script) BY <1>2, SizedAt
<1>4. \A i \in 1..Len(script) : script[i].type \in FlowFrameType /\ script[i].direction \in FlowFrameDirection
  BY <1>1, <1>3, FramedFlowAssumption DEF FlowFrameType, FlowFrameDirection
<1>5. UnitsTo(script, 0) = 0 /\ Units(script) \in Nat BY <1>2, <1>3, UnitsSteps DEF Units
<1>6. Taken = 0 BY <1>1, <1>5 DEF Taken
<1>7. CountInv BY <1>1, <1>2, <1>3, <1>4, <1>5, <1>6, FramedFlowAssumption DEF CountInv
<1>8. DataTo(script, 0) = <<>> BY DEF DataTo, DataPart, FlattenSeq
<1>9. Rest = <<>> BY <1>1, NoRest DEF Rest
<1>10. DataInv BY <1>1, <1>8, <1>9, OnceMeans DEF DataInv
<1>11. FramedEndGenuine BY <1>1 DEF FramedEndGenuine
<1> QED BY <1>7, <1>10, <1>11 DEF ReadInv

-----------------------------------------------------------------------------
(* The writer of a framed flow. *)

(* What the caller of the writer can see. *)
Outputs == {"idle", "writing", "closing", "shut", "abandoned", "error"}

(* The fields of FrameWriteState. *)
WriterFields == [pending : Nat, close : BOOLEAN, offset : Nat, consumed : Nat, shutdown : BOOLEAN]

(* A frame on the wire. *)
WireFrames == [len : Nat, close : BOOLEAN]

(* A pending frame is a header and the bytes it consumed, which the caller *)
(* still has in its plan; no frame follows a close frame.                  *)
WriteInv ==
    /\ plan \in Seq(Nat) /\ writer \in WriterFields /\ output \in Outputs
    /\ wire \in Seq(WireFrames) /\ sent \in Nat /\ sent = Units(wire) + writer.offset
    /\ writer.offset <= writer.pending
    /\ writer.pending = 0 => writer.consumed = 0
    /\ writer.pending > 0 => writer.pending = HeaderLen + writer.consumed
    /\ output = "idle" => writer.pending = 0
    /\ output = "writing" => ~writer.close /\ plan # <<>> /\ writer.consumed <= Head(plan)
    /\ output = "closing" => writer.close
    /\ \A i \in 1..Len(wire) : wire[i].close => i = Len(wire) /\ output = "shut"
    /\ output = "shut" => wire # <<>> /\ wire[Len(wire)].close

(* The frames on the wire have a size. *)
LEMMA WireUnits == ASSUME wire \in Seq(WireFrames) PROVE Units(wire) \in Nat /\ Len(wire) \in Nat
<1>1. \A S : \A s \in Seq(S) : Len(s) \in Nat /\ s \in Seq(Range(s)) /\ \A x \in Range(s) : x \in S
  BY DEF Range
<1>2. Len(wire) \in Nat /\ wire \in Seq(Range(wire)) /\ \A x \in Range(wire) : x \in WireFrames BY <1>1, Zenon
<1>3. Sized(wire) BY <1>2 DEF Sized, WireFrames
<1>4. Len(wire) <= Len(wire) BY <1>2
<1> QED BY <1>2, <1>3, <1>4, UnitsSteps DEF Units

(* Steps that only tell the caller something. *)
LEMMA WriterRests == ASSUME WriteInv, UNCHANGED <<plan, writer, wire, sent>>, output' \in Outputs,
                            output' = output \/ (output # "shut" /\ output' \in {"abandoned", "error"})
                     PROVE WriteInv'
<1>1. Units(wire)' = Units(wire) BY DEF Units, UnitsTo
<1>2. output = "shut" => output' = "shut" OBVIOUS
<1>3. output' \in {"idle", "writing", "closing", "shut"} => output = output' OBVIOUS
<1> QED BY <1>1, <1>2, <1>3 DEF WriteInv

(* A write queues part of the caller's buffer. *)
LEMMA QueueWrite == ASSUME WriteInv, poll_write PROVE WriteInv'
<1> DEFINE n == Min({Head(plan), WriteCap})
<1>1. /\ output = "idle" /\ plan # <<>> /\ output' = "writing" /\ UNCHANGED <<plan, wire, sent>>
      /\ writer' = [writer EXCEPT !.pending = HeaderLen + n, !.close = FALSE, !.offset = 0, !.consumed = n]
  BY DEF poll_write, Queue
<1>2. plan \in Seq(Nat) /\ writer \in WriterFields /\ writer.pending = 0 /\ writer.offset <= writer.pending
      /\ wire \in Seq(WireFrames) /\ sent = Units(wire) + writer.offset /\ sent \in Nat
      /\ \A i \in 1..Len(wire) : ~wire[i].close
  BY <1>1 DEF WriteInv
<1>3. Head(plan) \in Nat BY <1>1, <1>2
<1>4. n \in Nat /\ n <= Head(plan) BY <1>3, MinOfTwo, FramedFlowAssumption
<1> HIDE DEF n
<1>5. writer.offset = 0 BY <1>2 DEF WriterFields
<1>6. HeaderLen \in Nat /\ HeaderLen > 0 BY FramedFlowAssumption
<1>7. /\ writer'.pending = HeaderLen + n /\ writer'.close = FALSE /\ writer'.offset = 0 /\ writer'.consumed = n
      /\ writer' \in WriterFields
  <2>1. HeaderLen + n \in Nat BY <1>4, <1>6
  <2>2. writer' = [writer EXCEPT !.pending = HeaderLen + n, !.close = FALSE, !.offset = 0, !.consumed = n] BY <1>1
  <2> QED BY <1>2, <1>4, <2>1, <2>2 DEF WriterFields
<1>8. Units(wire)' = Units(wire) BY <1>1 DEF Units, UnitsTo
<1>9. plan' # <<>> /\ n <= Head(plan') /\ plan' \in Seq(Nat) /\ wire' \in Seq(WireFrames) /\ sent' = Units(wire)' + 0 /\ sent' \in Nat
  BY <1>1, <1>2, <1>4, <1>5, <1>8
<1>10. \A i \in 1..Len(wire') : ~wire'[i].close BY <1>1, <1>2
<1>11. writer'.offset <= writer'.pending /\ writer'.pending > 0 BY <1>4, <1>6, <1>7
<1> QED BY <1>1, <1>7, <1>9, <1>10, <1>11 DEF WriteInv, Outputs

(* A shutdown queues the close frame, or fails behind a pending frame. *)
LEMMA QueueClose == ASSUME WriteInv, poll_shutdown PROVE WriteInv'
<1>1. CASE Busy
  BY <1>1, WriterRests DEF poll_shutdown, Outputs
<1>2. CASE ~Busy
  <2>1. /\ output \in {"idle", "abandoned"} /\ output' = "closing" /\ UNCHANGED <<plan, wire, sent>>
        /\ writer' = [writer EXCEPT !.pending = HeaderLen, !.close = TRUE, !.offset = 0, !.shutdown = TRUE]
    BY <1>2 DEF poll_shutdown
  <2>2. plan \in Seq(Nat) /\ writer \in WriterFields /\ writer.offset <= writer.pending
        /\ wire \in Seq(WireFrames) /\ sent = Units(wire) + writer.offset /\ sent \in Nat
        /\ (writer.pending = 0 => writer.consumed = 0) /\ \A i \in 1..Len(wire) : ~wire[i].close
    BY <2>1 DEF WriteInv
  <2>3. writer.pending = 0 /\ writer.offset = 0 /\ writer.consumed = 0 BY <1>2, <2>2 DEF Busy, WriterFields
  <2>4. HeaderLen \in Nat /\ HeaderLen > 0 BY FramedFlowAssumption
  <2>5. /\ writer'.pending = HeaderLen /\ writer'.offset = 0 /\ writer'.consumed = 0 /\ writer' \in WriterFields
        /\ writer'.close
    BY <2>1, <2>2, <2>3, <2>4 DEF WriterFields
  <2>6. Units(wire)' = Units(wire) BY <2>1 DEF Units, UnitsTo
  <2>7. plan' \in Seq(Nat) /\ wire' \in Seq(WireFrames) /\ sent' = Units(wire)' + 0 /\ sent' \in Nat
    BY <2>1, <2>2, <2>3, <2>6
  <2>8. \A i \in 1..Len(wire') : ~wire'[i].close BY <2>1, <2>2
  <2>9. writer'.offset <= writer'.pending /\ writer'.pending > 0 /\ writer'.pending = HeaderLen + writer'.consumed
    BY <2>4, <2>5
  <2> QED BY <2>1, <2>5, <2>7, <2>8, <2>9 DEF WriteInv, Outputs
<1> QED BY <1>1, <1>2

(* A socket write that leaves some of the frame. *)
LEMMA DrainPart ==
    ASSUME WriteInv, NEW n \in 1..(writer.pending - writer.offset), Busy, sent' = sent + n,
           writer.offset + n < writer.pending, writer' = [writer EXCEPT !.offset = @ + n],
           UNCHANGED <<plan, wire, output>>
    PROVE  WriteInv'
<1>1. writer \in WriterFields /\ sent \in Nat /\ sent = Units(wire) + writer.offset /\ output # "idle"
      /\ wire \in Seq(WireFrames)
  BY DEF WriteInv, Busy, WriterFields
<1>2. n \in Nat /\ writer.offset \in Nat /\ writer.pending \in Nat BY <1>1 DEF WriterFields
<1>3. /\ writer'.offset = writer.offset + n /\ writer'.pending = writer.pending /\ writer'.close = writer.close
      /\ writer'.consumed = writer.consumed /\ writer' \in WriterFields
  BY <1>1, <1>2 DEF WriterFields
<1>4. Units(wire)' = Units(wire) /\ Units(wire) \in Nat BY <1>1, WireUnits DEF Units, UnitsTo
<1>5. sent' \in Nat /\ sent' = Units(wire)' + writer'.offset BY <1>1, <1>2, <1>3, <1>4
<1>6. writer'.offset <= writer'.pending BY <1>2, <1>3
<1> QED BY <1>1, <1>3, <1>5, <1>6 DEF WriteInv

(* The socket write that completes the frame. *)
LEMMA DrainLast ==
    ASSUME WriteInv, NEW n \in 1..(writer.pending - writer.offset), Busy, output \in {"writing", "closing"},
           sent' = sent + n, ~ (writer.offset + n < writer.pending), Written(writer.consumed),
           writer' = [writer EXCEPT !.pending = 0, !.offset = 0, !.consumed = 0],
           output' = IF writer.close THEN "shut" ELSE "idle",
           plan' = IF writer.close THEN plan
                   ELSE IF Head(plan) = writer.consumed THEN Tail(plan)
                   ELSE <<Head(plan) - writer.consumed>> \o Tail(plan)
    PROVE  WriteInv'
<1> DEFINE f == [len |-> writer.consumed, close |-> writer.close]
<1>1. /\ writer \in WriterFields /\ sent \in Nat /\ sent = Units(wire) + writer.offset /\ plan \in Seq(Nat)
      /\ wire \in Seq(WireFrames) /\ writer.pending = HeaderLen + writer.consumed
      /\ (~writer.close => plan # <<>> /\ writer.consumed <= Head(plan))
      /\ \A i \in 1..Len(wire) : ~wire[i].close
  BY DEF WriteInv, Busy, WriterFields
<1>2. n \in Nat /\ writer.offset \in Nat /\ writer.pending \in Nat /\ writer.consumed \in Nat /\ writer.close \in BOOLEAN
  BY <1>1 DEF WriterFields
<1>3. writer.offset + n = writer.pending BY <1>2
<1>4. f \in WireFrames /\ f.len = writer.consumed /\ f.close = writer.close BY <1>2 DEF WireFrames
<1>5. wire' = Append(wire, f) BY DEF Written
<1> HIDE DEF f
<1>6. \A x \in WireFrames : x.len \in Nat BY DEF WireFrames
<1>7. Units(wire') = Units(wire) + (HeaderLen + f.len) BY <1>1, <1>4, <1>5, <1>6, UnitsAppend
<1>8. Units(wire)' = Units(wire') BY DEF Units, UnitsTo
<1>9. /\ writer'.offset = 0 /\ writer'.pending = 0 /\ writer'.close = writer.close
      /\ writer'.consumed = 0 /\ writer' \in WriterFields
  BY <1>1 DEF WriterFields
<1>10. Units(wire) \in Nat /\ Len(wire) \in Nat BY <1>1, WireUnits
<1>11. sent' \in Nat /\ sent' = Units(wire)' + writer'.offset
  <2>1. sent' = Units(wire) + (writer.offset + n) BY <1>1, <1>2, <1>10
  <2>2. sent' = Units(wire) + (HeaderLen + f.len) BY <2>1, <1>1, <1>3, <1>4
  <2>3. sent' \in Nat
    <3>1. sent \in Nat /\ n \in Nat BY <1>1, <1>2
    <3> QED BY <3>1
  <2> QED BY <2>2, <2>3, <1>7, <1>8, <1>9
<1>12. /\ wire' \in Seq(WireFrames) /\ Len(wire') = Len(wire) + 1 /\ wire'[Len(wire) + 1] = f
       /\ \A i \in 1..Len(wire) : wire'[i] = wire[i]
  BY <1>1, <1>4, <1>5
<1>13. plan' \in Seq(Nat)
  <2>1. \A p \in Seq(Nat) : p # <<>> => Head(p) \in Nat /\ Tail(p) \in Seq(Nat) OBVIOUS
  <2>2. \A m \in Nat, p \in Seq(Nat) : <<m>> \o p \in Seq(Nat)
    <3> SUFFICES ASSUME NEW m \in Nat, NEW p \in Seq(Nat) PROVE <<m>> \o p \in Seq(Nat) OBVIOUS
    <3>1. <<m>> \in Seq(Nat) OBVIOUS
    <3> QED BY <3>1, ConcatProperties
  <2>3. CASE writer.close BY <1>1, <2>3
  <2>4. CASE ~writer.close
    <3>1. Head(plan) \in Nat /\ Tail(plan) \in Seq(Nat) /\ writer.consumed <= Head(plan) BY <1>1, <2>1, <2>4
    <3>2. Head(plan) - writer.consumed \in Nat BY <1>2, <3>1
    <3>3. <<Head(plan) - writer.consumed>> \o Tail(plan) \in Seq(Nat) BY <2>2, <3>1, <3>2
    <3> QED BY <2>4, <3>1, <3>3
  <2> QED BY <1>2, <2>3, <2>4
<1>14. output' \in {"shut", "idle"} /\ (output' = "shut" <=> writer.close) BY <1>2
<1>15. \A i \in 1..Len(wire') : wire'[i].close => i = Len(wire') /\ output' = "shut"
  <2> SUFFICES ASSUME NEW i \in 1..Len(wire'), wire'[i].close PROVE i = Len(wire') /\ output' = "shut" OBVIOUS
  <2>1. i \in 1..Len(wire) \/ i = Len(wire) + 1 BY <1>10, <1>12
  <2>2. i \notin 1..Len(wire) BY <1>1, <1>12
  <2> QED BY <1>4, <1>12, <1>14, <2>1, <2>2
<1>16. output' = "shut" => wire' # <<>> /\ wire'[Len(wire')].close BY <1>4, <1>10, <1>12, <1>14
<1> QED BY <1>9, <1>11, <1>12, <1>13, <1>14, <1>15, <1>16 DEF WriteInv, Outputs

(* The invariant of the writer holds initially. *)
LEMMA WriteStarts == ASSUME FramedInit PROVE WriteInv
<1>1. /\ plan \in Plans /\ output = "idle" /\ wire = <<>> /\ sent = 0
      /\ writer = [pending |-> 0, close |-> FALSE, offset |-> 0, consumed |-> 0, shutdown |-> FALSE]
  BY DEF FramedInit, NewWriter
<1>2. wire \in Seq(WireFrames) /\ Len(wire) = 0 BY <1>1
<1>3. Units(wire) = 0 BY <1>2, SumSteps, UnitsToSum DEF Units
<1>4. plan \in Seq(Nat) BY <1>1, FramedFlowAssumption
<1>5. writer \in WriterFields BY <1>1 DEF WriterFields
<1>6. writer.pending = 0 /\ writer.offset = 0 /\ writer.consumed = 0 BY <1>1
<1> QED BY <1>1, <1>2, <1>3, <1>4, <1>5, <1>6 DEF WriteInv, Outputs

-----------------------------------------------------------------------------
(* The framed flow. *)

(* The inductive invariant of a framed flow. *)
FramedInv == ReadInv /\ WriteInv

(* Every step of the writer keeps its invariant. *)
LEMMA WriteStep ==
    ASSUME WriteInv, poll_write \/ WriteFails \/ Abandon \/ poll_shutdown \/ \E n \in 1..(HeaderLen + WriteCap) : poll_drain(n)
    PROVE  WriteInv' /\ UNCHANGED readVars
<1>1. CASE poll_write BY <1>1, QueueWrite DEF poll_write
<1>2. CASE WriteFails BY <1>2, WriterRests DEF WriteFails, Outputs
<1>3. CASE Abandon BY <1>3, WriterRests DEF Abandon, Outputs
<1>4. CASE poll_shutdown BY <1>4, QueueClose DEF poll_shutdown
<1>5. ASSUME NEW n, poll_drain(n) PROVE WriteInv' /\ UNCHANGED readVars BY <1>5, DrainPart, DrainLast DEF poll_drain
<1> QED BY <1>1, <1>2, <1>3, <1>4, <1>5

(* Steps of the reader keep it. *)
LEMMA WriteRests == ASSUME WriteInv, UNCHANGED writeVars PROVE WriteInv'
BY WriterRests DEF writeVars, WriteInv

(* Every step of a framed flow keeps the invariant. *)
LEMMA FramedMoves == ASSUME FramedInv, FramedNext PROVE FramedInv'
<1>0. ReadInv /\ CountInv /\ FramedEndGenuine /\ DataInv /\ WriteInv BY DEF FramedInv, ReadInv
<1>1. ASSUME NEW n, Arrive(n) PROVE FramedInv'
  <2>1. /\ ~hungUp /\ n \in 1..(Units(script) - arrived) /\ arrived' = arrived + n
        /\ UNCHANGED <<script, hungUp, reader, input, delivered, writeVars>>
    BY <1>1 DEF Arrive
  <2>2. arrived \in Nat /\ Units(script) \in Nat /\ Taken \in Nat /\ Taken <= arrived BY <1>0, ReadTypes DEF CountInv
  <2>3. arrived' \in Nat /\ arrived' <= Units(script) /\ Taken <= arrived' BY <2>1, <2>2
  <2>4. Units(script)' = Units(script) /\ Taken' = Taken /\ Current' = Current
    BY <2>1 DEF Units, UnitsTo, Taken, Current
  <2>5. CountInv' BY <1>0, <2>1, <2>3, <2>4 DEF CountInv
  <2>6. FramedEndGenuine' BY <1>0, <2>1, EndKept
  <2>7. DataInv' BY <1>0, <2>1, DataKept
  <2>8. WriteInv' BY <1>0, <2>1, WriteRests
  <2> QED BY <2>5, <2>6, <2>7, <2>8 DEF FramedInv, ReadInv
<1>2. ASSUME HangUp PROVE FramedInv'
  BY <1>0, <1>2, CountsKept, EndKept, DataKept, WriteRests DEF HangUp, CountInv, FramedInv, ReadInv
<1>3. ASSUME FramedRead PROVE FramedInv'
  BY <1>0, <1>3, ReadStep, WriteRests DEF FramedRead, poll_read_header, BadHeader, poll_read_payload,
     poll_next_client_frame, copy_ready_payload, Progress, EndInput, FramedInv
<1>4. ASSUME poll_write \/ WriteFails \/ Abandon \/ poll_shutdown
             \/ \E n \in 1..(HeaderLen + WriteCap) : poll_drain(n)
      PROVE  FramedInv' BY <1>0, <1>4, WriteStep, ReadRests DEF FramedInv
<1> QED BY <1>1, <1>2, <1>3, <1>4 DEF FramedNext

(* It holds while another part moves. *)
LEMMA FramedRests == ASSUME FramedInv, UNCHANGED framedVars PROVE FramedInv'
BY ReadRests, WriteRests DEF FramedInv, framedVars

(* It holds initially. *)
LEMMA FramedStarts == ASSUME FramedInit PROVE FramedInv
BY ReadStarts, WriteStarts DEF FramedInv

(* The invariant gives FramedFaithful. *)
LEMMA FramedIsFaithful == ASSUME FramedInv PROVE FramedFaithful
<1>0. ReadInv /\ CountInv /\ FramedEndGenuine /\ DataInv /\ WriteInv BY DEF FramedInv, ReadInv
<1>1. FramedTypeOK BY <1>0, ReadTypes DEF CountInv, WriteInv, WriterFields, Outputs, FramedTypeOK
<1>2. FramedOutputWhole BY <1>0 DEF WriteInv, FramedOutputWhole, Last
<1> QED BY <1>0, <1>1, <1>2 DEF FramedFaithful, DataInv

-----------------------------------------------------------------------------
(* Sums.  FoldFunction folds a function over its domain in the order *)
(* CHOOSE picks it; the sum is the same in every order.              *)

(* The element a fold takes next. *)
Pick(T) == CHOOSE x \in T : TRUE

(* One step of a fold. *)
FoldStep(w, g, T) == IF T = {} THEN 0 ELSE w[Pick(T)] + g[T \ {Pick(T)}]

(* g is the table of the sums of w over the sets in D. *)
IsFold(w, g, D) == g = [T \in D |-> FoldStep(w, g, T)]

(* The sum of w over S. *)
FoldOf(w, S) == (CHOOSE g : IsFold(w, g, SUBSET S))[S]

(* The subsets of S with at most n elements. *)
UpTo(S, n) == {T \in SUBSET S : Cardinality(T) <= n}

(* SumOf is that sum over the domain. *)
LEMMA SumIs == ASSUME NEW f PROVE SumOf(f) = FoldOf(f, DOMAIN f)
BY Zenon DEF SumOf, FoldFunction, FoldFunctionOnSet, MapThenFoldSet, FoldOf, IsFold, FoldStep, Pick

(* A nonempty subset of a finite set less one element is a smaller one. *)
LEMMA PickOne == ASSUME NEW S, IsFiniteSet(S), NEW T \in SUBSET S, T # {}, NEW x \in T
                 PROVE  /\ Pick(T) \in T /\ IsFiniteSet(T) /\ T \ {x} \in SUBSET S
                        /\ Cardinality(T) \in Nat /\ Cardinality(T \ {x}) \in Nat
                        /\ Cardinality(T \ {x}) = Cardinality(T) - 1
<1>1. Pick(T) \in T BY DEF Pick
<1>2. IsFiniteSet(T) BY FS_Subset
<1>3. /\ IsFiniteSet(T \ {x}) /\ Cardinality(T \ {x}) = Cardinality(T) - 1 BY <1>2, FS_RemoveElement
<1> QED BY <1>1, <1>2, <1>3, FS_CardinalityType

(* A table of sums exists, by induction on the size of the sets. *)
LEMMA FoldExists ==
    ASSUME NEW w, NEW S, IsFiniteSet(S)
    PROVE  \E g : IsFold(w, g, SUBSET S)
<1> DEFINE B == {n \in Nat : ~ \E g : IsFold(w, g, UpTo(S, n))}
<1>1. B = {}
  <2> SUFFICES ASSUME B # {} PROVE FALSE OBVIOUS
  <2>1. PICK n \in B : \A y \in B : n <= y BY LeastNatural
  <2>2. n \in Nat /\ ~ \E g : IsFold(w, g, UpTo(S, n)) BY <2>1
  <2>3. PICK f : n = 0 \/ IsFold(w, f, UpTo(S, n - 1)) BY <2>1, <2>2
  <2> DEFINE g == [T \in UpTo(S, n) |-> FoldStep(w, f, T)]
  <2>4. \A T \in UpTo(S, n) : FoldStep(w, f, T) = FoldStep(w, g, T)
    <3> SUFFICES ASSUME NEW T \in UpTo(S, n), T # {} PROVE FoldStep(w, f, T) = FoldStep(w, g, T)
      BY DEF FoldStep
    <3> DEFINE U == T \ {Pick(T)}
    <3>1. T \in SUBSET S /\ Cardinality(T) <= n BY DEF UpTo
    <3>2. Pick(T) \in T BY DEF Pick
    <3>3. U \in SUBSET S /\ Cardinality(U) \in Nat /\ Cardinality(U) = Cardinality(T) - 1 /\ Cardinality(T) \in Nat
      BY <3>1, <3>2, PickOne
    <3>4. n # 0 /\ U \in UpTo(S, n - 1) /\ U \in UpTo(S, n) BY <2>2, <3>1, <3>3 DEF UpTo
    <3>5. f[U] = FoldStep(w, f, U) BY <2>3, <3>4 DEF IsFold
    <3>6. g[U] = FoldStep(w, f, U) BY <3>4
    <3> QED BY <3>5, <3>6 DEF FoldStep
  <2>5. g = [T \in UpTo(S, n) |-> FoldStep(w, g, T)] BY <2>4
  <2> QED BY <2>2, <2>5 DEF IsFold
<1>2. Cardinality(S) \in Nat BY FS_CardinalityType
<1>3. UpTo(S, Cardinality(S)) = SUBSET S BY FS_Subset DEF UpTo
<1>4. \E g : IsFold(w, g, UpTo(S, Cardinality(S))) BY <1>1, <1>2, Zenon
<1> QED BY <1>3, <1>4, Zenon

(* Two functions agree on a set. *)
SameOn(w, v, S) == \A x \in S : w[x] = v[x]

(* R is S and one element more. *)
AddsOne(R, S, x) == x \notin S /\ R = S \cup {x}

(* The sum of v over R is the sum of w over S and the value at x. *)
OneMore(w, S, v, R, x) == FoldOf(w, S) \in Nat /\ FoldOf(v, R) = FoldOf(w, S) + v[x]

(* A function takes natural values on a set. *)
NatOn(w, S) == \A x \in S : w[x] \in Nat

(* Tables of functions that agree on a set agree on its subsets. *)
LEMMA FoldsAgree ==
    ASSUME NEW w, NEW S, NEW v, NEW R, IsFiniteSet(S), S \in SUBSET R, SameOn(w, v, S)
    PROVE  \A f, g : IsFold(w, f, SUBSET S) /\ IsFold(v, g, SUBSET R) => f[S] = g[S]
<1> SUFFICES ASSUME NEW f, NEW g, IsFold(w, f, SUBSET S), IsFold(v, g, SUBSET R) PROVE f[S] = g[S] OBVIOUS
<1> DEFINE B == {n \in Nat : \E T \in SUBSET S : Cardinality(T) = n /\ f[T] # g[T]}
<1>1. B = {}
  <2> SUFFICES ASSUME B # {} PROVE FALSE OBVIOUS
  <2>1. PICK n \in B : \A y \in B : n <= y BY LeastNatural
  <2>2. PICK T \in SUBSET S : Cardinality(T) = n /\ f[T] # g[T] BY <2>1
  <2>3. f[T] = FoldStep(w, f, T) /\ g[T] = FoldStep(v, g, T) BY DEF IsFold
  <2>4. T # {} BY <2>2, <2>3 DEF FoldStep
  <2> DEFINE U == T \ {Pick(T)}
  <2>5. Pick(T) \in T BY <2>4 DEF Pick
  <2>6. U \in SUBSET S /\ Cardinality(U) \in Nat /\ Cardinality(U) = Cardinality(T) - 1 /\ Cardinality(T) \in Nat
    BY <2>4, <2>5, PickOne
  <2>7. Cardinality(U) \notin B BY <2>1, <2>2, <2>6
  <2>8. f[U] = g[U] BY <2>6, <2>7
  <2>9. w[Pick(T)] = v[Pick(T)] BY <2>5 DEF SameOn
  <2> QED BY <2>2, <2>3, <2>4, <2>8, <2>9 DEF FoldStep
<1> QED BY <1>1, FS_CardinalityType

(* Sums of naturals are naturals. *)
LEMMA FoldNatural ==
    ASSUME NEW w, NEW f, NEW S, IsFiniteSet(S), IsFold(w, f, SUBSET S), \A x \in S : w[x] \in Nat
    PROVE  \A T \in SUBSET S : f[T] \in Nat
<1> DEFINE B == {n \in Nat : \E T \in SUBSET S : Cardinality(T) = n /\ f[T] \notin Nat}
<1>1. B = {}
  <2> SUFFICES ASSUME B # {} PROVE FALSE OBVIOUS
  <2>1. PICK n \in B : \A y \in B : n <= y BY LeastNatural
  <2>2. PICK T \in SUBSET S : Cardinality(T) = n /\ f[T] \notin Nat BY <2>1
  <2>3. f[T] = FoldStep(w, f, T) BY DEF IsFold
  <2>4. T # {} BY <2>2, <2>3 DEF FoldStep
  <2> DEFINE U == T \ {Pick(T)}
  <2>5. Pick(T) \in T BY <2>4 DEF Pick
  <2>6. U \in SUBSET S /\ Cardinality(U) \in Nat /\ Cardinality(U) = Cardinality(T) - 1 /\ Cardinality(T) \in Nat
    BY <2>4, <2>5, PickOne
  <2>10. ~ (n <= Cardinality(U)) BY <2>2, <2>6
  <2>7. Cardinality(U) \notin B BY <2>1, <2>10, Zenon
  <2>8. f[U] \in Nat BY <2>6, <2>7
  <2>9. w[Pick(T)] \in Nat BY <2>5
  <2> QED BY <2>2, <2>3, <2>4, <2>8, <2>9 DEF FoldStep
<1> QED BY <1>1, FS_Subset, FS_CardinalityType

(* Any element may be taken first. *)
LEMMA FoldAnyOrder ==
    ASSUME NEW w, NEW f, NEW S, IsFiniteSet(S), IsFold(w, f, SUBSET S), \A x \in S : w[x] \in Nat
    PROVE  \A T \in SUBSET S : \A x \in T : f[T] = w[x] + f[T \ {x}]
<1>0. \A T \in SUBSET S : f[T] \in Nat BY FoldNatural
<1> DEFINE B == {n \in Nat : \E T \in SUBSET S : \E x \in T : Cardinality(T) = n /\ f[T] # w[x] + f[T \ {x}]}
<1>1. B = {}
  <2> SUFFICES ASSUME B # {} PROVE FALSE OBVIOUS
  <2>1. PICK n \in B : \A y \in B : n <= y BY LeastNatural
  <2>2. PICK T \in SUBSET S : \E x \in T : Cardinality(T) = n /\ f[T] # w[x] + f[T \ {x}] BY <2>1
  <2>3. PICK x \in T : Cardinality(T) = n /\ f[T] # w[x] + f[T \ {x}] BY <2>2
  <2> DEFINE c == Pick(T)
  <2>4. f[T] = w[c] + f[T \ {c}] BY DEF IsFold, FoldStep
  <2>5. c \in T BY DEF Pick
  <2> HIDE DEF c
  <2>6. c # x BY <2>3, <2>4
  <2>7. /\ T \ {x} \in SUBSET S /\ Cardinality(T \ {x}) \in Nat /\ Cardinality(T \ {x}) = Cardinality(T) - 1
        /\ T \ {c} \in SUBSET S /\ Cardinality(T \ {c}) \in Nat /\ Cardinality(T \ {c}) = Cardinality(T) - 1
        /\ Cardinality(T) \in Nat
    BY <2>5, PickOne
  <2>13. ~ (n <= Cardinality(T \ {x})) /\ ~ (n <= Cardinality(T \ {c})) BY <2>3, <2>7
  <2>8. Cardinality(T \ {x}) \notin B /\ Cardinality(T \ {c}) \notin B BY <2>1, <2>13, Zenon
  <2>9. f[T \ {c}] = w[x] + f[(T \ {c}) \ {x}] BY <2>5, <2>6, <2>7, <2>8
  <2>10. f[T \ {x}] = w[c] + f[(T \ {x}) \ {c}] BY <2>5, <2>6, <2>7, <2>8
  <2>11. (T \ {x}) \ {c} = (T \ {c}) \ {x} /\ (T \ {c}) \ {x} \in SUBSET S OBVIOUS
  <2>12. w[x] \in Nat /\ w[c] \in Nat /\ f[(T \ {c}) \ {x}] \in Nat BY <1>0, <2>5, <2>11
  <2>14. f[(T \ {x}) \ {c}] = f[(T \ {c}) \ {x}] BY <2>11
  <2>15. w[c] + (w[x] + f[(T \ {c}) \ {x}]) = w[x] + (w[c] + f[(T \ {c}) \ {x}]) BY <2>12
  <2> QED BY <2>3, <2>4, <2>9, <2>10, <2>14, <2>15, Zenon
<1> QED
  <2> SUFFICES ASSUME NEW T \in SUBSET S, NEW x \in T PROVE f[T] = w[x] + f[T \ {x}] OBVIOUS
  <2>1. IsFiniteSet(T) /\ Cardinality(T) \in Nat BY FS_Subset, FS_CardinalityType
  <2> QED BY <1>1, <2>1

(* The sum is an entry of a table. *)
LEMMA FoldIs ==
    ASSUME NEW w, NEW S, IsFiniteSet(S)
    PROVE  \E g : IsFold(w, g, SUBSET S) /\ FoldOf(w, S) = g[S]
<1>1. IsFold(w, CHOOSE g : IsFold(w, g, SUBSET S), SUBSET S) BY FoldExists
<1> QED BY <1>1, Zenon DEF FoldOf

(* One element more adds its value. *)
LEMMA FoldOneMore ==
    ASSUME NEW S, IsFiniteSet(S), NEW w, NEW v, NEW x, NEW R, AddsOne(R, S, x), SameOn(w, v, S), NatOn(v, R)
    PROVE  OneMore(w, S, v, R, x)
<1>0. R = S \cup {x} /\ x \notin S BY DEF AddsOne
<1>1. IsFiniteSet(R) /\ S \subseteq R /\ R \ {x} = S BY <1>0, FS_AddElement
<1>2. PICK F : IsFold(w, F, SUBSET S) /\ FoldOf(w, S) = F[S] BY FoldIs
<1>3. PICK G : IsFold(v, G, SUBSET R) /\ FoldOf(v, R) = G[R] BY <1>1, FoldIs
<1>4. S \in SUBSET R /\ SameOn(w, v, S) /\ v[x] \in Nat /\ \A y \in R : v[y] \in Nat BY <1>0, <1>1 DEF NatOn
<1>9. IsFold(w, F, SUBSET S) /\ IsFold(v, G, SUBSET R) BY <1>2, <1>3, Zenon
<1>5. F[S] = G[S] BY <1>4, <1>9, FoldsAgree
<1>6. F[S] \in Nat BY <1>1, <1>2, <1>4, FoldNatural DEF SameOn
<1>7. G[R] = v[x] + G[R \ {x}] BY <1>0, <1>1, <1>3, <1>4, FoldAnyOrder
<1>8. v[x] + F[S] = F[S] + v[x] BY <1>4, <1>6
<1> QED BY <1>0, <1>1, <1>2, <1>3, <1>5, <1>6, <1>7, <1>8, Zenon DEF OneMore

(* The sum over nothing is 0. *)
LEMMA FoldNone == ASSUME NEW w PROVE FoldOf(w, {}) = 0
<1> DEFINE F == CHOOSE g : IsFold(w, g, SUBSET {})
<1>1. IsFold(w, F, SUBSET {}) BY FS_EmptySet, FoldExists
<1>2. FoldOf(w, {}) = F[{}] BY Zenon DEF FoldOf
<1> HIDE DEF F
<1> QED BY <1>1, <1>2 DEF IsFold, FoldStep

-----------------------------------------------------------------------------
(* The inductive invariant of the accounts. *)

(* TrafficState's buckets. *)
Buckets == [start : Nat, bytes : Nat]

(* Where a connection task can be. *)
TaskStates == {"idle", "running", "ended", "done", "aborted", "refused"}

(* A time and a connection: a byte report or an observation. *)
Stamps == Nat \X Connections

(* The start of the bucket a time falls in. *)
FloorOf(t) == t - (t % RateBucketMs)

(* A finite bag of reports. *)
IsBagOf(f) == IsFiniteSet(DOMAIN f) /\ DOMAIN f \subseteq Stamps /\ f \in [DOMAIN f -> Nat]

(* The reports from t on, and how many. *)
Since(f, t) == {r \in DOMAIN f : r[1] >= t}

(* How many reports there are from t on. *)
Counted(f, t) == SumOf(Restrict(f, Since(f, t)))

(* The bytes in the buckets from the i-th on. *)
BytesFrom(b, i) == SumOf([j \in i..Len(b) |-> b[j].bytes])

(* Buckets are in order of time, a bucket width apart at least. *)
Spaced(b) == \A i, j \in 1..Len(b) : i < j => b[i].start + (j - i) * RateBucketMs <= b[j].start

(* The bucket of a report at t is kept, or ended before the window. *)
Covered(b, now, t) == FloorOf(t) + RateBucketMs <= Cutoff(now) \/ \E i \in 1..Len(b) : b[i].start = FloorOf(t)

(* The buckets are exact: from each on they hold the reports since its *)
(* start, and what no bucket holds is older than the window.           *)
RateOK(b, f, now) ==
    /\ Spaced(b)
    /\ \A i \in 1..Len(b) : /\ b[i].start <= now /\ b[i].start = FloorOf(b[i].start)
                            /\ BytesFrom(b, i) = Counted(f, b[i].start)
    /\ \A r \in DOMAIN f : r[1] <= now /\ Covered(b, now, r[1])

(* The maps from keys in S to values in T. *)
MapOf(S, T) == UNION {[D -> T] : D \in SUBSET S}

(* The keys by_host may hold. *)
HostKeys == {HostOf[c] : c \in Connections} \cup {OtherKey}

(* The connections counted as in flight. *)
Occupied == {c \in Connections : task[c] \in {"running", "ended", "aborted"}}

(* Types, and the bounds of the structures that are cut to a length. *)
TeleTypes ==
    /\ clock \in Nat /\ steady \in BOOLEAN /\ task \in [Connections -> TaskStates] /\ finished \subseteq Connections
    /\ traffic \in [flows : MapOf(Connections, Nat), total : Nat, buckets : Seq(Buckets)]
    /\ diag \in [accepted : Nat, completed : Nat, in_flight : Nat, accept_errors : Nat, by_host : MapOf(HostKeys, Nat),
                 recent : Seq(Connections)]
    /\ IsBagOf(reports) /\ writes \subseteq Stamps /\ written \subseteq Stamps /\ IsFiniteSet(written)
    /\ Len(traffic.buckets) <= MaxRateBuckets /\ Len(diag.recent) <= MaxRecentFlows

(* by_host is within its limit, or holds the key for the rest. *)
KeysBounded(map) ==
    \/ Cardinality(DOMAIN map) <= MaxAggregateKeys
    \/ OtherKey \in DOMAIN map /\ Cardinality(DOMAIN map) <= MaxAggregateKeys + 1

(* Every completion is filed under one host. *)
TeleHosts ==
    /\ IsFiniteSet(DOMAIN diag.by_host) /\ SumOf(diag.by_host) = diag.completed
    /\ KeysBounded(diag.by_host)

(* Counters, active flows and handles say where the tasks are. *)
TeleTasks ==
    /\ IsFiniteSet(Occupied) /\ diag.in_flight = Cardinality(Occupied)
    /\ diag.accepted = diag.completed + diag.in_flight
    /\ aborted = InState("aborted") /\ DOMAIN traffic.flows = InState("running")
    /\ \A c \in finished : task[c] \notin {"idle", "running"}
    /\ \A r \in DOMAIN reports : task[r[2]] \notin {"idle", "refused"}

(* Totals are the reports. *)
TeleTotals ==
    /\ traffic.total = SumOf(reports)
    /\ \A c \in DOMAIN traffic.flows : traffic.flows[c] = SumOf(Restrict(reports, {r \in DOMAIN reports : r[2] = c}))

(* With a clock that never went back the buckets are exact. *)
TeleRate == steady => RateOK(traffic.buckets, reports, clock)

(* The inductive invariant of the accounts. *)
TeleInv == TeleTypes /\ TeleHosts /\ TeleTasks /\ TeleTotals /\ TeleRate /\ TableKeepsNewest

(* Functions that agree have the same sum. *)
LEMMA FoldSame ==
    ASSUME NEW S, IsFiniteSet(S), NEW w, NEW v, SameOn(w, v, S)
    PROVE  FoldOf(w, S) = FoldOf(v, S)
<1>1. PICK F : IsFold(w, F, SUBSET S) /\ FoldOf(w, S) = F[S] BY FoldIs
<1>2. PICK G : IsFold(v, G, SUBSET S) /\ FoldOf(v, S) = G[S] BY FoldIs
<1>3. S \in SUBSET S OBVIOUS
<1>4. IsFold(w, F, SUBSET S) /\ IsFold(v, G, SUBSET S) BY <1>1, <1>2, Zenon
<1>5. F[S] = G[S] BY <1>3, <1>4, FoldsAgree
<1> QED BY <1>1, <1>2, <1>5, Zenon

(* A sum of naturals is a natural. *)
LEMMA FoldIsNat ==
    ASSUME NEW S, IsFiniteSet(S), NEW w, NatOn(w, S)
    PROVE  FoldOf(w, S) \in Nat
<1>1. PICK F : IsFold(w, F, SUBSET S) /\ FoldOf(w, S) = F[S] BY FoldIs
<1>2. S \in SUBSET S /\ \A x \in S : w[x] \in Nat BY DEF NatOn
<1>3. IsFold(w, F, SUBSET S) BY <1>1, Zenon
<1>4. F[S] \in Nat BY <1>2, <1>3, FoldNatural
<1> QED BY <1>1, <1>4, Zenon

(* One more at one element is one more in the sum. *)
LEMMA FoldBump ==
    ASSUME NEW S, IsFiniteSet(S), NEW w, NEW v, NEW x, x \in S, SameOn(w, v, S \ {x}), NatOn(w, S), v[x] = w[x] + 1
    PROVE  FoldOf(v, S) = FoldOf(w, S) + 1
<1> DEFINE T == S \ {x}
<1>1. IsFiniteSet(T) /\ AddsOne(S, T, x) /\ SameOn(w, w, T) /\ SameOn(v, w, T) /\ SameOn(v, v, T)
  BY FS_Subset DEF AddsOne, SameOn
<1>2. NatOn(v, S) BY DEF NatOn, SameOn
<1> HIDE DEF T
<1>3. OneMore(w, T, w, S, x) BY <1>1, FoldOneMore
<1>4. OneMore(v, T, v, S, x) BY <1>1, <1>2, FoldOneMore
<1>5. FoldOf(v, T) = FoldOf(w, T) BY <1>1, FoldSame
<1>6. FoldOf(w, T) \in Nat /\ FoldOf(w, S) = FoldOf(w, T) + w[x] /\ FoldOf(v, S) = FoldOf(w, T) + v[x] /\ w[x] \in Nat
  BY <1>3, <1>4, <1>5 DEF OneMore, NatOn
<1> QED BY <1>6

(* The sum over a part is at most the sum over the whole. *)
LEMMA FoldSmaller ==
    ASSUME NEW R, IsFiniteSet(R), NEW w, NatOn(w, R), NEW S, S \subseteq R
    PROVE  FoldOf(w, S) <= FoldOf(w, R)
<1> DEFINE B == {n \in Nat : \E U \in SUBSET R : S \subseteq U /\ Cardinality(U) = n /\ ~ (FoldOf(w, S) <= FoldOf(w, U))}
<1>0. FoldOf(w, S) \in Nat BY FS_Subset, FoldIsNat DEF NatOn
<1>1. B = {}
  <2> SUFFICES ASSUME B # {} PROVE FALSE OBVIOUS
  <2>1. PICK n \in B : \A y \in B : n <= y BY LeastNatural
  <2>2. PICK U \in SUBSET R : S \subseteq U /\ Cardinality(U) = n /\ ~ (FoldOf(w, S) <= FoldOf(w, U)) BY <2>1
  <2>3. U # S BY <1>0, <2>2
  <2>4. PICK x \in U : x \notin S BY <2>2, <2>3
  <2> DEFINE V == U \ {x}
  <2>5. V \in SUBSET R /\ Cardinality(V) \in Nat /\ Cardinality(V) = Cardinality(U) - 1 /\ Cardinality(U) \in Nat
    BY <2>4, PickOne
  <2>6. S \subseteq V BY <2>2, <2>4
  <2>7. IsFiniteSet(V) /\ AddsOne(U, V, x) /\ SameOn(w, w, V) /\ NatOn(w, U) BY <2>2, <2>4, FS_Subset DEF AddsOne, SameOn, NatOn
  <2>8. w[x] \in Nat BY <2>4 DEF NatOn
  <2> HIDE DEF V
  <2>9. OneMore(w, V, w, U, x) BY <2>7, FoldOneMore
  <2>10. ~ (n <= Cardinality(V)) BY <2>2, <2>5
  <2>11. Cardinality(V) \notin B BY <2>1, <2>10, Zenon
  <2>12. FoldOf(w, S) <= FoldOf(w, V) BY <2>5, <2>6, <2>11
  <2>13. FoldOf(w, V) \in Nat /\ FoldOf(w, U) = FoldOf(w, V) + w[x] BY <2>9 DEF OneMore
  <2> QED BY <1>0, <2>2, <2>8, <2>12, <2>13
<1> QED BY <1>1, FS_CardinalityType

(* The same for SumOf: it is a natural, *)
LEMMA SumNat == ASSUME NEW f, IsFiniteSet(DOMAIN f), f \in [DOMAIN f -> Nat] PROVE SumOf(f) \in Nat
<1>1. NatOn(f, DOMAIN f) BY DEF NatOn
<1>2. FoldOf(f, DOMAIN f) \in Nat BY <1>1, FoldIsNat
<1> QED BY <1>2, SumIs, Zenon

(* it is 0 where the domain is empty, *)
LEMMA SumNone == ASSUME NEW f, DOMAIN f = {} PROVE SumOf(f) = 0
<1>1. SumOf(f) = FoldOf(f, {}) BY SumIs, Zenon
<1> QED BY <1>1, FoldNone, Zenon

(* a new key adds its value, *)
LEMMA SumGrows ==
    ASSUME NEW f, NEW g, NEW x, IsFiniteSet(DOMAIN f), x \notin DOMAIN f, DOMAIN g = DOMAIN f \cup {x},
           g \in [DOMAIN g -> Nat], \A y \in DOMAIN f : f[y] = g[y]
    PROVE  SumOf(f) \in Nat /\ SumOf(g) = SumOf(f) + g[x]
<1> DEFINE S == DOMAIN f
           R == DOMAIN g
<1>1. IsFiniteSet(S) /\ AddsOne(R, S, x) /\ SameOn(f, g, S) /\ NatOn(g, R) BY DEF AddsOne, SameOn, NatOn
<1>2. SumOf(f) = FoldOf(f, S) /\ SumOf(g) = FoldOf(g, R) BY SumIs, Zenon
<1> HIDE DEF S, R
<1>3. OneMore(f, S, g, R, x) BY <1>1, FoldOneMore
<1> QED BY <1>2, <1>3, Zenon DEF OneMore

(* one more at one key is one more, *)
LEMMA SumBump ==
    ASSUME NEW f, NEW g, NEW x, IsFiniteSet(DOMAIN f), x \in DOMAIN f, DOMAIN g = DOMAIN f,
           f \in [DOMAIN f -> Nat], \A y \in DOMAIN f : y # x => f[y] = g[y], g[x] = f[x] + 1
    PROVE  SumOf(f) \in Nat /\ SumOf(g) = SumOf(f) + 1
<1> DEFINE S == DOMAIN f
<1>1. IsFiniteSet(S) /\ x \in S /\ SameOn(f, g, S \ {x}) /\ NatOn(f, S) BY DEF SameOn, NatOn
<1>2. SumOf(f) = FoldOf(f, S) /\ SumOf(g) = FoldOf(g, S) BY SumIs, Zenon
<1> HIDE DEF S
<1>3. FoldOf(g, S) = FoldOf(f, S) + 1 BY <1>1, FoldBump
<1>4. FoldOf(f, S) \in Nat BY <1>1, FoldIsNat
<1> QED BY <1>2, <1>3, <1>4, Zenon

(* it depends on the values alone, *)
LEMMA SumSame ==
    ASSUME NEW f, NEW g, IsFiniteSet(DOMAIN f), DOMAIN g = DOMAIN f, \A y \in DOMAIN f : f[y] = g[y]
    PROVE  SumOf(f) = SumOf(g)
<1> DEFINE S == DOMAIN f
<1>1. IsFiniteSet(S) /\ SameOn(f, g, S) BY DEF SameOn
<1>2. SumOf(f) = FoldOf(f, S) /\ SumOf(g) = FoldOf(g, S) BY SumIs, Zenon
<1> HIDE DEF S
<1> QED BY <1>1, <1>2, FoldSame, Zenon

(* and a part sums to no more than the whole. *)
LEMMA SumSmaller ==
    ASSUME NEW f, NEW g, IsFiniteSet(DOMAIN g), g \in [DOMAIN g -> Nat], DOMAIN f \subseteq DOMAIN g,
           \A y \in DOMAIN f : f[y] = g[y]
    PROVE  SumOf(f) <= SumOf(g)
<1> DEFINE S == DOMAIN f
           R == DOMAIN g
<1>1. IsFiniteSet(R) /\ IsFiniteSet(S) /\ SameOn(f, g, S) /\ NatOn(g, R) /\ S \subseteq R BY FS_Subset DEF SameOn, NatOn
<1>2. SumOf(f) = FoldOf(f, S) /\ SumOf(g) = FoldOf(g, R) BY SumIs, Zenon
<1> HIDE DEF S, R
<1>3. FoldOf(f, S) = FoldOf(g, S) BY <1>1, FoldSame
<1>4. FoldOf(g, S) <= FoldOf(g, R) BY <1>1, FoldSmaller
<1> QED BY <1>2, <1>3, <1>4, Zenon

-----------------------------------------------------------------------------
(* The reports, and the sum over a selection of them. *)

(* g is the bag f with one report more. *)
Reported(g, f, r) ==
    /\ IsBagOf(g) /\ DOMAIN g = DOMAIN f \cup {r} /\ \A x \in DOMAIN f : x # r => f[x] = g[x]
    /\ g[r] = (IF r \in DOMAIN f THEN f[r] ELSE 0) + 1

(* What record_bytes adds to the bag of reports. *)
LEMMA ReportAdds ==
    ASSUME NEW f, NEW r, IsBagOf(f), r \in Stamps
    PROVE  Reported(f (+) SetToBag({r}), f, r)
<1> DEFINE s == SetToBag({r})
           g == [e \in (DOMAIN f) \cup (DOMAIN s) |-> (IF e \in DOMAIN f THEN f[e] ELSE 0) + (IF e \in DOMAIN s THEN s[e] ELSE 0)]
<1>1. f (+) SetToBag({r}) = g BY DEF (+), SetToBag
<1>2. DOMAIN s = {r} /\ s[r] = 1 BY DEF SetToBag
<1>3. DOMAIN g = DOMAIN f \cup {r} BY <1>2
<1>4. \A x \in DOMAIN f : f[x] \in Nat BY DEF IsBagOf
<1>5. \A x \in DOMAIN f : x # r => g[x] = f[x] BY <1>2, <1>4
<1>6. g[r] = (IF r \in DOMAIN f THEN f[r] ELSE 0) + 1 BY <1>2
<1>7. IsFiniteSet(DOMAIN f \cup {r}) BY FS_AddElement DEF IsBagOf
<1>8. g = [e \in DOMAIN g |-> g[e]] OBVIOUS
<1> HIDE DEF g
<1>9. \A x \in DOMAIN g : g[x] \in Nat BY <1>3, <1>4, <1>5, <1>6
<1>11. g \in [DOMAIN g -> Nat] BY <1>8, <1>9
<1>10. IsBagOf(g) BY <1>3, <1>7, <1>11 DEF IsBagOf
<1>12. Reported(g, f, r) BY <1>3, <1>5, <1>6, <1>10 DEF Reported
<1> QED BY <1>1, <1>12

(* A selection of the reports is a function of naturals. *)
LEMMA PartOfBag ==
    ASSUME NEW f, IsBagOf(f), NEW S, S \subseteq DOMAIN f
    PROVE  /\ DOMAIN Restrict(f, S) = S /\ IsFiniteSet(S) /\ Restrict(f, S) \in [S -> Nat]
           /\ \A x \in S : Restrict(f, S)[x] = f[x]
           /\ SumOf(Restrict(f, S)) \in Nat
<1>1. DOMAIN Restrict(f, S) = S /\ IsFiniteSet(S) /\ \A x \in S : Restrict(f, S)[x] = f[x]
  BY FS_Subset DEF IsBagOf, Restrict
<1>2. Restrict(f, S) \in [S -> Nat] BY DEF IsBagOf, Restrict
<1> DEFINE g == Restrict(f, S)
<1>3. IsFiniteSet(DOMAIN g) /\ g \in [DOMAIN g -> Nat] BY <1>1, <1>2
<1> HIDE DEF g
<1>4. SumOf(g) \in Nat BY <1>3, SumNat
<1> QED BY <1>1, <1>2, <1>4 DEF g

(* A selection the new report belongs to counts one more. *)
LEMMA PartGrows ==
    ASSUME NEW f, NEW g, NEW r, IsBagOf(f), r \in Stamps, Reported(g, f, r), NEW S, NEW T, S \subseteq DOMAIN f,
           T = S \cup {r}, r \in DOMAIN f => r \in S
    PROVE  SumOf(Restrict(g, T)) = SumOf(Restrict(f, S)) + 1
<1>1. /\ IsBagOf(g) /\ DOMAIN g = DOMAIN f \cup {r} /\ \A x \in DOMAIN f : x # r => f[x] = g[x]
      /\ g[r] = (IF r \in DOMAIN f THEN f[r] ELSE 0) + 1 BY DEF Reported
<1> DEFINE u == Restrict(f, S)
           v == Restrict(g, T)
<1>2. DOMAIN u = S /\ IsFiniteSet(S) /\ u \in [S -> Nat] /\ \A x \in S : u[x] = f[x] BY PartOfBag
<1>3. DOMAIN v = T /\ IsFiniteSet(T) /\ v \in [T -> Nat] /\ \A x \in T : v[x] = g[x] BY <1>1, PartOfBag
<1> HIDE DEF u, v
<1>4. CASE r \in DOMAIN f BY <1>1, <1>2, <1>3, <1>4, SumBump DEF u, v
<1>5. CASE r \notin DOMAIN f BY <1>1, <1>2, <1>3, <1>5, SumGrows DEF u, v
<1> QED BY <1>4, <1>5

(* A selection it does not belong to counts the same. *)
LEMMA PartKept ==
    ASSUME NEW f, NEW g, NEW r, IsBagOf(f), r \in Stamps, Reported(g, f, r), NEW S, S \subseteq DOMAIN f, r \notin S
    PROVE  SumOf(Restrict(g, S)) = SumOf(Restrict(f, S))
<1>1. /\ IsBagOf(g) /\ DOMAIN g = DOMAIN f \cup {r} /\ \A x \in DOMAIN f : x # r => f[x] = g[x]
      /\ g[r] = (IF r \in DOMAIN f THEN f[r] ELSE 0) + 1 BY DEF Reported
<1>2. Restrict(g, S) = Restrict(f, S) BY <1>1 DEF Restrict
<1> QED BY <1>2

(* All reports count one more. *)
LEMMA WholeGrows ==
    ASSUME NEW f, NEW g, NEW r, IsBagOf(f), r \in Stamps, Reported(g, f, r)
    PROVE  SumOf(g) = SumOf(f) + 1 /\ SumOf(f) \in Nat
<1>1. /\ IsBagOf(g) /\ DOMAIN g = DOMAIN f \cup {r} /\ \A x \in DOMAIN f : x # r => f[x] = g[x]
      /\ g[r] = (IF r \in DOMAIN f THEN f[r] ELSE 0) + 1 BY DEF Reported
<1>2. IsFiniteSet(DOMAIN f) /\ f \in [DOMAIN f -> Nat] BY DEF IsBagOf
<1>3. CASE r \in DOMAIN f BY <1>1, <1>2, <1>3, SumBump
<1>4. CASE r \notin DOMAIN f BY <1>1, <1>2, <1>4, SumGrows DEF IsBagOf
<1> QED BY <1>3, <1>4

-----------------------------------------------------------------------------
(* Buckets of the clock. *)

(* Products grow with their factors. *)
LEMMA ProductGrows == ASSUME NEW a \in Nat, NEW b \in Nat, NEW k \in Nat, a <= b PROVE a * k <= b * k /\ k * a <= k * b
OBVIOUS

(* What \div computes. *)
LEMMA Quotient ==
    ASSUME NEW a \in Nat, NEW e \in Nat, e > 0
    PROVE  a \div e \in Nat /\ e * (a \div e) <= a /\ a < e * ((a \div e) + 1) /\ e * (a \div e) \in Nat
OBVIOUS

(* What % leaves. *)
LEMMA Remainder == ASSUME NEW a \in Nat, NEW e \in Nat, e > 0 PROVE a - (a % e) = e * (a \div e)
OBVIOUS

(* The next multiple. *)
LEMMA NextMultiple == ASSUME NEW e \in Nat, NEW a \in Nat PROVE e * (a + 1) = e * a + e /\ (a + 1) * e = a * e + e
OBVIOUS

(* A quotient is the only one between its multiples. *)
LEMMA QuotientUnique ==
    ASSUME NEW a \in Nat, NEW e \in Nat, e > 0, NEW q \in Nat, e * q <= a, a < e * (q + 1)
    PROVE  a \div e = q
<1> DEFINE p == a \div e
<1>1. p \in Nat /\ e * p <= a /\ a < e * (p + 1) /\ e * p \in Nat BY Quotient
<1> HIDE DEF p
<1>2. e * q \in Nat /\ e * (q + 1) \in Nat /\ e * (p + 1) \in Nat BY <1>1
<1>3. CASE p + 1 <= q BY <1>1, <1>2, <1>3, ProductGrows
<1>4. CASE q + 1 <= p BY <1>1, <1>2, <1>4, ProductGrows
<1>5. p = q BY <1>1, <1>3, <1>4
<1> QED BY <1>5 DEF p

(* More bytes over no more time is no smaller rate. *)
LEMMA RateGrows ==
    ASSUME NEW x \in Nat, NEW y \in Nat, NEW e \in Nat, NEW w \in Nat, e > 0, e <= w, y <= x
    PROVE  (x \div e) >= (y \div w)
<1> DEFINE p == x \div e
           q == y \div w
<1>1. p \in Nat /\ e * p <= x /\ x < e * (p + 1) BY Quotient
<1>2. q \in Nat /\ w * q <= y BY Quotient
<1> HIDE DEF p, q
<1>3. e * q <= w * q /\ e * q \in Nat /\ w * q \in Nat BY <1>2, ProductGrows
<1>4. CASE p + 1 <= q BY <1>1, <1>2, <1>3, <1>4, ProductGrows
<1>5. p >= q BY <1>1, <1>2, <1>4
<1> QED BY <1>5 DEF p, q

(* A time falls in the bucket that starts at its floor. *)
LEMMA FloorFacts ==
    ASSUME NEW t \in Nat
    PROVE  /\ FloorOf(t) \in Nat /\ FloorOf(t) <= t /\ t < FloorOf(t) + RateBucketMs /\ FloorOf(FloorOf(t)) = FloorOf(t)
           /\ RateBucketMs \in Nat /\ RateBucketMs > 0
<1> DEFINE e == RateBucketMs
           q == t \div e
<1>1. e \in Nat /\ e > 0 BY FlowTelemetryAssumption
<1>2. FloorOf(t) = e * q BY <1>1, Remainder DEF FloorOf
<1>3. q \in Nat /\ e * q <= t /\ t < e * (q + 1) /\ e * q \in Nat BY <1>1, Quotient
<1>4. FloorOf(e * q) = e * ((e * q) \div e) BY <1>1, <1>3, Remainder DEF FloorOf
<1> HIDE DEF q
<1>5. e * (q + 1) = e * q + e BY <1>1, <1>3, NextMultiple
<1>6. (e * q) \div e = q BY <1>1, <1>3, <1>5, QuotientUnique
<1> QED BY <1>1, <1>2, <1>3, <1>4, <1>5, <1>6

(* Floors follow the times, and distinct ones are a width apart. *)
LEMMA FloorsApart ==
    ASSUME NEW s \in Nat, NEW t \in Nat
    PROVE  /\ s <= t => FloorOf(s) <= FloorOf(t)
           /\ FloorOf(s) < FloorOf(t) => FloorOf(s) + RateBucketMs <= FloorOf(t)
<1> DEFINE e == RateBucketMs
           p == s \div e
           q == t \div e
<1>1. e \in Nat /\ e > 0 BY FlowTelemetryAssumption
<1>2. FloorOf(t) = e * q /\ FloorOf(s) = e * p BY <1>1, Remainder DEF FloorOf
<1>3. q \in Nat /\ e * q <= t /\ t < e * (q + 1) /\ e * q \in Nat BY <1>1, Quotient
<1>4. p \in Nat /\ e * p <= s /\ s < e * (p + 1) /\ e * p \in Nat BY <1>1, Quotient
<1> HIDE DEF p, q
<1>5. CASE p <= q BY <1>1, <1>2, <1>3, <1>4, <1>5, ProductGrows, NextMultiple
<1>6. CASE q < p BY <1>1, <1>2, <1>3, <1>4, <1>6, ProductGrows, NextMultiple
<1> QED BY <1>3, <1>4, <1>5, <1>6

-----------------------------------------------------------------------------
(* The bytes counted from a bucket on. *)

(* The bytes from the i-th bucket on are a sum of naturals. *)
LEMMA BytesWhole ==
    ASSUME NEW b, b \in Seq(Buckets), NEW i \in 1..(Len(b) + 1)
    PROVE  LET f == [j \in i..Len(b) |-> b[j].bytes] IN
           /\ DOMAIN f = i..Len(b) /\ IsFiniteSet(i..Len(b)) /\ f \in [i..Len(b) -> Nat]
           /\ \A j \in i..Len(b) : f[j] = b[j].bytes
           /\ BytesFrom(b, i) = SumOf(f) /\ BytesFrom(b, i) \in Nat
<1> DEFINE f == [j \in i..Len(b) |-> b[j].bytes]
<1>1. ASSUME NEW j \in i..Len(b) PROVE b[j].bytes \in Nat
  <2>1. j \in 1..Len(b) OBVIOUS
  <2>2. b[j] \in Buckets BY <2>1
  <2> QED BY <2>2 DEF Buckets
<1>2. IsFiniteSet(i..Len(b)) BY FS_Interval
<1>3. DOMAIN f = i..Len(b) /\ f \in [i..Len(b) -> Nat] BY <1>1
<1>4. BytesFrom(b, i) = SumOf(f) BY DEF BytesFrom
<1>6. \A j \in i..Len(b) : f[j] = b[j].bytes OBVIOUS
<1> HIDE DEF f
<1>5. SumOf(f) \in Nat BY <1>2, <1>3, SumNat
<1> QED BY <1>2, <1>3, <1>4, <1>5, <1>6 DEF f

(* Behind the last bucket there are none. *)
LEMMA BytesPast == ASSUME NEW b, b \in Seq(Buckets) PROVE BytesFrom(b, Len(b) + 1) = 0
<1> DEFINE f == [j \in (Len(b) + 1)..Len(b) |-> b[j].bytes]
<1>1. DOMAIN f = {} OBVIOUS
<1>2. BytesFrom(b, Len(b) + 1) = SumOf(f) BY DEF BytesFrom
<1> HIDE DEF f
<1> QED BY <1>1, <1>2, SumNone

(* The first of the buckets adds its bytes. *)
LEMMA BucketFirst ==
    ASSUME NEW b, b \in Seq(Buckets), NEW i \in 1..Len(b)
    PROVE  BytesFrom(b, i) = BytesFrom(b, i + 1) + b[i].bytes
<1> DEFINE f == [j \in (i + 1)..Len(b) |-> b[j].bytes]
           g == [j \in i..Len(b) |-> b[j].bytes]
<1>0. i + 1 \in 1..(Len(b) + 1) /\ i \in 1..(Len(b) + 1) OBVIOUS
<1>1. DOMAIN f = (i + 1)..Len(b) /\ IsFiniteSet((i + 1)..Len(b)) /\ BytesFrom(b, i + 1) = SumOf(f)
  BY <1>0, BytesWhole
<1>2. DOMAIN g = i..Len(b) /\ g \in [i..Len(b) -> Nat] /\ BytesFrom(b, i) = SumOf(g)
  BY <1>0, BytesWhole
<1>3. i..Len(b) = (i + 1)..Len(b) \cup {i} /\ i \notin (i + 1)..Len(b) OBVIOUS
<1>4. \A j \in (i + 1)..Len(b) : f[j] = g[j] OBVIOUS
<1>5. g[i] = b[i].bytes OBVIOUS
<1> HIDE DEF f, g
<1>6. IsFiniteSet(DOMAIN f) /\ i \notin DOMAIN f /\ DOMAIN g = DOMAIN f \cup {i} /\ g \in [DOMAIN g -> Nat] BY <1>1, <1>2, <1>3
<1>7. \A j \in DOMAIN f : f[j] = g[j] BY <1>1, <1>4
<1>8. SumOf(g) = SumOf(f) + g[i] BY <1>6, <1>7, SumGrows
<1> QED BY <1>1, <1>2, <1>5, <1>8

(* Dropping buckets from the front leaves the bytes from each other on. *)
LEMMA BytesSame ==
    ASSUME NEW b, b \in Seq(Buckets), NEW c, c \in Seq(Buckets), NEW k \in Nat, Len(b) = Len(c) + k,
           \A j \in 1..Len(c) : c[j].bytes = b[j + k].bytes
    PROVE  \A i \in 1..(Len(c) + 1) : BytesFrom(c, i) = BytesFrom(b, i + k)
<1>0. Len(c) \in Nat /\ Len(b) \in Nat OBVIOUS
<1> DEFINE B == {n \in Nat : n <= Len(c) /\ BytesFrom(c, Len(c) + 1 - n) # BytesFrom(b, Len(b) + 1 - n)}
<1>1. B = {}
  <2> SUFFICES ASSUME B # {} PROVE FALSE OBVIOUS
  <2>1. PICK n \in B : \A y \in B : n <= y BY LeastNatural
  <2>2. n \in Nat /\ n <= Len(c) /\ BytesFrom(c, Len(c) + 1 - n) # BytesFrom(b, Len(b) + 1 - n) BY <2>1
  <2>3. n # 0
    <3> SUFFICES ASSUME n = 0 PROVE FALSE OBVIOUS
    <3>1. Len(c) + 1 - n = Len(c) + 1 /\ Len(b) + 1 - n = Len(b) + 1 BY <1>0
    <3> QED BY <2>2, <3>1, BytesPast
  <2>4. n - 1 \in Nat /\ n - 1 <= Len(c) /\ ~(n <= n - 1) BY <2>2, <2>3, <1>0
  <2>5. n - 1 \notin B BY <2>1, <2>4, Zenon
  <2>6. BytesFrom(c, Len(c) + 1 - (n - 1)) = BytesFrom(b, Len(b) + 1 - (n - 1)) BY <2>4, <2>5
  <2> DEFINE i == Len(c) + 1 - n
             j == Len(b) + 1 - n
  <2>7. /\ i \in 1..Len(c) /\ j \in 1..Len(b) /\ j = i + k
        /\ Len(c) + 1 - (n - 1) = i + 1 /\ Len(b) + 1 - (n - 1) = j + 1 BY <1>0, <2>2, <2>3
  <2>8. BytesFrom(c, i) # BytesFrom(b, j) BY <2>2
  <2> HIDE DEF i, j
  <2>9. BytesFrom(c, i) = BytesFrom(c, i + 1) + c[i].bytes BY <2>7, BucketFirst
  <2>10. BytesFrom(b, j) = BytesFrom(b, j + 1) + b[j].bytes BY <2>7, BucketFirst
  <2>11. BytesFrom(c, i + 1) = BytesFrom(b, j + 1) BY <2>6, <2>7
  <2>12. c[i].bytes = b[j].bytes BY <2>7
  <2> QED BY <2>8, <2>9, <2>10, <2>11, <2>12
<1> SUFFICES ASSUME NEW i \in 1..(Len(c) + 1) PROVE BytesFrom(c, i) = BytesFrom(b, i + k) OBVIOUS
<1> DEFINE m == Len(c) + 1 - i
<1>2. m \in Nat /\ m <= Len(c) /\ Len(c) + 1 - m = i /\ Len(b) + 1 - m = i + k BY <1>0
<1>3. m \notin B BY <1>1
<1> HIDE DEF m
<1>4. BytesFrom(c, Len(c) + 1 - m) = BytesFrom(b, Len(b) + 1 - m) BY <1>2, <1>3
<1> QED BY <1>2, <1>4

(* An empty bucket adds none. *)
LEMMA BytesAppended ==
    ASSUME NEW b, b \in Seq(Buckets), NEW x, x \in Buckets, x.bytes = 0
    PROVE  LET c == Append(b, x) IN
           \A i \in 1..Len(b) : BytesFrom(c, i) = BytesFrom(b, i)
<1> DEFINE c == Append(b, x)
<1>0. c \in Seq(Buckets) /\ Len(c) = Len(b) + 1 /\ c[Len(c)] = x /\ Len(b) \in Nat /\ \A j \in 1..Len(b) : c[j] = b[j]
  OBVIOUS
<1> HIDE DEF c
<1> SUFFICES ASSUME NEW i \in 1..Len(b) PROVE BytesFrom(c, i) = BytesFrom(b, i) BY DEF c
<1> DEFINE f == [j \in i..Len(b) |-> b[j].bytes]
           g == [j \in i..Len(c) |-> c[j].bytes]
<1>1. i \in 1..(Len(b) + 1) /\ i \in 1..(Len(c) + 1) BY <1>0
<1>2. DOMAIN f = i..Len(b) /\ IsFiniteSet(i..Len(b)) /\ f \in [i..Len(b) -> Nat] /\ BytesFrom(b, i) = SumOf(f)
  BY <1>1, BytesWhole
<1>3. DOMAIN g = i..Len(c) /\ g \in [i..Len(c) -> Nat] /\ BytesFrom(c, i) = SumOf(g) BY <1>0, <1>1, BytesWhole
<1>4. \A j \in i..Len(b) : f[j] = g[j] BY <1>0
<1>5. g[Len(c)] = 0 BY <1>0
<1>6. i..Len(c) = i..Len(b) \cup {Len(c)} /\ Len(c) \notin i..Len(b) BY <1>0
<1> HIDE DEF f, g
<1>7. IsFiniteSet(DOMAIN f) /\ Len(c) \notin DOMAIN f /\ DOMAIN g = DOMAIN f \cup {Len(c)} /\ g \in [DOMAIN g -> Nat]
  BY <1>2, <1>3, <1>6
<1>8. \A j \in DOMAIN f : f[j] = g[j] BY <1>2, <1>4
<1>9. SumOf(g) = SumOf(f) + g[Len(c)] /\ SumOf(f) \in Nat BY <1>7, <1>8, SumGrows
<1> QED BY <1>2, <1>3, <1>5, <1>9

(* A byte in the last bucket is one more from each bucket on. *)
LEMMA BytesCounted ==
    ASSUME NEW b, b \in Seq(Buckets), b # <<>>
    PROVE  LET c == [b EXCEPT ![Len(b)].bytes = @ + 1] IN
           /\ c \in Seq(Buckets) /\ Len(c) = Len(b) /\ \A i \in 1..Len(b) : c[i].start = b[i].start
           /\ \A i \in 1..Len(b) : BytesFrom(c, i) = BytesFrom(b, i) + 1
<1> DEFINE n == Len(b)
           c == [b EXCEPT ![n].bytes = @ + 1]
<1>0. n \in Nat /\ n > 0 /\ n \in 1..n /\ DOMAIN b = 1..n OBVIOUS
<1>1. b \in [1..n -> Buckets] BY <1>0
<1> HIDE DEF n
<1>2. \A j \in 1..n : c[j] = IF j = n THEN [b[n] EXCEPT !.bytes = @ + 1] ELSE b[j] BY <1>0, <1>1
<1>3. b[n] \in Buckets BY <1>0, <1>1
<1>4. [b[n] EXCEPT !.bytes = @ + 1].start = b[n].start /\ [b[n] EXCEPT !.bytes = @ + 1].bytes = b[n].bytes + 1
      /\ [b[n] EXCEPT !.bytes = @ + 1] \in Buckets
  BY <1>3 DEF Buckets
<1>5. c \in [1..n -> Buckets] BY <1>0, <1>1, <1>4
<1>6. c \in Seq(Buckets) /\ Len(c) = n BY <1>0, <1>5
<1>7. \A j \in 1..n : c[j].start = b[j].start /\ c[j].bytes = IF j = n THEN b[j].bytes + 1 ELSE b[j].bytes
  <2> SUFFICES ASSUME NEW j \in 1..n
               PROVE  c[j].start = b[j].start /\ c[j].bytes = IF j = n THEN b[j].bytes + 1 ELSE b[j].bytes
    OBVIOUS
  <2>1. c[j] = IF j = n THEN [b[n] EXCEPT !.bytes = @ + 1] ELSE b[j] BY <1>2
  <2> HIDE DEF c
  <2> QED BY <2>1, <1>4
<1> HIDE DEF c
<1>8. ASSUME NEW i \in 1..n PROVE BytesFrom(c, i) = BytesFrom(b, i) + 1
  <2> DEFINE f == [j \in i..Len(b) |-> b[j].bytes]
             g == [j \in i..Len(c) |-> c[j].bytes]
  <2>1. Len(b) = n /\ Len(c) = n /\ i \in 1..(n + 1) BY <1>0, <1>6 DEF n
  <2>2. DOMAIN f = i..Len(b) /\ IsFiniteSet(i..Len(b)) /\ f \in [i..Len(b) -> Nat] /\ BytesFrom(b, i) = SumOf(f)
    BY <2>1, BytesWhole
  <2>3. DOMAIN g = i..Len(c) /\ BytesFrom(c, i) = SumOf(g) BY <1>6, <2>1, BytesWhole
  <2>4. \A j \in i..n : j # n => f[j] = g[j] BY <1>0, <1>7, <2>1
  <2>5. g[n] = f[n] + 1 /\ n \in i..n BY <1>0, <1>7, <2>1
  <2> HIDE DEF f, g
  <2>6. IsFiniteSet(DOMAIN f) /\ n \in DOMAIN f /\ DOMAIN g = DOMAIN f /\ f \in [DOMAIN f -> Nat] BY <2>1, <2>2, <2>3, <2>5
  <2>7. \A y \in DOMAIN f : y # n => f[y] = g[y] BY <2>1, <2>2, <2>4
  <2>8. SumOf(g) = SumOf(f) + 1 BY <2>5, <2>6, <2>7, SumBump
  <2> QED BY <2>2, <2>3, <2>8
<1>9. Len(c) = n /\ n = Len(b) /\ \A i \in 1..n : c[i].start = b[i].start BY <1>6, <1>7 DEF n
<1> QED BY <1>6, <1>8, <1>9 DEF c, n

-----------------------------------------------------------------------------
(* The rate window. *)

(* The window begins no later than now and never moves back. *)
LEMMA CutoffFacts ==
    ASSUME NEW now \in Nat
    PROVE  /\ Cutoff(now) \in Nat /\ Cutoff(now) <= now /\ Cutoff(now) <= Cutoff(now + 1)
           /\ \A x \in Nat : x + RateWindowMs <= now => x <= Cutoff(now)
<1>1. RateWindowMs \in Nat BY FlowTelemetryAssumption
<1> QED BY <1>1 DEF Cutoff

(* The time and the connection of a report. *)
LEMMA StampFacts ==
    ASSUME NEW f, IsBagOf(f), NEW r \in DOMAIN f
    PROVE  r[1] \in Nat /\ r[2] \in Connections /\ FloorOf(r[1]) \in Nat
<1>1. r \in Nat \X Connections BY DEF IsBagOf, Stamps
<1>2. r[1] \in Nat /\ r[2] \in Connections BY <1>1
<1> QED BY <1>2, FloorFacts

(* The fields of a bucket. *)
LEMMA BucketFacts ==
    ASSUME NEW b, b \in Seq(Buckets)
    PROVE  Len(b) \in Nat /\ \A i \in 1..Len(b) : b[i].start \in Nat /\ b[i].bytes \in Nat /\ b[i] \in Buckets
<1>1. Len(b) \in Nat /\ \A i \in 1..Len(b) : b[i] \in Buckets OBVIOUS
<1>2. \A x \in Buckets : x.start \in Nat /\ x.bytes \in Nat BY DEF Buckets
<1> QED BY <1>1, <1>2, Zenon

(* The buckets stay exact as time passes, *)
LEMMA RateTicks ==
    ASSUME NEW b, b \in Seq(Buckets), NEW f, IsBagOf(f), NEW now \in Nat, RateOK(b, f, now)
    PROVE  RateOK(b, f, now + 1)
<1>1. Spaced(b) BY DEF RateOK
<1>2. ASSUME NEW i \in 1..Len(b)
      PROVE  /\ b[i].start <= now + 1 /\ b[i].start = FloorOf(b[i].start) /\ BytesFrom(b, i) = Counted(f, b[i].start)
  BY BucketFacts DEF RateOK
<1>3. ASSUME NEW r \in DOMAIN f PROVE r[1] <= now + 1 /\ Covered(b, now + 1, r[1])
  <2>1. r[1] <= now /\ Covered(b, now, r[1]) BY DEF RateOK
  <2>2. r[1] \in Nat /\ FloorOf(r[1]) \in Nat /\ RateBucketMs \in Nat BY StampFacts, FlowTelemetryAssumption
  <2>3. Cutoff(now) \in Nat /\ Cutoff(now + 1) \in Nat /\ Cutoff(now) <= Cutoff(now + 1) BY CutoffFacts
  <2>4. FloorOf(r[1]) + RateBucketMs <= Cutoff(now) => FloorOf(r[1]) + RateBucketMs <= Cutoff(now + 1) BY <2>2, <2>3
  <2>5. Covered(b, now + 1, r[1]) BY <2>1, <2>4, Zenon DEF Covered
  <2> QED BY <2>1, <2>2, <2>5
<1> QED BY <1>1, <1>2, <1>3 DEF RateOK

(* What SubSeq keeps behind the first k. *)
LEMMA Dropped ==
    ASSUME NEW S, NEW b, b \in Seq(S), NEW k \in 0..Len(b)
    PROVE  LET c == SubSeq(b, k + 1, Len(b)) IN
           c \in Seq(S) /\ Len(c) = Len(b) - k /\ Len(b) \in Nat /\ \A i \in 1..Len(c) : c[i] = b[i + k]
<1> DEFINE c == SubSeq(b, k + 1, Len(b))
<1>0. Len(b) \in Nat OBVIOUS
<1>1. k + 1 \in Int /\ Len(b) \in Int /\ \A i \in (k + 1)..Len(b) : b[i] \in S BY <1>0
<1>2. c \in Seq(S) /\ Len(c) = (IF k + 1 <= Len(b) THEN Len(b) - (k + 1) + 1 ELSE 0)
      /\ \A i \in 1..(Len(b) - (k + 1) + 1) : c[i] = b[(k + 1) + i - 1]
  BY <1>1, SubSeqProperties
<1> HIDE DEF c
<1>3. Len(c) = Len(b) - k BY <1>0, <1>2
<1>4. ASSUME NEW i \in 1..Len(c) PROVE c[i] = b[i + k] BY <1>0, <1>2, <1>3
<1> QED BY <1>0, <1>2, <1>3, <1>4 DEF c

(* when buckets that ended before the window are dropped, *)
LEMMA RateDrops ==
    ASSUME NEW b, b \in Seq(Buckets), NEW f, IsBagOf(f), NEW now \in Nat, RateOK(b, f, now), NEW k \in 0..Len(b),
           \A i \in 1..k : b[i].start + RateBucketMs <= Cutoff(now)
    PROVE  RateOK(SubSeq(b, k + 1, Len(b)), f, now)
<1> DEFINE c == SubSeq(b, k + 1, Len(b))
<1>1. c \in Seq(Buckets) /\ Len(c) = Len(b) - k /\ Len(b) \in Nat /\ \A i \in 1..Len(c) : c[i] = b[i + k] BY Dropped, SMTT(30)
<1> HIDE DEF c
<1>2. \A i \in 1..Len(c) : i + k \in 1..Len(b) BY <1>1
<1>3. Spaced(c)
  <2> SUFFICES ASSUME NEW i \in 1..Len(c), NEW j \in 1..Len(c), i < j PROVE c[i].start + (j - i) * RateBucketMs <= c[j].start
    BY DEF Spaced
  <2>1. i + k \in 1..Len(b) /\ j + k \in 1..Len(b) /\ i + k < j + k /\ (j + k) - (i + k) = j - i BY <1>2
  <2>2. b[i + k].start + ((j + k) - (i + k)) * RateBucketMs <= b[j + k].start BY <2>1, Zenon DEF RateOK, Spaced
  <2>3. b[i + k].start + (j - i) * RateBucketMs <= b[j + k].start BY <2>1, <2>2
  <2>4. c[i] = b[i + k] /\ c[j] = b[j + k] BY <1>1
  <2> QED BY <2>3, <2>4, Zenon
<1>4. \A i \in 1..(Len(c) + 1) : BytesFrom(c, i) = BytesFrom(b, i + k)
  <2>1. \A j \in 1..Len(c) : c[j].bytes = b[j + k].bytes BY <1>1
  <2>2. Len(b) = Len(c) + k /\ k \in Nat BY <1>1
  <2>3. c \in Seq(Buckets) BY <1>1
  <2> QED BY <2>1, <2>2, <2>3, BytesSame
<1>5. ASSUME NEW i \in 1..Len(c)
      PROVE  c[i].start <= now /\ c[i].start = FloorOf(c[i].start) /\ BytesFrom(c, i) = Counted(f, c[i].start)
  BY <1>1, <1>2, <1>4 DEF RateOK
<1>6. ASSUME NEW r \in DOMAIN f PROVE r[1] <= now /\ Covered(c, now, r[1])
  <2>1. r[1] <= now /\ Covered(b, now, r[1]) BY DEF RateOK
  <2>2. CASE FloorOf(r[1]) + RateBucketMs <= Cutoff(now) BY <2>1, <2>2 DEF Covered
  <2>3. CASE \E i \in 1..Len(b) : b[i].start = FloorOf(r[1])
    <3>1. PICK i \in 1..Len(b) : b[i].start = FloorOf(r[1]) BY <2>3
    <3>2. CASE i <= k BY <2>1, <3>1, <3>2 DEF Covered
    <3>3. CASE ~ (i <= k)
      <4>1. i - k \in 1..Len(c) /\ (i - k) + k = i BY <1>1, <3>3
      <4>2. c[i - k] = b[(i - k) + k] BY <1>1, <4>1
      <4>3. c[i - k].start = FloorOf(r[1]) BY <3>1, <4>1, <4>2
      <4> QED BY <2>1, <4>1, <4>3 DEF Covered
    <3> QED BY <3>2, <3>3
  <2> QED BY <2>1, <2>2, <2>3 DEF Covered
<1>7. RateOK(c, f, now) BY <1>3, <1>5, <1>6 DEF RateOK
<1> QED BY <1>7 DEF c

(* Buckets are in order. *)
LEMMA Increasing ==
    ASSUME NEW b, b \in Seq(Buckets), Spaced(b), NEW i \in 1..Len(b), NEW j \in 1..Len(b), i <= j
    PROVE  b[i].start <= b[j].start
<1>1. b[i].start \in Nat /\ b[j].start \in Nat BY BucketFacts
<1>2. CASE i < j
  <2>1. b[i].start + (j - i) * RateBucketMs <= b[j].start BY <1>2 DEF Spaced
  <2>2. (j - i) * RateBucketMs \in Nat BY <1>2, FlowTelemetryAssumption
  <2> QED BY <1>1, <2>1, <2>2
<1> QED BY <1>1, <1>2

(* Two distances add up. *)
LEMMA StepsAddUp == ASSUME NEW s \in Nat, NEW t \in Nat, NEW u \in Nat, NEW p \in Nat, NEW m \in Nat, s + p <= t, t + m <= u
                    PROVE  s + (p + m) <= u
OBVIOUS

(* when a bucket is opened for the current time, *)
LEMMA RateOpens ==
    ASSUME NEW b, b \in Seq(Buckets), NEW f, IsBagOf(f), NEW now \in Nat, RateOK(b, f, now),
           b = <<>> \/ b[Len(b)].start # FloorOf(now)
    PROVE  RateOK(Append(b, [start |-> FloorOf(now), bytes |-> 0]), f, now)
<1> DEFINE x == [start |-> FloorOf(now), bytes |-> 0]
           c == Append(b, x)
           n == Len(b)
           m == RateBucketMs
<1>1. /\ FloorOf(now) \in Nat /\ FloorOf(now) <= now /\ now < FloorOf(now) + m /\ FloorOf(FloorOf(now)) = FloorOf(now)
      /\ m \in Nat /\ m > 0 BY FloorFacts
<1>2. x \in Buckets /\ x.bytes = 0 /\ x.start = FloorOf(now) BY <1>1 DEF Buckets
<1> HIDE DEF x
<1>3. c \in Seq(Buckets) /\ Len(c) = n + 1 /\ n \in Nat /\ c[n + 1] = x /\ \A i \in 1..n : c[i] = b[i] BY <1>2
<1>4. \A i \in 1..n : BytesFrom(c, i) = BytesFrom(b, i) BY <1>2, BytesAppended
<1> HIDE DEF c, n, m
<1>5. ASSUME NEW i \in 1..n PROVE b[i].start + m <= FloorOf(now)
  <2>1. n \in 1..n /\ b # <<>> BY <1>3 DEF n
  <2>2. b[n].start # FloorOf(now) BY <2>1 DEF n
  <2>3. b[n].start \in Nat /\ b[i].start \in Nat BY <2>1, BucketFacts DEF n
  <2>4. b[n].start <= now /\ b[n].start = FloorOf(b[n].start) BY <2>1 DEF RateOK, n
  <2>5. FloorOf(b[n].start) <= FloorOf(now) BY <2>3, <2>4, FloorsApart
  <2>6. FloorOf(b[n].start) < FloorOf(now) BY <1>1, <2>2, <2>3, <2>4, <2>5
  <2>7. FloorOf(b[n].start) + m <= FloorOf(now) BY <2>3, <2>6, FloorsApart DEF m
  <2>8. b[i].start <= b[n].start BY <2>1, Increasing DEF RateOK, n
  <2> QED BY <1>1, <2>3, <2>4, <2>7, <2>8
<1>6. Spaced(c)
  <2> SUFFICES ASSUME NEW i \in 1..Len(c), NEW j \in 1..Len(c), i < j PROVE c[i].start + (j - i) * m <= c[j].start
    BY DEF Spaced, m
  <2>1. i \in 1..n /\ c[i] = b[i] BY <1>3
  <2>2. CASE j \in 1..n BY <1>3, <2>1, <2>2 DEF RateOK, Spaced, m, n
  <2>3. CASE j = n + 1
    <3>1. c[j].start = FloorOf(now) BY <1>2, <1>3, <2>3
    <3>2. n \in 1..n BY <1>3, <2>1
    <3>3. b[n].start + m <= FloorOf(now) BY <1>5, <3>2
    <3>4. b[i].start + (n - i) * m <= b[n].start
      <4>1. CASE i < n BY <2>1, <3>2, <4>1 DEF RateOK, Spaced, m, n
      <4>2. CASE i = n
        <5>1. (n - i) * m = 0 BY <1>1, <1>3, <4>2
        <5>2. b[n].start \in Nat BY <3>2, BucketFacts DEF n
        <5> QED BY <4>2, <5>1, <5>2
      <4> QED BY <1>3, <2>1, <4>1, <4>2
    <3>5. n - i \in Nat /\ (j - i) = (n - i) + 1 BY <1>3, <2>1, <2>3
    <3> DEFINE d == n - i
               p == d * m
    <3>6. (j - i) * m = p + m /\ p \in Nat
      <4>1. d \in Nat /\ j - i = d + 1 BY <3>5
      <4> HIDE DEF d
      <4>2. (d + 1) * m = d * m + m /\ d * m \in Nat BY <1>1, <4>1, NextMultiple
      <4> QED BY <4>1, <4>2
    <3>7. b[i].start \in Nat /\ b[n].start \in Nat BY <2>1, <3>2, BucketFacts DEF n
    <3>9. b[i].start + p <= b[n].start BY <3>4
    <3> HIDE DEF p
    <3>8. b[i].start + (j - i) * m <= FloorOf(now) BY <1>1, <3>3, <3>6, <3>7, <3>9, StepsAddUp
    <3> QED BY <2>1, <3>1, <3>8
  <2> QED BY <1>3, <2>2, <2>3
<1>7. Counted(f, FloorOf(now)) = 0
  <2>1. Since(f, FloorOf(now)) = {}
    <3> SUFFICES ASSUME NEW r \in DOMAIN f, r[1] >= FloorOf(now) PROVE FALSE BY DEF Since
    <3>1. r[1] \in Nat /\ FloorOf(r[1]) \in Nat /\ r[1] <= now /\ Covered(b, now, r[1]) BY StampFacts DEF RateOK
    <3>2. FloorOf(FloorOf(now)) <= FloorOf(r[1]) BY <1>1, <3>1, FloorsApart
    <3>3. FloorOf(r[1]) <= FloorOf(now) BY <1>1, <3>1, FloorsApart
    <3>4. FloorOf(r[1]) = FloorOf(now) BY <1>1, <3>1, <3>2, <3>3
    <3>5. Cutoff(now) \in Nat /\ Cutoff(now) <= now BY CutoffFacts
    <3>6. ~ (FloorOf(now) + m <= Cutoff(now)) BY <1>1, <3>5
    <3>7. PICK i \in 1..n : b[i].start = FloorOf(now) BY <3>1, <3>4, <3>6 DEF Covered, m, n
    <3>8. b[i].start + m <= FloorOf(now) BY <1>5
    <3> QED BY <1>1, <3>7, <3>8
  <2>2. DOMAIN Restrict(f, {}) = {} BY DEF Restrict
  <2>3. SumOf(Restrict(f, {})) = 0 BY <2>2, SumNone
  <2> QED BY <2>1, <2>3, Zenon DEF Counted
<1>8. ASSUME NEW i \in 1..Len(c)
      PROVE  c[i].start <= now /\ c[i].start = FloorOf(c[i].start) /\ BytesFrom(c, i) = Counted(f, c[i].start)
  <2>1. CASE i \in 1..n BY <1>3, <1>4, <2>1 DEF RateOK, n
  <2>2. CASE i = n + 1
    <3>1. c[i] = x /\ c[i].start = FloorOf(now) BY <1>2, <1>3, <2>2
    <3>2. BytesFrom(c, n + 1) = 0 BY <1>2, <1>3, BucketFirst, BytesPast
    <3> QED BY <1>1, <1>7, <2>2, <3>1, <3>2
  <2> QED BY <1>3, <2>1, <2>2
<1>9. ASSUME NEW r \in DOMAIN f PROVE r[1] <= now /\ Covered(c, now, r[1]) BY <1>3 DEF RateOK, Covered, n
<1>10. RateOK(c, f, now) BY <1>6, <1>8, <1>9 DEF RateOK
<1> QED BY <1>10 DEF c, x

(* and when a byte is counted in it. *)
LEMMA RateCounts ==
    ASSUME NEW b, b \in Seq(Buckets), NEW f, IsBagOf(f), NEW now \in Nat, RateOK(b, f, now), NEW conn \in Connections,
           b # <<>>, b[Len(b)].start = FloorOf(now)
    PROVE  RateOK([b EXCEPT ![Len(b)].bytes = @ + 1], f (+) SetToBag({<<now, conn>>}), now)
<1> DEFINE c == [b EXCEPT ![Len(b)].bytes = @ + 1]
           r0 == <<now, conn>>
           g == f (+) SetToBag({r0})
<1>1. /\ c \in Seq(Buckets) /\ Len(c) = Len(b) /\ \A i \in 1..Len(b) : c[i].start = b[i].start
      /\ \A i \in 1..Len(b) : BytesFrom(c, i) = BytesFrom(b, i) + 1 BY BytesCounted
<1>2. r0 \in Stamps /\ r0[1] = now BY DEF Stamps
<1> HIDE DEF c, r0
<1>8. Reported(g, f, r0) BY <1>2, ReportAdds
<1>3. IsBagOf(g) /\ DOMAIN g = DOMAIN f \cup {r0}
  <2> HIDE DEF g
  <2> QED BY <1>8 DEF Reported
<1> HIDE DEF g
<1>4. Spaced(c) BY <1>1 DEF RateOK, Spaced
<1>5. ASSUME NEW i \in 1..Len(c)
      PROVE  c[i].start <= now /\ c[i].start = FloorOf(c[i].start) /\ BytesFrom(c, i) = Counted(g, c[i].start)
  <2> DEFINE s == b[i].start
  <2>1. i \in 1..Len(b) /\ c[i].start = s /\ BytesFrom(c, i) = BytesFrom(b, i) + 1 BY <1>1
  <2>2. s <= now /\ s = FloorOf(s) /\ BytesFrom(b, i) = Counted(f, s) BY <2>1 DEF RateOK
  <2> HIDE DEF s
  <2>3. Since(f, s) \subseteq DOMAIN f /\ Since(g, s) = Since(f, s) \cup {r0} /\ (r0 \in DOMAIN f => r0 \in Since(f, s))
    BY <1>2, <1>3, <2>2 DEF Since
  <2>4. Counted(g, s) = Counted(f, s) + 1 BY <1>2, <1>8, <2>3, PartGrows DEF Counted
  <2> QED BY <2>1, <2>2, <2>4
<1>6. ASSUME NEW r \in DOMAIN g PROVE r[1] <= now /\ Covered(c, now, r[1]) BY <1>1, <1>2, <1>3 DEF RateOK, Covered
<1>7. RateOK(c, g, now) BY <1>4, <1>5, <1>6 DEF RateOK
<1> QED BY <1>7 DEF c, g, r0

(* Max of two integers. *)
LEMMA MaxOfTwo ==
    ASSUME NEW a \in Int, NEW b \in Int
    PROVE  Max({a, b}) \in {a, b} /\ Max({a, b}) >= a /\ Max({a, b}) >= b
<1>1. \E x \in {a, b} : \A y \in {a, b} : x >= y OBVIOUS
<1> QED BY <1>1 DEF Max

(* The buckets with one for the current time at the end. *)
Opened(b, now) ==
    IF b # <<>> /\ Last(b).start = FloorOf(now) THEN b ELSE Append(b, [start |-> FloorOf(now), bytes |-> 0])

(* How many of n are over the limit. *)
Surplus(n, max) == IF n > max THEN n - max ELSE 0

(* The index ensure_bucket and push_bounded cut at. *)
LEMMA LastKept ==
    ASSUME NEW n \in Nat, NEW max \in Nat
    PROVE  Max({1, n - max + 1}) = Surplus(n, max) + 1 /\ Surplus(n, max) \in Nat /\ Surplus(n, max) <= n
<1>1. Max({1, n - max + 1}) \in {1, n - max + 1} /\ Max({1, n - max + 1}) >= 1 /\ Max({1, n - max + 1}) >= n - max + 1
  BY MaxOfTwo
<1> QED BY <1>1 DEF Surplus

(* ensure_bucket opens a bucket and drops the surplus (traffic.rs). *)
LEMMA EnsureIs ==
    ASSUME NEW b, b \in Seq(Buckets), NEW now \in Nat
    PROVE  LET all == Opened(b, now) IN
           /\ all \in Seq(Buckets) /\ all # <<>> /\ Len(all) \in Nat /\ Len(all) > 0 /\ all[Len(all)].start = FloorOf(now)
           /\ Surplus(Len(all), MaxRateBuckets) \in 0..Len(all)
           /\ ensure_bucket(b, now) = SubSeq(all, Surplus(Len(all), MaxRateBuckets) + 1, Len(all))
<1> DEFINE x == [start |-> FloorOf(now), bytes |-> 0]
           all == Opened(b, now)
<1>1. x \in Buckets /\ x.start = FloorOf(now) BY FloorFacts DEF Buckets
<1>2. all \in Seq(Buckets) /\ Len(all) \in Nat /\ Len(all) > 0 /\ all[Len(all)].start = FloorOf(now)
  BY <1>1 DEF Opened, Last
<1>3. ensure_bucket(b, now) = SubSeq(all, Max({1, Len(all) - MaxRateBuckets + 1}), Len(all))
  BY Zenon DEF ensure_bucket, Opened, FloorOf
<1> HIDE DEF all, x
<1>4. MaxRateBuckets \in Nat BY FlowTelemetryAssumption
<1>5. Max({1, Len(all) - MaxRateBuckets + 1}) = Surplus(Len(all), MaxRateBuckets) + 1
      /\ Surplus(Len(all), MaxRateBuckets) \in Nat /\ Surplus(Len(all), MaxRateBuckets) <= Len(all)
  BY <1>2, <1>4, LastKept
<1>6. all # <<>> /\ Surplus(Len(all), MaxRateBuckets) \in 0..Len(all) BY <1>2, <1>5
<1>7. ensure_bucket(b, now) = SubSeq(all, Surplus(Len(all), MaxRateBuckets) + 1, Len(all)) BY <1>3, <1>5
<1> QED BY <1>2, <1>6, <1>7 DEF all

(* It leaves at least one bucket, the current one last, and no more than *)
(* the limit.                                                            *)
LEMMA EnsureTypes ==
    ASSUME NEW b, b \in Seq(Buckets), NEW now \in Nat
    PROVE  LET c == ensure_bucket(b, now) IN
           c \in Seq(Buckets) /\ c # <<>> /\ Len(c) <= MaxRateBuckets /\ c[Len(c)].start = FloorOf(now)
<1> DEFINE all == Opened(b, now)
           n == Len(all)
           k == Surplus(n, MaxRateBuckets)
           c == SubSeq(all, k + 1, n)
<1>1. /\ all \in Seq(Buckets) /\ n \in Nat /\ n > 0 /\ all[n].start = FloorOf(now) /\ k \in 0..n
      /\ ensure_bucket(b, now) = c BY EnsureIs
<1> HIDE DEF all
<1>2. c \in Seq(Buckets) /\ Len(c) = n - k /\ \A i \in 1..Len(c) : c[i] = all[i + k] BY <1>1, Dropped
<1>3. MaxRateBuckets \in Nat /\ MaxRateBuckets > 0 BY FlowTelemetryAssumption
<1>4. n - k <= MaxRateBuckets /\ n - k > 0 BY <1>1, <1>3 DEF Surplus
<1> HIDE DEF n, k, c
<1>5. c # <<>> /\ Len(c) \in 1..Len(c) /\ Len(c) + k = n BY <1>1, <1>2, <1>4
<1>6. c[Len(c)] = all[n] BY <1>2, <1>5
<1> QED BY <1>1, <1>2, <1>4, <1>5, <1>6

(* What it drops ended before the window: MAX_RATE_BUCKETS buckets span *)
(* the window and a bucket more.                                        *)
LEMMA RateEnsured ==
    ASSUME NEW b, b \in Seq(Buckets), NEW f, IsBagOf(f), NEW now \in Nat, RateOK(b, f, now)
    PROVE  RateOK(ensure_bucket(b, now), f, now)
<1> DEFINE all == Opened(b, now)
           n == Len(all)
           k == Surplus(n, MaxRateBuckets)
           m == RateBucketMs
<1>1. /\ all \in Seq(Buckets) /\ n \in Nat /\ n > 0 /\ all[n].start = FloorOf(now) /\ k \in 0..n
      /\ ensure_bucket(b, now) = SubSeq(all, k + 1, n) BY EnsureIs
<1>2. RateOK(all, f, now) BY RateOpens DEF Opened, Last
<1> HIDE DEF all
<1>3. MaxRateBuckets \in Nat /\ m \in Nat /\ RateWindowMs \in Nat /\ MaxRateBuckets * m >= RateWindowMs + m
  BY FlowTelemetryAssumption
<1> HIDE DEF m
<1>4. ASSUME NEW i \in 1..k PROVE all[i].start + RateBucketMs <= Cutoff(now)
  <2>1. i \in 1..n /\ n \in 1..n /\ i < n /\ n - i \in Nat /\ MaxRateBuckets <= n - i BY <1>1, <1>3, FlowTelemetryAssumption DEF Surplus
  <2>2. all[i].start + (n - i) * m <= all[n].start BY <1>2, <2>1 DEF RateOK, Spaced, n, m
  <2> DEFINE p == (n - i) * m
             w == MaxRateBuckets * m
  <2>3. w <= p /\ w \in Nat /\ p \in Nat BY <1>3, <2>1, ProductGrows
  <2>4. all[i].start + p <= all[n].start /\ w >= RateWindowMs + m BY <1>3, <2>2
  <2> HIDE DEF p, w
  <2>5. all[i].start \in Nat /\ all[n].start \in Nat BY <1>1, <2>1, BucketFacts DEF n
  <2>6. FloorOf(now) \in Nat /\ FloorOf(now) <= now BY FloorFacts
  <2> DEFINE s == all[i].start
  <2>7. s + p <= now /\ s \in Nat BY <1>1, <2>3, <2>4, <2>5, <2>6
  <2> HIDE DEF s
  <2>8. (s + m) + RateWindowMs <= now /\ s + m \in Nat BY <1>3, <2>3, <2>4, <2>7
  <2>9. s + m <= Cutoff(now) BY <2>8, CutoffFacts
  <2> QED BY <2>9 DEF s, m
<1> HIDE DEF k
<1>5. RateOK(SubSeq(all, k + 1, Len(all)), f, now) BY <1>1, <1>2, <1>4, RateDrops DEF n
<1> QED BY <1>1, <1>5 DEF n

(* prune_buckets drops up to the first live bucket (traffic.rs). *)
LEMMA PruneIs ==
    ASSUME NEW b, b \in Seq(Buckets), NEW now \in Nat
    PROVE  \E k \in 0..Len(b) :
             /\ prune_buckets(b, now) = SubSeq(b, k + 1, Len(b))
             /\ \A i \in 1..k : ~ Live(b[i], now)
             /\ k < Len(b) => Live(b[k + 1], now)
<1> DEFINE I == {i \in 1..Len(b) : Live(b[i], now)}
           first == IF I # {} THEN Min(I) ELSE 0
<1>0. Len(b) \in Nat OBVIOUS
<1>1. SelectInSeq(b, LAMBDA x : Live(x, now)) = first BY DEF SelectInSeq
<1>2. prune_buckets(b, now) = IF first = 0 THEN <<>> ELSE SubSeq(b, first, Len(b)) BY <1>1, Zenon DEF prune_buckets
<1>3. CASE I = {} BY <1>0, <1>2, <1>3, SubSeqEmpty
<1>4. CASE I # {}
  <2>1. I \subseteq Nat BY <1>0
  <2>2. first = Min(I) BY <1>4
  <2>3. first \in I /\ \A y \in I : first <= y
    <3> HIDE DEF I, first
    <3> QED BY <1>4, <2>1, <2>2, MinOfNaturals
  <2>4. first \in 1..Len(b) /\ Live(b[first], now) BY <2>3
  <2>5. \A i \in 1..Len(b) : Live(b[i], now) => first <= i BY <2>3
  <2> HIDE DEF I, first
  <2> DEFINE k == first - 1
  <2>6. k \in 0..Len(b) /\ k + 1 = first /\ first # 0 BY <1>0, <2>4
  <2>7. \A i \in 1..k : ~ Live(b[i], now) BY <1>0, <2>4, <2>5, <2>6
  <2>8. prune_buckets(b, now) = SubSeq(b, k + 1, Len(b)) BY <1>2, <2>6
  <2>9. Live(b[k + 1], now) BY <2>4, <2>6
  <2> HIDE DEF k
  <2> QED BY <2>6, <2>7, <2>8, <2>9
<1> QED BY <1>3, <1>4

(* It leaves buckets, and no more of them. *)
LEMMA PruneTypes ==
    ASSUME NEW b, b \in Seq(Buckets), NEW now \in Nat
    PROVE  prune_buckets(b, now) \in Seq(Buckets) /\ Len(prune_buckets(b, now)) <= Len(b)
<1>1. PICK k \in 0..Len(b) : prune_buckets(b, now) = SubSeq(b, k + 1, Len(b)) BY PruneIs
<1> DEFINE c == SubSeq(b, k + 1, Len(b))
<1>2. c \in Seq(Buckets) /\ Len(c) = Len(b) - k /\ Len(b) \in Nat BY Dropped
<1> HIDE DEF c
<1>3. Len(c) <= Len(b) BY <1>2
<1> QED BY <1>1, <1>2, <1>3 DEF c

(* What it drops ended before the window. *)
LEMMA RatePruned ==
    ASSUME NEW b, b \in Seq(Buckets), NEW f, IsBagOf(f), NEW now \in Nat, RateOK(b, f, now)
    PROVE  RateOK(prune_buckets(b, now), f, now)
<1>1. PICK k \in 0..Len(b) : /\ prune_buckets(b, now) = SubSeq(b, k + 1, Len(b)) /\ \A i \in 1..k : ~ Live(b[i], now)
  BY PruneIs
<1>2. ASSUME NEW i \in 1..k PROVE b[i].start + RateBucketMs <= Cutoff(now)
  <2>1. i \in 1..Len(b) OBVIOUS
  <2>2. b[i].start \in Nat /\ RateBucketMs \in Nat /\ Cutoff(now) \in Nat
    BY <2>1, BucketFacts, FlowTelemetryAssumption, CutoffFacts
  <2>3. ~ (b[i].start + RateBucketMs >= Cutoff(now)) BY <1>1 DEF Live
  <2> QED BY <2>2, <2>3
<1> QED BY <1>1, <1>2, RateDrops

(* The rate is taken over at least a moment and at most the window. *)
LEMMA ElapsedBounds ==
    ASSUME NEW b, b \in Seq(Buckets), NEW now \in Nat
    PROVE  rate_elapsed_ms(b, now) \in Nat /\ rate_elapsed_ms(b, now) > 0 /\ rate_elapsed_ms(b, now) <= RateWindowMs
<1>0. RateBucketMs \in Nat /\ RateBucketMs > 0 /\ RateWindowMs \in Nat /\ RateWindowMs >= RateBucketMs BY FlowTelemetryAssumption
<1>1. CASE b = <<>> BY <1>0, <1>1 DEF rate_elapsed_ms
<1>2. CASE b # <<>>
  <2> DEFINE s == Head(b).start
             e == (IF now > s THEN now - s ELSE 0) + RateBucketMs
             x == Max({e, RateBucketMs})
  <2>1. s \in Nat
    <3>1. Head(b) \in Buckets BY <1>2
    <3> QED BY <3>1 DEF Buckets
  <2>2. rate_elapsed_ms(b, now) = Min({x, RateWindowMs}) BY <1>2 DEF rate_elapsed_ms
  <2>3. e \in Nat BY <1>0, <2>1
  <2> HIDE DEF e
  <2>4. x \in Nat /\ x >= RateBucketMs
    <3>1. e \in Int /\ RateBucketMs \in Int BY <1>0, <2>3
    <3>2. x \in {e, RateBucketMs} /\ x >= RateBucketMs BY <3>1, MaxOfTwo
    <3> QED BY <1>0, <2>3, <3>2
  <2> HIDE DEF x
  <2>5. Min({x, RateWindowMs}) \in {x, RateWindowMs} /\ Min({x, RateWindowMs}) <= RateWindowMs
    BY <1>0, <2>4, MinOfTwo
  <2> QED BY <1>0, <2>2, <2>4, <2>5
<1> QED BY <1>1, <1>2

(* The rate shown is at least the average of the window. *)
LEMMA RateShown ==
    ASSUME NEW b, b \in Seq(Buckets), NEW f, IsBagOf(f), NEW now \in Nat, RateOK(b, f, now)
    PROVE  bytes_per_second(b, now) >= (1000 * Counted(f, Cutoff(now))) \div RateWindowMs
<1> DEFINE c == prune_buckets(b, now)
           S == Since(f, Cutoff(now))
           y == Counted(f, Cutoff(now))
           e == rate_elapsed_ms(c, now)
<1>1. PICK k \in 0..Len(b) : /\ c = SubSeq(b, k + 1, Len(b)) /\ \A i \in 1..k : ~ Live(b[i], now)
                             /\ k < Len(b) => Live(b[k + 1], now)
  BY PruneIs
<1>2. c \in Seq(Buckets) /\ RateOK(c, f, now) BY PruneTypes, RatePruned
<1>3. Len(c) = Len(b) - k /\ Len(b) \in Nat /\ \A i \in 1..Len(c) : c[i] = b[i + k] BY <1>1, Dropped
<1> HIDE DEF c
<1>4. Cutoff(now) \in Nat /\ Cutoff(now) <= now BY CutoffFacts
<1>5. S \subseteq DOMAIN f BY DEF Since
<1>6. y = SumOf(Restrict(f, S)) /\ y \in Nat BY <1>5, PartOfBag DEF Counted
<1>7. e \in Nat /\ e > 0 /\ e <= RateWindowMs BY <1>2, ElapsedBounds
<1>8. ASSUME NEW r \in S PROVE \E i \in 1..Len(c) : c[i].start = FloorOf(r[1]) /\ c[i].start <= r[1]
  <2>1. r \in DOMAIN f /\ r[1] >= Cutoff(now) BY DEF Since
  <2>2. r[1] \in Nat /\ Covered(c, now, r[1]) BY <1>2, <2>1, StampFacts DEF RateOK
  <2>3. FloorOf(r[1]) \in Nat /\ FloorOf(r[1]) <= r[1] /\ r[1] < FloorOf(r[1]) + RateBucketMs /\ RateBucketMs \in Nat BY <2>2, FloorFacts
  <2>4. ~ (FloorOf(r[1]) + RateBucketMs <= Cutoff(now)) BY <1>4, <2>1, <2>2, <2>3
  <2> QED BY <2>2, <2>3, <2>4 DEF Covered
<1>9. recent_bytes(c, now) \in Nat /\ recent_bytes(c, now) >= y
  <2>1. CASE c = <<>> BY <1>6, <1>8, <2>1, SumNone DEF Restrict, recent_bytes
  <2>2. CASE c # <<>>
    <3>1. 1 \in 1..Len(c) /\ Len(c) \in Nat BY <1>2, <2>2
    <3>2. Live(c[1], now) BY <1>1, <1>3, <3>1
    <3>3. ASSUME NEW i \in 1..Len(c) PROVE Live(c[i], now)
      BY <1>2, <1>4, <3>1, <3>2, Increasing, BucketFacts, FlowTelemetryAssumption DEF RateOK, Live
    <3> DEFINE g == [i \in DOMAIN c |-> IF Live(c[i], now) THEN c[i].bytes ELSE 0]
               h == [j \in 1..Len(c) |-> c[j].bytes]
    <3>4. DOMAIN c = 1..Len(c) BY <1>2
    <3>5. g = h BY <3>3, <3>4
    <3>6. recent_bytes(c, now) = BytesFrom(c, 1) BY <3>5 DEF recent_bytes, BytesFrom
    <3> DEFINE s == c[1].start
    <3>7. BytesFrom(c, 1) = Counted(f, s) BY <1>2, <3>1 DEF RateOK
    <3>8. s \in Nat BY <1>2, <3>1, BucketFacts
    <3>9. S \subseteq Since(f, s)
      <4> SUFFICES ASSUME NEW r \in S PROVE r \in Since(f, s) OBVIOUS
      <4>1. PICK i \in 1..Len(c) : c[i].start <= r[1] BY <1>8
      <4>2. s <= c[i].start /\ c[i].start \in Nat BY <1>2, <3>1, Increasing, BucketFacts DEF RateOK
      <4>3. r \in DOMAIN f /\ r[1] \in Nat BY <1>5, StampFacts
      <4> HIDE DEF s, S
      <4>4. r[1] >= s BY <3>8, <4>1, <4>2, <4>3
      <4> QED BY <4>3, <4>4 DEF Since
    <3> HIDE DEF s, S
    <3> DEFINE T == Since(f, s)
               u == Restrict(f, S)
               v == Restrict(f, T)
    <3>10. T \subseteq DOMAIN f BY DEF Since
    <3>11. DOMAIN u = S /\ \A x \in S : u[x] = f[x] BY <1>5, PartOfBag
    <3>12. DOMAIN v = T /\ IsFiniteSet(T) /\ v \in [T -> Nat] /\ (\A x \in T : v[x] = f[x]) /\ SumOf(v) \in Nat BY <3>10, PartOfBag
    <3>13. Counted(f, s) = SumOf(v) BY DEF Counted
    <3>17. S \subseteq T BY <3>9
    <3> HIDE DEF T, u, v
    <3>14. IsFiniteSet(DOMAIN v) /\ v \in [DOMAIN v -> Nat] /\ DOMAIN u \subseteq DOMAIN v BY <3>11, <3>12, <3>17
    <3>15. \A x \in DOMAIN u : u[x] = v[x] BY <3>11, <3>12, <3>17
    <3>16. SumOf(u) <= SumOf(v) BY <3>14, <3>15, SumSmaller
    <3>18. y = SumOf(u) BY <1>6 DEF u
    <3>19. recent_bytes(c, now) = SumOf(v) BY <3>6, <3>7, <3>13
    <3> HIDE DEF y
    <3> QED BY <1>6, <3>12, <3>16, <3>18, <3>19
  <2> QED BY <2>1, <2>2
<1>10. bytes_per_second(b, now) = (recent_bytes(c, now) * 1000) \div e BY DEF bytes_per_second, c
<1> DEFINE p == recent_bytes(c, now)
<1> HIDE DEF e, y, p
<1>11. p \in Nat /\ p >= y BY <1>9 DEF p
<1>12. p * 1000 \in Nat /\ 1000 * y \in Nat /\ 1000 * y <= p * 1000 BY <1>6, <1>11
<1>13. RateWindowMs \in Nat BY FlowTelemetryAssumption
<1> DEFINE P == p * 1000
           Y == 1000 * y
<1>14. P \in Nat /\ Y \in Nat /\ Y <= P BY <1>12
<1>15. bytes_per_second(b, now) = P \div e BY <1>10 DEF p
<1> HIDE DEF P
<1>16. (P \div e) >= (Y \div RateWindowMs)
  <2> HIDE DEF Y
  <2> QED BY <1>7, <1>13, <1>14, RateGrows
<1> QED BY <1>15, <1>16 DEF y

-----------------------------------------------------------------------------
(* The newest observations. *)

(* The rows newer than r, *)
Above(rows, r) == {s \in rows : Newer(s, r)}

(* and how many they are. *)
Rank(rows, r) == Cardinality(Above(rows, r))

(* The newest n rows are those of rank less than n. *)
LEMMA NewestIs == ASSUME NEW rows, NEW n PROVE Newest(rows, n) = {r \in rows : Rank(rows, r) < n}
BY Zenon DEF Newest, Rank, Above

(* Newer is a total order of times and connections. *)
LEMMA NewerOrders ==
    /\ \A a, b, c \in Stamps : Newer(a, b) /\ Newer(b, c) => Newer(a, c)
    /\ \A a \in Stamps : ~ Newer(a, a)
    /\ \A a, b \in Stamps : a # b => Newer(a, b) \/ Newer(b, a)
<1>1. Connections \subseteq Nat BY FlowTelemetryAssumption
<1>2. \A a \in Stamps : a[1] \in Nat /\ a[2] \in Nat BY <1>1 DEF Stamps
<1>3. \A a, b \in Stamps : a[1] = b[1] /\ a[2] = b[2] => a = b BY DEF Stamps
<1>4. ASSUME NEW a \in Stamps, NEW b \in Stamps, a # b PROVE Newer(a, b) \/ Newer(b, a)
  BY <1>2, <1>3, <1>4 DEF Newer
<1>5. ASSUME NEW a \in Stamps, NEW b \in Stamps, NEW c \in Stamps, Newer(a, b), Newer(b, c) PROVE Newer(a, c)
  BY <1>2, <1>5 DEF Newer
<1>6. ASSUME NEW a \in Stamps PROVE ~ Newer(a, a) BY <1>2 DEF Newer
<1> QED BY <1>4, <1>5, <1>6, Zenon

(* Ranks are naturals. *)
LEMMA RankFacts ==
    ASSUME NEW rows, IsFiniteSet(rows), NEW r
    PROVE  Rank(rows, r) \in Nat /\ IsFiniteSet(Above(rows, r)) /\ \A S \in SUBSET Above(rows, r) : Cardinality(S) \in Nat /\ Cardinality(S) <= Rank(rows, r)
<1>1. Above(rows, r) \subseteq rows BY DEF Above
<1>2. IsFiniteSet(Above(rows, r)) BY <1>1, FS_Subset
<1>3. \A S \in SUBSET Above(rows, r) : IsFiniteSet(S) /\ Cardinality(S) <= Cardinality(Above(rows, r)) BY <1>2, FS_Subset
<1> QED BY <1>2, <1>3, FS_CardinalityType DEF Rank

(* An older row has a greater rank. *)
LEMMA RankGrows ==
    ASSUME NEW rows, IsFiniteSet(rows), rows \subseteq Stamps, NEW a \in rows, NEW b \in rows, Newer(a, b)
    PROVE  Rank(rows, a) < Rank(rows, b)
<1> DEFINE A == Above(rows, a)
<1>1. a \notin A /\ A \cup {a} \subseteq Above(rows, b) BY NewerOrders, Zenon DEF Above
<1>2. IsFiniteSet(A) /\ Rank(rows, a) \in Nat /\ Rank(rows, b) \in Nat BY RankFacts
<1>3. Cardinality(A \cup {a}) = Cardinality(A) + 1 BY <1>1, <1>2, FS_AddElement
<1>4. Cardinality(A \cup {a}) <= Rank(rows, b) BY <1>1, RankFacts
<1>5. Cardinality(A) = Rank(rows, a) BY DEF Rank
<1> QED BY <1>2, <1>3, <1>4, <1>5

(* There are at most n newest rows. *)
LEMMA NewestBounded ==
    ASSUME NEW rows, IsFiniteSet(rows), rows \subseteq Stamps, NEW n \in Nat
    PROVE  IsFiniteSet(Newest(rows, n)) /\ Cardinality(Newest(rows, n)) <= n
<1> DEFINE K == Newest(rows, n)
<1>1. K \subseteq rows /\ \A r \in K : Rank(rows, r) \in Nat /\ Rank(rows, r) < n BY NewestIs, RankFacts
<1>2. IsFiniteSet(K) BY <1>1, FS_Subset
<1> HIDE DEF K
<1>3. CASE K = {} BY <1>2, <1>3, FS_EmptySet DEF K
<1>4. CASE K # {}
  <2> DEFINE D == {n - Rank(rows, r) : r \in K}
  <2>1. D \subseteq Nat /\ D # {} BY <1>1, <1>4
  <2>2. PICK d \in D : \A y \in D : d <= y
    <3> HIDE DEF D
    <3> QED BY <2>1, LeastNatural
  <2>3. PICK r \in K : d = n - Rank(rows, r) BY <2>2
  <2>4. K \ {r} \subseteq Above(rows, r) BY <1>1, <2>2, <2>3, NewerOrders, RankGrows DEF Above
  <2>5. K \ {r} \in SUBSET Above(rows, r) BY <2>4
  <2>6. Cardinality(K \ {r}) <= Rank(rows, r) /\ Cardinality(K \ {r}) \in Nat BY <2>5, RankFacts
  <2>7. Cardinality(K \ {r}) = Cardinality(K) - 1 /\ Cardinality(K) \in Nat BY <1>2, FS_RemoveElement, FS_CardinalityType
  <2>8. Rank(rows, r) \in Nat /\ Rank(rows, r) < n BY <1>1
  <2>9. Cardinality(K) <= n BY <2>6, <2>7, <2>8
  <2> QED BY <1>2, <2>9 DEF K
<1> QED BY <1>3, <1>4

(* Pruning after each insert loses none of the newest, in whichever order *)
(* the rows arrive.                                                       *)
LEMMA NewestOfNewest ==
    ASSUME NEW rows, IsFiniteSet(rows), rows \subseteq Stamps, NEW n \in Nat, NEW o \in Stamps
    PROVE  Newest(Newest(rows, n) \cup {o}, n) = Newest(rows \cup {o}, n)
<1> DEFINE K == Newest(rows, n)
           L == K \cup {o}
           M == rows \cup {o}
<1>1. K \subseteq rows /\ \A r \in rows : r \in K <=> Rank(rows, r) < n BY NewestIs
<1>2. L \subseteq M /\ rows \subseteq M /\ M \subseteq Stamps BY <1>1
<1>3. IsFiniteSet(M) /\ IsFiniteSet(L) BY <1>2, FS_AddElement, FS_Subset
<1>4. \A r : r \in Newest(L, n) <=> r \in L /\ Rank(L, r) < n BY NewestIs
<1>5. \A r : r \in Newest(M, n) <=> r \in M /\ Rank(M, r) < n BY NewestIs
<1>6. \A r : Rank(rows, r) \in Nat /\ Rank(M, r) \in Nat /\ Rank(L, r) \in Nat BY <1>3, RankFacts
<1>7. M = rows \cup {o} /\ L = K \cup {o} OBVIOUS
<1> HIDE DEF K, L, M
<1>8. ASSUME NEW r, r \in Newest(M, n) PROVE r \in Newest(L, n)
  <2>1. r \in M /\ Rank(M, r) < n BY <1>5, <1>8
  <2>2. Above(rows, r) \in SUBSET Above(M, r) /\ Above(L, r) \in SUBSET Above(M, r) BY <1>2 DEF Above
  <2>3. Rank(rows, r) <= Rank(M, r) /\ Rank(L, r) <= Rank(M, r) BY <1>3, <2>2, RankFacts DEF Rank
  <2>4. Rank(rows, r) < n /\ Rank(L, r) < n BY <1>6, <2>1, <2>3
  <2>5. r \in L BY <1>1, <1>7, <2>1, <2>4
  <2> QED BY <1>4, <2>4, <2>5
<1>9. ASSUME NEW r, r \in Newest(L, n) PROVE r \in Newest(M, n)
  <2>1. r \in L /\ Rank(L, r) < n /\ r \in M /\ r \in Stamps BY <1>2, <1>4, <1>9
  <2> SUFFICES ASSUME ~ (Rank(M, r) < n) PROVE FALSE BY <1>5, <2>1
  <2>2. PICK s0 \in rows : s0 \notin L /\ Newer(s0, r)
    <3> SUFFICES ASSUME \A s \in rows : Newer(s, r) => s \in L PROVE FALSE OBVIOUS
    <3>1. Above(M, r) \in SUBSET Above(L, r) BY <1>7 DEF Above
    <3>2. Cardinality(Above(M, r)) <= Rank(L, r) BY <1>3, <3>1, RankFacts
    <3>3. Rank(M, r) <= Rank(L, r) BY <3>2 DEF Rank
    <3> QED BY <1>6, <2>1, <3>3
  <2> DEFINE D == {Rank(rows, s) : s \in {t \in rows : t \notin L /\ Newer(t, r)}}
  <2>3. D \subseteq Nat /\ D # {} BY <1>6, <2>2
  <2>4. PICK d \in D : \A y \in D : d <= y
    <3> HIDE DEF D
    <3> QED BY <2>3, LeastNatural
  <2>5. PICK s \in rows : s \notin L /\ Newer(s, r) /\ d = Rank(rows, s) BY <2>4
  <2>6. ~ (Rank(rows, s) < n) BY <1>1, <1>7, <2>5
  <2>7. Above(rows, s) \in SUBSET Above(L, r)
    <3> SUFFICES ASSUME NEW x \in rows, Newer(x, s) PROVE x \in L /\ Newer(x, r) BY DEF Above
    <3>1. x \in Stamps /\ s \in Stamps OBVIOUS
    <3>2. Newer(x, r) BY <2>1, <2>5, <3>1, NewerOrders, Zenon
    <3>3. Rank(rows, x) < Rank(rows, s) BY RankGrows
    <3>4. x \in L BY <1>6, <2>4, <2>5, <3>2, <3>3
    <3> QED BY <3>2, <3>4
  <2>8. Cardinality(Above(rows, s)) <= Rank(L, r) BY <1>3, <2>7, RankFacts
  <2>9. Rank(rows, s) <= Rank(L, r) BY <2>8 DEF Rank
  <2> QED BY <1>6, <2>1, <2>6, <2>9
<1>10. Newest(L, n) = Newest(M, n) BY <1>8, <1>9
<1> QED BY <1>10 DEF K, L, M

-----------------------------------------------------------------------------
(* Counters by host and recent flows. *)

(* Membership in a set of maps. *)
LEMMA MapIs == ASSUME NEW f, NEW S, NEW T PROVE f \in MapOf(S, T) <=> DOMAIN f \subseteq S /\ f \in [DOMAIN f -> T]
BY DEF MapOf

(* increment_bounded adds one to one key and keeps the bound *)
(* (diagnostics.rs).                                         *)
LEMMA IncrementOne ==
    ASSUME NEW map, IsFiniteSet(DOMAIN map), map \in [DOMAIN map -> Nat], KeysBounded(map), NEW key
    PROVE  LET g == increment_bounded(map, key) IN
           /\ IsFiniteSet(DOMAIN g) /\ g \in [DOMAIN g -> Nat] /\ DOMAIN g \subseteq DOMAIN map \cup {key, OtherKey}
           /\ KeysBounded(g) /\ SumOf(g) = SumOf(map) + 1
<1> DEFINE D == DOMAIN map
           k == IF key \in D \/ Cardinality(D) < MaxAggregateKeys THEN key ELSE OtherKey
           n == IF k \in D THEN map[k] + 1 ELSE 1
           g == Entered(map, k, n)
<1>1. increment_bounded(map, key) = g BY Zenon DEF increment_bounded
<1>2. n \in Nat OBVIOUS
<1>3. k \in {key, OtherKey} OBVIOUS
<1>4. MaxAggregateKeys \in Nat /\ Cardinality(D) \in Nat BY FlowTelemetryAssumption, FS_CardinalityType
<1>5. k \in D \/ Cardinality(D) < MaxAggregateKeys \/ (k = OtherKey /\ ~ (Cardinality(D) < MaxAggregateKeys)) OBVIOUS
<1>6. k \in D => n = map[k] + 1 OBVIOUS
<1>7. k \notin D => n = 1 OBVIOUS
<1> HIDE DEF k, n
<1>8. DOMAIN g = D \cup {k} /\ g[k] = n /\ (\A x \in D : x # k => g[x] = map[x]) /\ g = [x \in DOMAIN g |-> g[x]]
  BY DEF Entered
<1> HIDE DEF g
<1>9. \A x \in DOMAIN g : g[x] \in Nat BY <1>2, <1>8
<1>10. g \in [DOMAIN g -> Nat] BY <1>8, <1>9
<1>11. IsFiniteSet(DOMAIN g) /\ DOMAIN g \subseteq D \cup {key, OtherKey} BY <1>3, <1>8, FS_AddElement
<1>12. CASE k \in D BY <1>1, <1>6, <1>8, <1>10, <1>11, <1>12, SumBump DEF KeysBounded
<1>13. CASE k \notin D
  <2>1. Cardinality(DOMAIN g) = Cardinality(D) + 1 BY <1>8, <1>13, FS_AddElement
  <2>2. \A x \in D : map[x] = g[x] BY <1>8, <1>13
  <2>3. SumOf(g) = SumOf(map) + g[k] BY <1>8, <1>10, <1>13, <2>2, SumGrows
  <2>4. SumOf(g) = SumOf(map) + 1 BY <1>7, <1>8, <1>13, <2>3
  <2>5. KeysBounded(g) BY <1>4, <1>5, <1>8, <1>13, <2>1 DEF KeysBounded
  <2> QED BY <1>1, <1>10, <1>11, <2>4, <2>5
<1> QED BY <1>12, <1>13

(* push_bounded keeps the bound. *)
LEMMA PushBounded ==
    ASSUME NEW S, NEW s, s \in Seq(S), NEW x \in S, NEW max \in Nat, max > 0
    PROVE  push_bounded(s, x, max) \in Seq(S) /\ Len(push_bounded(s, x, max)) <= max
<1> DEFINE all == Append(s, x)
           k == Surplus(Len(all), max)
           c == SubSeq(all, k + 1, Len(all))
<1>1. all \in Seq(S) /\ Len(all) \in Nat OBVIOUS
<1>2. push_bounded(s, x, max) = SubSeq(all, Max({1, Len(all) - max + 1}), Len(all)) BY DEF push_bounded
<1> HIDE DEF all
<1>3. Max({1, Len(all) - max + 1}) = k + 1 /\ k \in Nat /\ k <= Len(all) BY <1>1, LastKept
<1>4. Len(all) - k <= max BY <1>1 DEF Surplus
<1>5. k \in 0..Len(all) BY <1>1, <1>3
<1> HIDE DEF k
<1>6. c \in Seq(S) /\ Len(c) = Len(all) - k BY <1>1, <1>5, Dropped
<1>7. push_bounded(s, x, max) = c BY <1>2, <1>3
<1> QED BY <1>4, <1>6, <1>7

-----------------------------------------------------------------------------
(* The steps of the accounts. *)

(* The fields of the monitor. *)
LEMMA TrafficFields ==
    ASSUME TeleTypes
    PROVE  /\ traffic = [flows |-> traffic.flows, total |-> traffic.total, buckets |-> traffic.buckets]
           /\ DOMAIN traffic.flows \subseteq Connections /\ traffic.flows \in [DOMAIN traffic.flows -> Nat]
           /\ traffic.total \in Nat /\ traffic.buckets \in Seq(Buckets) /\ clock \in Nat
<1>1. /\ traffic = [flows |-> traffic.flows, total |-> traffic.total, buckets |-> traffic.buckets]
      /\ traffic.flows \in MapOf(Connections, Nat) /\ traffic.total \in Nat /\ traffic.buckets \in Seq(Buckets) /\ clock \in Nat
  BY DEF TeleTypes
<1> QED BY <1>1, MapIs

(* The fields of the diagnostics. *)
LEMMA DiagFields ==
    ASSUME TeleTypes
    PROVE  /\ diag = [accepted |-> diag.accepted, completed |-> diag.completed, in_flight |-> diag.in_flight,
                      accept_errors |-> diag.accept_errors, by_host |-> diag.by_host, recent |-> diag.recent]
           /\ diag.accepted \in Nat /\ diag.completed \in Nat /\ diag.in_flight \in Nat /\ diag.accept_errors \in Nat
           /\ DOMAIN diag.by_host \subseteq HostKeys /\ diag.by_host \in [DOMAIN diag.by_host -> Nat]
           /\ diag.recent \in Seq(Connections)
<1>1. /\ diag = [accepted |-> diag.accepted, completed |-> diag.completed, in_flight |-> diag.in_flight,
                 accept_errors |-> diag.accept_errors, by_host |-> diag.by_host, recent |-> diag.recent]
      /\ diag.accepted \in Nat /\ diag.completed \in Nat /\ diag.in_flight \in Nat /\ diag.accept_errors \in Nat
      /\ diag.by_host \in MapOf(HostKeys, Nat) /\ diag.recent \in Seq(Connections)
  BY DEF TeleTypes
<1> QED BY <1>1, MapIs

(* A conjunct whose variables do not change stays: completions, *)
LEMMA HostsSame == ASSUME TeleHosts, diag'.by_host = diag.by_host, diag'.completed = diag.completed PROVE TeleHosts'
BY DEF TeleHosts

(* tasks, *)
LEMMA TasksSame ==
    ASSUME TeleTasks, UNCHANGED <<task, aborted, finished>>, DOMAIN traffic'.flows = DOMAIN traffic.flows, UNCHANGED diag,
           \A r \in DOMAIN reports' : task[r[2]] \notin {"idle", "refused"}
    PROVE  TeleTasks'
<1>1. Occupied' = Occupied /\ InState("running")' = InState("running") /\ InState("aborted")' = InState("aborted")
  BY DEF Occupied, InState
<1> QED BY <1>1 DEF TeleTasks

(* totals, *)
LEMMA TotalsSame ==
    ASSUME TeleTotals, UNCHANGED reports, traffic'.total = traffic.total, traffic'.flows = traffic.flows
    PROVE  TeleTotals'
BY DEF TeleTotals

(* buckets, *)
LEMMA RateSame ==
    ASSUME TeleRate, UNCHANGED <<clock, steady, reports>>, traffic'.buckets = traffic.buckets
    PROVE  TeleRate'
BY DEF TeleRate

(* and the stored observations. *)
LEMMA TableSame == ASSUME TableKeepsNewest, UNCHANGED <<table, written>> PROVE TableKeepsNewest'
BY DEF TableKeepsNewest

(* The accounts rest while another part of the flow path moves. *)
LEMMA TeleRests == ASSUME TeleInv, UNCHANGED telemetryVars PROVE TeleInv'
<1>1. TeleTypes' BY DEF TeleInv, TeleTypes, telemetryVars
<1>2. TeleHosts' BY HostsSame DEF TeleInv, telemetryVars
<1>3. TeleTasks' BY TasksSame DEF TeleInv, telemetryVars, TeleTasks
<1>4. TeleTotals' BY TotalsSame DEF TeleInv, telemetryVars
<1>5. TeleRate' BY RateSame DEF TeleInv, telemetryVars
<1>6. TableKeepsNewest' BY TableSame DEF TeleInv, telemetryVars
<1> QED BY <1>1, <1>2, <1>3, <1>4, <1>5, <1>6 DEF TeleInv

(* Time passes. *)
LEMMA TickKeeps == ASSUME TeleInv, Tick PROVE TeleInv'
<1>0. /\ clock' = clock + 1 /\ UNCHANGED <<task, finished, traffic, diag, writes, table, reports, written, aborted, steady>>
      /\ TeleTypes /\ TeleHosts /\ TeleTasks /\ TeleTotals /\ TeleRate /\ TableKeepsNewest BY DEF Tick, TeleInv
<1>1. TeleTypes' BY <1>0 DEF TeleTypes
<1>2. TeleHosts' BY <1>0, HostsSame
<1>3. TeleTasks' BY <1>0, TasksSame DEF TeleTasks
<1>4. TeleTotals' BY <1>0, TotalsSame
<1>5. TeleRate' BY <1>0, TrafficFields, RateTicks DEF TeleTypes, TeleRate
<1>6. TableKeepsNewest' BY <1>0, TableSame
<1> QED BY <1>1, <1>2, <1>3, <1>4, <1>5, <1>6 DEF TeleInv

(* The clock is set back. *)
LEMMA ClockBackKeeps == ASSUME TeleInv, ClockBack PROVE TeleInv'
<1>0. /\ clock > RateBucketMs /\ clock' = clock - RateBucketMs /\ steady' = FALSE
      /\ UNCHANGED <<task, finished, traffic, diag, writes, table, reports, written, aborted>>
      /\ TeleTypes /\ TeleHosts /\ TeleTasks /\ TeleTotals /\ TableKeepsNewest BY DEF ClockBack, TeleInv
<1>1. TeleTypes'
  <2>1. clock \in Nat /\ RateBucketMs \in Nat BY <1>0, FlowTelemetryAssumption DEF TeleTypes
  <2>2. clock' \in Nat BY <1>0, <2>1
  <2>3. steady' \in BOOLEAN BY <1>0, Zenon
  <2> QED BY <1>0, <2>2, <2>3 DEF TeleTypes
<1>2. TeleHosts' BY <1>0, HostsSame
<1>3. TeleTasks' BY <1>0, TasksSame DEF TeleTasks
<1>4. TeleTotals' BY <1>0, TotalsSame
<1>5. TeleRate' BY <1>0 DEF TeleRate
<1>6. TableKeepsNewest' BY <1>0, TableSame
<1> QED BY <1>1, <1>2, <1>3, <1>4, <1>5, <1>6 DEF TeleInv

(* TrafficMonitor::snapshot. *)
LEMMA SnapshotKeeps == ASSUME TeleInv, TrafficSnapshot PROVE TeleInv'
<1>0. /\ traffic' = [traffic EXCEPT !.buckets = prune_buckets(@, clock)]
      /\ UNCHANGED <<clock, task, finished, diag, writes, table, reports, written, aborted, steady>>
      /\ TeleTypes /\ TeleHosts /\ TeleTasks /\ TeleTotals /\ TeleRate /\ TableKeepsNewest BY DEF TrafficSnapshot, TeleInv
<1> DEFINE c == prune_buckets(traffic.buckets, clock)
<1>1. /\ traffic = [flows |-> traffic.flows, total |-> traffic.total, buckets |-> traffic.buckets]
      /\ traffic.buckets \in Seq(Buckets) /\ clock \in Nat /\ IsBagOf(reports)
      /\ Len(traffic.buckets) <= MaxRateBuckets /\ Len(traffic.buckets) \in Nat
  BY <1>0, TrafficFields DEF TeleTypes
<1>2. c \in Seq(Buckets) /\ Len(c) <= Len(traffic.buckets) BY <1>1, PruneTypes
<1>3. traffic' = [flows |-> traffic.flows, total |-> traffic.total, buckets |-> c] BY <1>0, <1>1
<1>10. RateOK(traffic.buckets, reports, clock) => RateOK(c, reports, clock) BY <1>1, RatePruned
<1> HIDE DEF c
<1>4. TeleTypes'
  <2>1. Len(c) <= MaxRateBuckets BY <1>1, <1>2, FlowTelemetryAssumption
  <2>2. traffic' \in [flows : MapOf(Connections, Nat), total : Nat, buckets : Seq(Buckets)] /\ traffic'.buckets = c
    BY <1>0, <1>2, <1>3 DEF TeleTypes
  <2> QED BY <1>0, <2>1, <2>2 DEF TeleTypes
<1>5. TeleHosts' BY <1>0, HostsSame
<1>6. TeleTasks' BY <1>0, <1>3, TasksSame DEF TeleTasks
<1>7. TeleTotals' BY <1>0, <1>3, TotalsSame
<1>8. TeleRate' BY <1>0, <1>3, <1>10 DEF TeleRate
<1>9. TableKeepsNewest' BY <1>0, TableSame
<1> QED BY <1>4, <1>5, <1>6, <1>7, <1>8, <1>9 DEF TeleInv

(* The reports of a connection. *)
ReportsOf(f, c) == {r \in DOMAIN f : r[2] = c}

(* TrafficObserver::record_bytes. *)
LEMMA RecordBytesKeeps == ASSUME TeleInv, NEW c \in Connections, record_bytes(c) PROVE TeleInv'
<1> DEFINE b == ensure_bucket(traffic.buckets, clock)
           d == [b EXCEPT ![Len(b)].bytes = @ + 1]
           r0 == <<clock, c>>
           fl == traffic.flows
           gl == [fl EXCEPT ![c] = @ + 1]
<1>0. /\ traffic' = [traffic EXCEPT !.flows[c] = @ + 1, !.total = @ + 1, !.buckets = d]
      /\ task[c] \in {"running", "ended", "aborted"} /\ c \in DOMAIN traffic.flows
      /\ reports' = reports (+) SetToBag({r0})
      /\ UNCHANGED <<clock, task, finished, diag, writes, table, written, aborted, steady>>
      /\ TeleTypes /\ TeleHosts /\ TeleTasks /\ TeleTotals /\ TeleRate /\ TableKeepsNewest
  BY DEF record_bytes, TeleInv
<1>1. /\ traffic = [flows |-> fl, total |-> traffic.total, buckets |-> traffic.buckets]
      /\ DOMAIN fl \subseteq Connections /\ fl \in [DOMAIN fl -> Nat] /\ traffic.total \in Nat
      /\ traffic.buckets \in Seq(Buckets) /\ clock \in Nat /\ IsBagOf(reports)
  BY <1>0, TrafficFields DEF TeleTypes
<1>2. b \in Seq(Buckets) /\ b # <<>> /\ Len(b) <= MaxRateBuckets /\ b[Len(b)].start = FloorOf(clock) BY <1>1, EnsureTypes
<1>3. RateOK(traffic.buckets, reports, clock) => RateOK(b, reports, clock) BY <1>1, RateEnsured
<1> HIDE DEF b
<1>4. RateOK(b, reports, clock) => RateOK(d, reports', clock) BY <1>0, <1>1, <1>2, RateCounts
<1>5. d \in Seq(Buckets) /\ Len(d) = Len(b) BY <1>2, BytesCounted
<1> HIDE DEF d
<1>6. traffic' = [flows |-> gl, total |-> traffic.total + 1, buckets |-> d] BY <1>0, <1>1
<1>7. DOMAIN gl = DOMAIN fl /\ gl \in [DOMAIN gl -> Nat] /\ gl[c] = fl[c] + 1 /\ \A x \in DOMAIN fl : x # c => gl[x] = fl[x]
  BY <1>0, <1>1
<1> HIDE DEF gl
<1>16. r0 \in Stamps /\ r0[2] = c BY <1>1 DEF Stamps
<1>17. Reported(reports', reports, r0) BY <1>0, <1>1, <1>16, ReportAdds
<1>15. DOMAIN reports' = DOMAIN reports \cup {r0} /\ IsBagOf(reports') BY <1>17 DEF Reported
<1> HIDE DEF fl, r0
<1>8. TeleTypes'
  <2>1. gl \in MapOf(Connections, Nat) BY <1>1, <1>7, MapIs
  <2>2. traffic' \in [flows : MapOf(Connections, Nat), total : Nat, buckets : Seq(Buckets)] BY <1>1, <1>5, <1>6, <2>1
  <2>3. traffic'.buckets = d /\ Len(d) <= MaxRateBuckets BY <1>2, <1>5, <1>6
  <2>4. IsBagOf(reports)' BY <1>15
  <2> QED BY <1>0, <2>2, <2>3, <2>4 DEF TeleTypes
<1>9. TeleHosts' BY <1>0, HostsSame
<1>10. TeleTasks' BY <1>0, <1>6, <1>7, <1>15, <1>16, TasksSame DEF TeleTasks, fl
<1>11. TeleTotals'
  <2>1. SumOf(reports') = SumOf(reports) + 1 BY <1>1, <1>16, <1>17, WholeGrows
  <2>2. traffic'.total = SumOf(reports') BY <1>0, <1>6, <2>1 DEF TeleTotals
  <2>3. ASSUME NEW x \in DOMAIN fl PROVE gl[x] = SumOf(Restrict(reports', ReportsOf(reports', x)))
    <3> DEFINE S == ReportsOf(reports, x)
               T == ReportsOf(reports', x)
    <3>1. fl[x] = SumOf(Restrict(reports, S)) BY <1>0 DEF TeleTotals, fl, ReportsOf
    <3>2. S \subseteq DOMAIN reports BY DEF ReportsOf
    <3>3. CASE x = c
      <4>1. T = S \cup {r0} /\ (r0 \in DOMAIN reports => r0 \in S) BY <1>15, <1>16, <3>3 DEF ReportsOf
      <4> HIDE DEF S, T
      <4>2. SumOf(Restrict(reports', T)) = SumOf(Restrict(reports, S)) + 1 BY <1>1, <1>16, <1>17, <3>2, <4>1, PartGrows
      <4> QED BY <1>7, <3>1, <3>3, <4>2 DEF T
    <3>4. CASE x # c
      <4>1. T = S /\ r0 \notin S BY <1>15, <1>16, <3>4 DEF ReportsOf
      <4>2. SumOf(Restrict(reports', S)) = SumOf(Restrict(reports, S)) BY <1>1, <1>16, <1>17, <3>2, <4>1, PartKept
      <4> QED BY <1>7, <3>1, <3>4, <4>1, <4>2
    <3> QED BY <3>3, <3>4
  <2>4. traffic'.flows = gl BY <1>6
  <2> QED BY <1>7, <2>2, <2>3, <2>4 DEF TeleTotals, ReportsOf
<1>12. TeleRate' BY <1>0, <1>3, <1>4, <1>6 DEF TeleRate
<1>13. TableKeepsNewest' BY <1>0, TableSame
<1> QED BY <1>8, <1>9, <1>10, <1>11, <1>12, <1>13 DEF TeleInv

(* TrafficFlowHandle::finish of a flow that runs. *)
LEMMA FinishFlow ==
    ASSUME TeleInv, NEW c \in Connections, task[c] = "running", finish(c)
    PROVE  /\ traffic' = [flows |-> Restrict(traffic.flows, DOMAIN traffic.flows \ {c}), total |-> traffic.total,
                          buckets |-> traffic.buckets]
           /\ traffic' \in [flows : MapOf(Connections, Nat), total : Nat, buckets : Seq(Buckets)]
           /\ DOMAIN traffic'.flows = DOMAIN traffic.flows \ {c}
           /\ \A x \in DOMAIN traffic'.flows : traffic'.flows[x] = traffic.flows[x]
           /\ finished' = finished \cup {c}
<1> DEFINE fl == traffic.flows
           gl == Restrict(fl, DOMAIN fl \ {c})
<1>1. /\ traffic = [flows |-> fl, total |-> traffic.total, buckets |-> traffic.buckets]
      /\ DOMAIN fl \subseteq Connections /\ fl \in [DOMAIN fl -> Nat] /\ traffic.total \in Nat /\ traffic.buckets \in Seq(Buckets)
  BY TrafficFields DEF TeleInv
<1>2. c \notin finished BY DEF TeleInv, TeleTasks
<1>3. finished' = finished \cup {c} /\ traffic' = [traffic EXCEPT !.flows = Restrict(@, DOMAIN @ \ {c})] BY <1>2 DEF finish
<1>4. traffic' = [flows |-> gl, total |-> traffic.total, buckets |-> traffic.buckets] BY <1>1, <1>3
<1>5. DOMAIN gl = DOMAIN fl \ {c} /\ (\A x \in DOMAIN gl : gl[x] = fl[x]) /\ gl \in [DOMAIN gl -> Nat] BY <1>1 DEF Restrict
<1> HIDE DEF gl, fl
<1>6. gl \in MapOf(Connections, Nat) BY <1>1, <1>5, MapIs
<1>7. traffic' \in [flows : MapOf(Connections, Nat), total : Nat, buckets : Seq(Buckets)] /\ traffic'.flows = gl BY <1>1, <1>4, <1>6
<1> QED BY <1>3, <1>4, <1>5, <1>7 DEF gl, fl

(* A flow ends, by itself or aborted. *)
LEMMA FlowEndKeeps ==
    ASSUME TeleInv, NEW c \in Connections, task[c] = "running", finish(c), NEW to \in {"ended", "aborted"},
           task' = [task EXCEPT ![c] = to], aborted' = IF to = "aborted" THEN aborted \cup {c} ELSE aborted,
           UNCHANGED <<clock, diag, writes, table, reports, written, steady>>
    PROVE  TeleInv'
<1>0. TeleTypes /\ TeleHosts /\ TeleTasks /\ TeleTotals /\ TeleRate /\ TableKeepsNewest BY DEF TeleInv
<1>1. /\ traffic' \in [flows : MapOf(Connections, Nat), total : Nat, buckets : Seq(Buckets)]
      /\ traffic'.total = traffic.total /\ traffic'.buckets = traffic.buckets
      /\ DOMAIN traffic'.flows = DOMAIN traffic.flows \ {c}
      /\ (\A x \in DOMAIN traffic'.flows : traffic'.flows[x] = traffic.flows[x]) /\ finished' = finished \cup {c}
  <2>1. traffic' = [flows |-> Restrict(traffic.flows, DOMAIN traffic.flows \ {c}), total |-> traffic.total, buckets |-> traffic.buckets]
    BY FinishFlow
  <2>2. traffic'.total = traffic.total /\ traffic'.buckets = traffic.buckets BY <2>1
  <2>3. /\ traffic' \in [flows : MapOf(Connections, Nat), total : Nat, buckets : Seq(Buckets)]
        /\ DOMAIN traffic'.flows = DOMAIN traffic.flows \ {c}
        /\ (\A x \in DOMAIN traffic'.flows : traffic'.flows[x] = traffic.flows[x]) /\ finished' = finished \cup {c}
    BY FinishFlow
  <2> QED BY <2>2, <2>3
<1>2. task \in [Connections -> TaskStates] BY <1>0 DEF TeleTypes
<1>3. task' \in [Connections -> TaskStates] /\ task'[c] = to /\ \A x \in Connections : x # c => task'[x] = task[x]
  BY <1>2 DEF TaskStates
<1>4. TeleTypes' BY <1>0, <1>1, <1>3 DEF TeleTypes
<1>5. TeleHosts' BY <1>0, HostsSame
<1>6. TeleTasks'
  <2>1. Occupied' = Occupied BY <1>3 DEF Occupied
  <2>2. InState("running")' = InState("running") \ {c} BY <1>3 DEF InState
  <2>3. InState("aborted")' = IF to = "aborted" THEN InState("aborted") \cup {c} ELSE InState("aborted") BY <1>3 DEF InState
  <2>4. \A x \in finished' : task'[x] \notin {"idle", "running"} BY <1>0, <1>1, <1>3 DEF TeleTypes, TeleTasks
  <2>5. \A r \in DOMAIN reports : task'[r[2]] \notin {"idle", "refused"}
    BY <1>0, <1>3, StampFacts DEF TeleTypes, TeleTasks
  <2> QED BY <1>0, <1>1, <2>1, <2>2, <2>3, <2>4, <2>5 DEF TeleTasks
<1>7. TeleTotals' BY <1>0, <1>1 DEF TeleTotals
<1>8. TeleRate' BY <1>0, <1>1, RateSame
<1>9. TableKeepsNewest' BY <1>0, TableSame
<1> QED BY <1>4, <1>5, <1>6, <1>7, <1>8, <1>9 DEF TeleInv

(* handle_flow returned. *)
LEMMA FlowEndsKeeps == ASSUME TeleInv, NEW c \in Connections, run_flow_ends(c) PROVE TeleInv'
<1>1. /\ task[c] = "running" /\ task' = [task EXCEPT ![c] = "ended"] /\ finish(c)
      /\ UNCHANGED <<clock, diag, writes, table, reports, written, steady>> /\ aborted' = aborted
  BY DEF run_flow_ends
<1>2. "ended" \in {"ended", "aborted"} /\ aborted' = IF "ended" = "aborted" THEN aborted \cup {c} ELSE aborted BY <1>1
<1> QED BY <1>1, <1>2, FlowEndKeeps

(* TrafficFlowFinishGuard. *)
LEMMA GuardKeeps == ASSUME TeleInv, NEW c \in Connections, TrafficFlowFinishGuard(c) PROVE TeleInv'
<1>1. /\ task[c] = "running" /\ task' = [task EXCEPT ![c] = "aborted"] /\ finish(c) /\ aborted' = aborted \cup {c}
      /\ UNCHANGED <<clock, diag, writes, table, reports, written, steady>>
  BY DEF TrafficFlowFinishGuard
<1>2. "aborted" \in {"ended", "aborted"} /\ aborted' = IF "aborted" = "aborted" THEN aborted \cup {c} ELSE aborted BY <1>1
<1> QED BY <1>1, <1>2, FlowEndKeeps

(* One task moves. *)
LEMMA TaskMoves ==
    ASSUME TeleTypes, NEW c \in Connections, NEW to \in TaskStates, task' = [task EXCEPT ![c] = to]
    PROVE  task' \in [Connections -> TaskStates] /\ task'[c] = to /\ \A x \in Connections : x # c => task'[x] = task[x]
<1>1. task \in [Connections -> TaskStates] BY DEF TeleTypes
<1> QED BY <1>1

(* record_ingress_error. *)
LEMMA IngressErrorKeeps ==
    ASSUME TeleInv, NEW c \in Connections, NEW proxied \in BOOLEAN, record_ingress_error(c, proxied)
    PROVE  TeleInv'
<1>0. /\ task[c] = "idle" /\ task' = [task EXCEPT ![c] = "refused"] /\ diag' = [diag EXCEPT !.accept_errors = @ + 1]
      /\ writes' \subseteq writes \cup {<<clock, c>>}
      /\ UNCHANGED <<clock, finished, traffic, table, reports, written, aborted, steady>>
      /\ TeleTypes /\ TeleHosts /\ TeleTasks /\ TeleTotals /\ TeleRate /\ TableKeepsNewest
  BY DEF record_ingress_error, TeleInv
<1>1. "refused" \in TaskStates BY DEF TaskStates
<1>2. task' \in [Connections -> TaskStates] /\ task'[c] = "refused" /\ \A x \in Connections : x # c => task'[x] = task[x]
  BY <1>0, <1>1, TaskMoves
<1>3. /\ diag' = [accepted |-> diag.accepted, completed |-> diag.completed, in_flight |-> diag.in_flight,
                  accept_errors |-> diag.accept_errors + 1, by_host |-> diag.by_host, recent |-> diag.recent]
      /\ diag.accept_errors \in Nat
  BY <1>0, DiagFields
<1>4. TeleTypes' BY <1>0, <1>2, <1>3 DEF TeleTypes, Stamps
<1>5. TeleHosts' BY <1>0, <1>3, HostsSame
<1>6. TeleTasks' BY <1>0, <1>2, <1>3, StampFacts DEF Occupied, InState, TeleTypes, TeleTasks
<1>7. TeleTotals' BY <1>0, TotalsSame
<1>8. TeleRate' BY <1>0, RateSame
<1>9. TableKeepsNewest' BY <1>0, TableSame
<1> QED BY <1>4, <1>5, <1>6, <1>7, <1>8, <1>9 DEF TeleInv

(* record_accepted. *)
LEMMA AcceptedKeeps == ASSUME TeleInv, NEW c \in Connections, record_accepted(c) PROVE TeleInv'
<1> DEFINE fl == traffic.flows
           gl == Entered(fl, c, 0)
<1>0. /\ task[c] = "idle" /\ task' = [task EXCEPT ![c] = "running"]
      /\ diag' = [diag EXCEPT !.accepted = @ + 1, !.in_flight = @ + 1] /\ traffic' = [traffic EXCEPT !.flows = Entered(@, c, 0)]
      /\ UNCHANGED <<clock, finished, writes, table, reports, written, aborted, steady>>
      /\ TeleTypes /\ TeleHosts /\ TeleTasks /\ TeleTotals /\ TeleRate /\ TableKeepsNewest
  BY DEF record_accepted, TeleInv
<1>1. "running" \in TaskStates BY DEF TaskStates
<1>2. task' \in [Connections -> TaskStates] /\ task'[c] = "running" /\ \A x \in Connections : x # c => task'[x] = task[x]
  BY <1>0, <1>1, TaskMoves
<1>3. /\ diag' = [accepted |-> diag.accepted + 1, completed |-> diag.completed, in_flight |-> diag.in_flight + 1,
                  accept_errors |-> diag.accept_errors, by_host |-> diag.by_host, recent |-> diag.recent]
      /\ diag.accepted \in Nat /\ diag.in_flight \in Nat /\ diag.completed \in Nat
  BY <1>0, DiagFields
<1>4. /\ traffic = [flows |-> fl, total |-> traffic.total, buckets |-> traffic.buckets]
      /\ DOMAIN fl \subseteq Connections /\ fl \in [DOMAIN fl -> Nat] /\ traffic.total \in Nat /\ traffic.buckets \in Seq(Buckets)
  BY <1>0, TrafficFields
<1>5. traffic' = [flows |-> gl, total |-> traffic.total, buckets |-> traffic.buckets] BY <1>0, <1>4
<1>6. c \notin DOMAIN fl BY <1>0 DEF TeleTasks, InState
<1>7. DOMAIN gl = DOMAIN fl \cup {c} /\ gl[c] = 0 /\ (\A x \in DOMAIN fl : gl[x] = fl[x]) /\ gl \in [DOMAIN gl -> Nat]
  BY <1>4, <1>6 DEF Entered
<1> HIDE DEF fl, gl
<1>8. TeleTypes'
  <2>1. diag' \in [accepted : Nat, completed : Nat, in_flight : Nat, accept_errors : Nat, by_host : MapOf(HostKeys, Nat),
                   recent : Seq(Connections)] /\ Len(diag'.recent) <= MaxRecentFlows
    BY <1>0, <1>3, SMTT(30) DEF TeleTypes
  <2>2. gl \in MapOf(Connections, Nat) BY <1>4, <1>7, MapIs
  <2>3. traffic' \in [flows : MapOf(Connections, Nat), total : Nat, buckets : Seq(Buckets)] /\ traffic'.buckets = traffic.buckets
    BY <1>4, <1>5, <2>2
  <2> QED BY <1>0, <1>2, <2>1, <2>3 DEF TeleTypes
<1>9. TeleHosts' BY <1>0, <1>3, HostsSame
<1>10. TeleTasks'
  <2>1. Occupied' = Occupied \cup {c} /\ c \notin Occupied BY <1>0, <1>2 DEF Occupied
  <2>2. InState("running")' = InState("running") \cup {c} /\ InState("aborted")' = InState("aborted") BY <1>0, <1>2 DEF InState
  <2>3. \A x \in finished : task'[x] \notin {"idle", "running"} BY <1>0, <1>2 DEF TeleTypes, TeleTasks
  <2>4. \A r \in DOMAIN reports : task'[r[2]] \notin {"idle", "refused"}
    BY <1>0, <1>2, StampFacts DEF TeleTypes, TeleTasks
  <2>5. diag'.in_flight = diag.in_flight + 1 /\ diag'.accepted = diag.accepted + 1 /\ diag'.completed = diag.completed BY <1>3
  <2>6. IsFiniteSet(Occupied') /\ Cardinality(Occupied') = Cardinality(Occupied) + 1 BY <1>0, <2>1, FS_AddElement DEF TeleTasks
  <2>7. diag'.in_flight = Cardinality(Occupied') /\ diag'.accepted = diag'.completed + diag'.in_flight
    BY <1>0, <1>3, <2>5, <2>6 DEF TeleTasks
  <2>8. DOMAIN traffic'.flows = InState("running")' BY <1>0, <1>5, <1>7, <2>2 DEF TeleTasks, fl
  <2> QED BY <1>0, <2>2, <2>3, <2>4, <2>6, <2>7, <2>8 DEF TeleTasks
<1>11. TeleTotals'
  <2>1. traffic'.flows = gl /\ traffic'.total = traffic.total BY <1>5
  <2>2. \A x \in DOMAIN fl : gl[x] = SumOf(Restrict(reports, ReportsOf(reports, x))) BY <1>0, <1>7 DEF TeleTotals, ReportsOf, fl
  <2>3. gl[c] = SumOf(Restrict(reports, ReportsOf(reports, c)))
    BY <1>0, <1>7, SumNone DEF ReportsOf, TeleTasks, Restrict
  <2>4. \A x \in DOMAIN traffic'.flows : traffic'.flows[x] = SumOf(Restrict(reports, ReportsOf(reports, x)))
    BY <1>7, <2>1, <2>2, <2>3
  <2>5. traffic'.total = SumOf(reports) BY <1>0, <2>1 DEF TeleTotals
  <2> QED BY <1>0, <2>4, <2>5 DEF TeleTotals, ReportsOf
<1>12. TeleRate' BY <1>0, <1>5, RateSame
<1>13. TableKeepsNewest' BY <1>0, TableSame
<1> QED BY <1>8, <1>9, <1>10, <1>11, <1>12, <1>13 DEF TeleInv

(* record_completed. *)
LEMMA CompletedKeeps == ASSUME TeleInv, NEW c \in Connections, record_completed(c) PROVE TeleInv'
<1> DEFINE m == diag.by_host
           h == increment_bounded(m, HostOf[c])
           p == push_bounded(diag.recent, c, MaxRecentFlows)
<1>0. /\ task[c] = "ended" /\ task' = [task EXCEPT ![c] = "done"]
      /\ diag' = [diag EXCEPT !.completed = @ + 1, !.in_flight = IF @ = 0 THEN 0 ELSE @ - 1,
                              !.by_host = increment_bounded(@, HostOf[c]), !.recent = push_bounded(@, c, MaxRecentFlows)]
      /\ writes' = writes \cup {<<clock, c>>}
      /\ UNCHANGED <<clock, finished, traffic, table, reports, written, aborted, steady>>
      /\ TeleTypes /\ TeleHosts /\ TeleTasks /\ TeleTotals /\ TeleRate /\ TableKeepsNewest
  BY DEF record_completed, TeleInv
<1>1. "done" \in TaskStates BY DEF TaskStates
<1>2. task' \in [Connections -> TaskStates] /\ task'[c] = "done" /\ \A x \in Connections : x # c => task'[x] = task[x]
  BY <1>0, <1>1, TaskMoves
<1>3. /\ diag = [accepted |-> diag.accepted, completed |-> diag.completed, in_flight |-> diag.in_flight,
                 accept_errors |-> diag.accept_errors, by_host |-> m, recent |-> diag.recent]
      /\ diag.accepted \in Nat /\ diag.in_flight \in Nat /\ diag.completed \in Nat
      /\ DOMAIN m \subseteq HostKeys /\ m \in [DOMAIN m -> Nat] /\ diag.recent \in Seq(Connections)
  BY <1>0, DiagFields
<1>4. diag' = [accepted |-> diag.accepted, completed |-> diag.completed + 1,
               in_flight |-> IF diag.in_flight = 0 THEN 0 ELSE diag.in_flight - 1,
               accept_errors |-> diag.accept_errors, by_host |-> h, recent |-> p]
  BY <1>0, <1>3
<1>5. IsFiniteSet(DOMAIN m) /\ KeysBounded(m) /\ SumOf(m) = diag.completed BY <1>0 DEF TeleHosts
<1> HIDE DEF m
<1>6. /\ IsFiniteSet(DOMAIN h) /\ h \in [DOMAIN h -> Nat] /\ DOMAIN h \subseteq DOMAIN m \cup {HostOf[c], OtherKey}
      /\ KeysBounded(h) /\ SumOf(h) = SumOf(m) + 1 BY <1>3, <1>5, IncrementOne
<1>7. p \in Seq(Connections) /\ Len(p) <= MaxRecentFlows BY <1>3, PushBounded, FlowTelemetryAssumption
<1>8. c \in Occupied /\ Occupied' = Occupied \ {c} BY <1>0, <1>2 DEF Occupied
<1>9. Cardinality(Occupied \ {c}) = Cardinality(Occupied) - 1 /\ IsFiniteSet(Occupied \ {c}) /\ Cardinality(Occupied \ {c}) \in Nat
  BY <1>0, <1>8, FS_RemoveElement, FS_CardinalityType DEF TeleTasks
<1>10. diag.in_flight # 0 /\ diag.in_flight = Cardinality(Occupied) BY <1>0, <1>3, <1>9 DEF TeleTasks
<1> HIDE DEF h, p
<1>11. TeleTypes'
  <2>1. h \in MapOf(HostKeys, Nat) BY <1>3, <1>6, MapIs DEF HostKeys
  <2>2. diag' \in [accepted : Nat, completed : Nat, in_flight : Nat, accept_errors : Nat, by_host : MapOf(HostKeys, Nat),
                   recent : Seq(Connections)]
    <3>1. (IF diag.in_flight = 0 THEN 0 ELSE diag.in_flight - 1) \in Nat /\ diag.completed + 1 \in Nat BY <1>3
    <3>2. diag.accept_errors \in Nat BY <1>0, DiagFields
    <3> QED BY <1>3, <1>4, <1>7, <2>1, <3>1, <3>2
  <2>3. diag'.recent = p BY <1>4
  <2>4. writes' \subseteq Stamps BY <1>0 DEF TeleTypes, Stamps
  <2> QED BY <1>0, <1>2, <1>7, <2>2, <2>3, <2>4 DEF TeleTypes
<1>12. TeleHosts' BY <1>4, <1>5, <1>6 DEF TeleHosts
<1>13. TeleTasks'
  <2>2. InState("running")' = InState("running") /\ InState("aborted")' = InState("aborted") BY <1>0, <1>2 DEF InState
  <2>3. \A x \in finished : task'[x] \notin {"idle", "running"} BY <1>0, <1>2 DEF TeleTypes, TeleTasks
  <2>4. \A r \in DOMAIN reports : task'[r[2]] \notin {"idle", "refused"}
    BY <1>0, <1>2, StampFacts DEF TeleTypes, TeleTasks
  <2>5. diag'.in_flight = diag.in_flight - 1 /\ diag'.accepted = diag.accepted /\ diag'.completed = diag.completed + 1
    BY <1>4, <1>10
  <2>7. diag'.in_flight = Cardinality(Occupied') /\ IsFiniteSet(Occupied') BY <1>8, <1>9, <1>10, <2>5
  <2>8. diag'.accepted = diag'.completed + diag'.in_flight BY <1>0, <1>3, <2>5 DEF TeleTasks
  <2> QED BY <1>0, <2>2, <2>3, <2>4, <2>7, <2>8 DEF TeleTasks
<1>14. TeleTotals' BY <1>0, TotalsSame
<1>15. TeleRate' BY <1>0, RateSame
<1>16. TableKeepsNewest' BY <1>0, TableSame
<1> QED BY <1>11, <1>12, <1>13, <1>14, <1>15, <1>16 DEF TeleInv

(* NetworkObservationStore::insert. *)
LEMMA InsertKeeps == ASSUME TeleInv, NEW o \in writes, insert(o) PROVE TeleInv'
<1>0. /\ o \in Stamps /\ writes' = writes \ {o} /\ UNCHANGED <<clock, task, finished, traffic, diag, reports, aborted, steady>>
      /\ \/ table' = prune_observations(table \cup {o}) /\ written' = written \cup {o}
         \/ UNCHANGED <<table, written>>
      /\ TeleTypes /\ TeleHosts /\ TeleTasks /\ TeleTotals /\ TeleRate /\ TableKeepsNewest
  BY DEF insert, TeleInv, TeleTypes
<1>1. TeleTypes'
  <2>1. writes' \subseteq Stamps /\ written' \subseteq Stamps /\ IsFiniteSet(written')
    <3>1. written \subseteq Stamps /\ IsFiniteSet(written) /\ writes \subseteq Stamps BY <1>0 DEF TeleTypes
    <3> QED BY <1>0, <3>1, FS_AddElement
  <2> QED BY <1>0, <2>1 DEF TeleTypes
<1>2. TeleHosts' BY <1>0, HostsSame
<1>3. TeleTasks' BY <1>0, TasksSame DEF TeleTasks
<1>4. TeleTotals' BY <1>0, TotalsSame
<1>5. TeleRate' BY <1>0, RateSame
<1>6. TableKeepsNewest'
  <2>1. CASE UNCHANGED <<table, written>> BY <1>0, <2>1, TableSame
  <2>2. CASE table' = prune_observations(table \cup {o}) /\ written' = written \cup {o}
    BY <1>0, <2>2, FlowTelemetryAssumption, NewestOfNewest DEF TeleTypes, TableKeepsNewest, prune_observations
  <2> QED BY <1>0, <2>1, <2>2
<1> QED BY <1>1, <1>2, <1>3, <1>4, <1>5, <1>6 DEF TeleInv

(* The invariant holds at the start, *)
LEMMA TeleStarts == ASSUME TelemetryInit PROVE TeleInv
<1>0. /\ clock = 0 /\ task = [c \in Connections |-> "idle"] /\ finished = {}
      /\ traffic = [flows |-> <<>>, total |-> 0, buckets |-> <<>>]
      /\ diag = [accepted |-> 0, completed |-> 0, in_flight |-> 0, accept_errors |-> 0, by_host |-> <<>>, recent |-> <<>>]
      /\ writes = {} /\ table = {} /\ reports = EmptyBag /\ written = {} /\ aborted = {} /\ steady = TRUE
  BY DEF TelemetryInit
<1>1. DOMAIN reports = {} BY <1>0 DEF EmptyBag, SetToBag
<1>2. reports \in [DOMAIN reports -> Nat] BY <1>0 DEF EmptyBag, SetToBag
<1>3. <<>> \in MapOf(Connections, Nat) /\ <<>> \in MapOf(HostKeys, Nat)
  <2> DEFINE e == <<>>
  <2>1. DOMAIN e = {} /\ e \in [{} -> Nat] OBVIOUS
  <2> HIDE DEF e
  <2>2. e \in MapOf(Connections, Nat) /\ e \in MapOf(HostKeys, Nat) BY <2>1, MapIs
  <2> QED BY <2>2 DEF e
<1>4. traffic.flows = <<>> /\ traffic.total = 0 /\ traffic.buckets = <<>> /\ diag.by_host = <<>> /\ diag.completed = 0
      /\ diag.in_flight = 0 /\ diag.accepted = 0 BY <1>0
<1>5. IsFiniteSet({}) /\ Cardinality({}) = 0 BY FS_EmptySet
<1>6. \A f : DOMAIN f = {} => SumOf(f) = 0 BY SumNone
<1>7. TeleTypes BY <1>0, <1>1, <1>2, <1>3, <1>5, FlowTelemetryAssumption DEF IsBagOf, TaskStates, TeleTypes
<1>8. TeleHosts BY <1>4, <1>5, <1>6, FlowTelemetryAssumption DEF TeleHosts, KeysBounded
<1>9. TeleTasks BY <1>0, <1>1, <1>4, <1>5 DEF Occupied, InState, TeleTasks
<1>10. TeleTotals BY <1>1, <1>4, <1>6 DEF TeleTotals
<1>11. TeleRate BY <1>1, <1>4 DEF RateOK, Spaced, TeleRate
<1>12. TableKeepsNewest BY <1>0 DEF TableKeepsNewest, Newest
<1> QED BY <1>7, <1>8, <1>9, <1>10, <1>11, <1>12 DEF TeleInv

(* every step of the accounts keeps it, *)
LEMMA TeleSteps == ASSUME TeleInv, TelemetryNext PROVE TeleInv'
<1>1. CASE Tick BY <1>1, TickKeeps
<1>2. CASE ClockBack BY <1>2, ClockBackKeeps
<1>3. CASE TrafficSnapshot BY <1>3, SnapshotKeeps
<1>4. ASSUME NEW c \in Connections, record_ingress_error(c, TRUE) PROVE TeleInv' BY <1>4, IngressErrorKeeps, Zenon
<1>5. ASSUME NEW c \in Connections, record_ingress_error(c, FALSE) PROVE TeleInv' BY <1>5, IngressErrorKeeps, Zenon
<1>6. ASSUME NEW c \in Connections, record_accepted(c) PROVE TeleInv' BY <1>6, AcceptedKeeps
<1>7. ASSUME NEW c \in Connections, run_flow_ends(c) PROVE TeleInv' BY <1>7, FlowEndsKeeps
<1>8. ASSUME NEW c \in Connections, TrafficFlowFinishGuard(c) PROVE TeleInv' BY <1>8, GuardKeeps
<1>9. ASSUME NEW c \in Connections, record_bytes(c) PROVE TeleInv' BY <1>9, RecordBytesKeeps
<1>10. ASSUME NEW c \in Connections, record_completed(c) PROVE TeleInv' BY <1>10, CompletedKeeps
<1>11. ASSUME NEW o \in writes, insert(o) PROVE TeleInv' BY <1>11, InsertKeeps
<1> QED BY <1>1, <1>2, <1>3, <1>4, <1>5, <1>6, <1>7, <1>8, <1>9, <1>10, <1>11, Zenon DEF TelemetryNext

(* and it says that the accounts are exact. *)
LEMMA TeleSays == ASSUME TeleInv PROVE AccountsExact
<1>0. TeleTypes /\ TeleHosts /\ TeleTasks /\ TeleTotals /\ TeleRate /\ TableKeepsNewest BY DEF TeleInv
<1>1. TelemetryTypeOK
  BY <1>0, FS_CardinalityType, FlowTelemetryAssumption, NewestBounded DEF TeleHosts, KeysBounded, TeleTypes,
     TableKeepsNewest, TelemetryTypeOK
<1>2. CountersAddUp BY <1>0 DEF TeleTasks, InState, Occupied, CountersAddUp, TeleHosts
<1>3. ActiveFlowsExact BY <1>0 DEF ActiveFlowsExact, TeleTasks
<1>4. TrafficTotalsExact BY <1>0 DEF TrafficTotalsExact, TeleTotals
<1>5. RateWindowComplete
  BY <1>0, TrafficFields, RateShown DEF RateWindowComplete, Counted, Since, TeleRate, TeleTypes
<1> QED BY <1>0, <1>1, <1>2, <1>3, <1>4, <1>5 DEF AccountsExact

-----------------------------------------------------------------------------
(* The way of an error to its diagnosis. *)

(* The operations that read a request of the agent. *)
AgentRead == {"read_agent_request_head", "read_agent_request_body"}
(* What the tables make of an error: an operation, an outcome and a class of *)
(* the enumerations, and every sign of a leaving agent only where it left.   *)
ReadsAs(e, op, outcome, class) ==
    /\ e.kind # "" /\ op \in FlowOperation /\ outcome \in {"failed", "interrupted"} /\ class \in NetworkFailureClass
    /\ class = "client_closed" /\ AgentSide(op) => AgentLeft(e)
    /\ op \in AgentRead \cup {"write_agent_continue_response"} /\ outcome = "interrupted" /\ class = "eof" => AgentLeft(e)
    /\ op = "read_agent_websocket" /\ class = "eof" => AgentLeft(e)
    /\ e.cause = "Rejected407" => op = "proxy_connect_handshake"
    /\ e.kind = "Tls" /\ e.cause = "Upstream" => op = "connect_provider_tls"

(* The class of an io error, and what eof means. *)
LEMMA IoClass == ASSUME NEW k \in ErrorKind
  PROVE ClassOfIo(k) \in {"connection_refused", "connection_reset", "eof", "timeout", "io_error"}
        /\ (ClassOfIo(k) = "eof" => k = "UnexpectedEof")
BY DEF ClassOfIo, ErrorKind

(* Errors without an operation. *)
LEMMA SimpleReads ==
    ASSUME NEW k \in {"ClientClosedBeforeProtocol", "UnsupportedProtocol", "MissingSni",
        "TlsConfiguration", "ByteCountOverflow", "TlsClientHelloTooLarge", "MalformedTlsClientHello",
        "ProxyTargetServerNameMismatch", "ProxyTargetHostMismatch", "ProxyTargetRequestForm",
        "TlsDecryptionPolicy"}, NEW e, e = FlowError(k, "", "")
    PROVE ReadsAs(e, OperationOf(e), outcome_for_error(e), FailureClassOf(e))
<1>1. e.kind = k /\ e.op = "" /\ e.cause = "" BY DEF FlowError
<1>2. ~ is_agent_connection_close(e) BY <1>1 DEF is_agent_connection_close
<1>3. OperationOf(e) \in FlowOperation BY <1>1 DEF OperationOf, FlowOperation
<1>4. outcome_for_error(e) \in {"failed", "interrupted"} BY DEF outcome_for_error
<1>5. FailureClassOf(e) \in NetworkFailureClass /\ FailureClassOf(e) # "eof" /\ (FailureClassOf(e) = "client_closed" => k = "ClientClosedBeforeProtocol")
  BY <1>1, <1>2 DEF FailureClassOf, NetworkFailureClass
<1> QED BY <1>1, <1>3, <1>4, <1>5 DEF ReadsAs, AgentLeft

(* Failed handshakes. *)
LEMMA TlsReads ==
    ASSUME NEW c \in {"Client", "Upstream"}, NEW e, e = FlowError("Tls", "", c)
    PROVE ReadsAs(e, OperationOf(e), outcome_for_error(e), FailureClassOf(e))
<1>1. e.kind = "Tls" /\ e.op = "" /\ e.cause = c BY DEF FlowError
<1>2. ~ is_agent_connection_close(e) BY <1>1 DEF is_agent_connection_close
<1>3. OperationOf(e) \in FlowOperation /\ (c = "Upstream" => OperationOf(e) = "connect_provider_tls") BY <1>1 DEF OperationOf, FlowOperation
<1>4. outcome_for_error(e) \in {"failed", "interrupted"} BY DEF outcome_for_error
<1>5. FailureClassOf(e) = "tls_error"
  BY <1>1, <1>2 DEF FailureClassOf
<1> QED BY <1>1, <1>3, <1>4, <1>5 DEF ReadsAs, NetworkFailureClass

(* Errors of the HTTP parser and its reads. *)
LEMMA HttpReads ==
    ASSUME NEW op \in {"read_agent_request_head", "read_agent_request_body",
        "read_provider_response_head", "read_provider_response_body"}, NEW c \in Http1Error \cup ErrorKind,
        NEW e, e = FlowError("Http1", op, c)
    PROVE ReadsAs(e, OperationOf(e), outcome_for_error(e), FailureClassOf(e))
<1>1. e.kind = "Http1" /\ e.op = op /\ e.cause = c BY DEF FlowError
<1>2. ~ is_agent_connection_close(e) BY <1>1 DEF is_agent_connection_close
<1>3. OperationOf(e) = op /\ op \in FlowOperation BY <1>1 DEF OperationOf, FlowOperation
<1>4. outcome_for_error(e) \in {"failed", "interrupted"} /\ (outcome_for_error(e) = "interrupted" => c \in {"IncompleteRequest", "IncompleteResponse"})
  BY <1>1, <1>2 DEF outcome_for_error
<1>5. FailureClassOf(e) = ClassOfHttp1(c) BY <1>1, <1>2 DEF FailureClassOf
<1>6. ClassOfHttp1(c) \in NetworkFailureClass \ {"client_closed"}
  BY IoClass DEF ClassOfHttp1, NetworkFailureClass
<1>7. op # "read_agent_websocket" /\ op # "write_agent_continue_response" /\ (op \in AgentRead => AgentSide(op)) BY DEF AgentRead, AgentSide
<1>8. c # "Rejected407" BY DEF Http1Error, ErrorKind
<1> QED BY <1>1, <1>3, <1>4, <1>5, <1>6, <1>7, <1>8 DEF ReadsAs, AgentLeft

(* Errors of a WebSocket. *)
LEMMA SocketReads ==
    ASSUME NEW op \in {"read_agent_websocket", "write_agent_websocket",
        "read_provider_websocket", "write_provider_websocket"}, NEW c \in ErrorKind \cup {"ConnectionClosed", "Protocol"},
        NEW e, e = FlowError("WebSocket", op, c)
    PROVE ReadsAs(e, OperationOf(e), outcome_for_error(e), FailureClassOf(e))
<1>1. e.kind = "WebSocket" /\ e.op = op /\ e.cause = c BY DEF FlowError
<1>3. OperationOf(e) = op /\ op \in FlowOperation BY <1>1 DEF OperationOf, FlowOperation
<1>4. outcome_for_error(e) \in {"failed", "interrupted"} BY <1>1 DEF outcome_for_error
<1>5. FailureClassOf(e) = IF is_agent_connection_close(e) THEN "client_closed" ELSE "invalid_protocol"
  BY <1>1 DEF FailureClassOf
<1>6. is_agent_connection_close(e) => AgentLeft(e)
  BY <1>1 DEF is_agent_connection_close, AgentLeft, AgentSide
<1>7. op \notin AgentRead \cup {"write_agent_continue_response"} BY DEF AgentRead
<1>8. c # "Rejected407" BY DEF ErrorKind
<1>9. FailureClassOf(e) \in NetworkFailureClass /\ FailureClassOf(e) # "eof" /\ (FailureClassOf(e) = "client_closed" => AgentLeft(e))
  BY <1>5, <1>6 DEF NetworkFailureClass
<1> QED BY <1>1, <1>3, <1>4, <1>7, <1>8, <1>9 DEF ReadsAs

(* Failed reads and writes. *)
LEMMA IoReads ==
    ASSUME NEW op \in FlowOperation \ Connecting, NEW c \in ErrorKind, NEW e, e = FlowError("Io", op, c)
    PROVE ReadsAs(e, OperationOf(e), outcome_for_error(e), FailureClassOf(e))
<1>1. e.kind = "Io" /\ e.op = op /\ e.cause = c BY DEF FlowError
<1>2. op # "" BY DEF FlowOperation
<1>3. OperationOf(e) = op BY <1>1, <1>2 DEF OperationOf
<1>4. outcome_for_error(e) = IF is_agent_connection_close(e) THEN "interrupted" ELSE "failed" BY <1>1 DEF outcome_for_error
<1>5. FailureClassOf(e) = IF is_agent_connection_close(e) THEN "client_closed" ELSE ClassOfIo(c)
  BY <1>1 DEF FailureClassOf
<1>6. is_agent_connection_close(e) => AgentLeft(e)
  BY <1>1 DEF is_agent_connection_close, is_agent_close_operation, AgentLeft, AgentSide
<1>7. op = "read_agent_websocket" /\ c = "UnexpectedEof" => is_agent_connection_close(e)
  BY <1>1 DEF is_agent_connection_close, is_agent_close_operation, is_peer_close_kind
<1>8. c # "Rejected407" BY DEF ErrorKind
<1>9. ClassOfIo(c) \in NetworkFailureClass \ {"client_closed"} /\ (ClassOfIo(c) = "eof" => c = "UnexpectedEof")
  BY IoClass DEF NetworkFailureClass
<1>10. "client_closed" \in NetworkFailureClass BY DEF NetworkFailureClass
<1>11. CASE is_agent_connection_close(e)
  BY <1>1, <1>3, <1>4, <1>5, <1>6, <1>8, <1>10, <1>11 DEF ReadsAs
<1>12. CASE ~ is_agent_connection_close(e)
  BY <1>1, <1>3, <1>4, <1>5, <1>7, <1>8, <1>9, <1>12 DEF ReadsAs
<1> QED BY <1>11, <1>12

(* Timeouts. *)
LEMMA TimeoutReads ==
    ASSUME NEW op \in FlowOperation \ Connecting, NEW e, e = FlowError("Timeout", op, "")
    PROVE ReadsAs(e, OperationOf(e), outcome_for_error(e), FailureClassOf(e))
<1>1. e.kind = "Timeout" /\ e.op = op /\ e.cause = "" BY DEF FlowError
<1>2. op # "" BY DEF FlowOperation
<1>3. OperationOf(e) = op BY <1>1, <1>2 DEF OperationOf
<1>4. outcome_for_error(e) \in {"failed", "interrupted"} BY DEF outcome_for_error
<1>5. FailureClassOf(e) = "timeout" BY <1>1 DEF FailureClassOf, is_agent_connection_close
<1> QED BY <1>1, <1>3, <1>4, <1>5 DEF ReadsAs, NetworkFailureClass

(* Errors of the upstream proxy. *)
LEMMA ProxyReads ==
    ASSUME NEW op \in Connecting, NEW c \in ErrorKind \cup {"Timeout", "Protocol", "Rejected", "Rejected407", "Loop"},
           c = "Rejected407" => op = "proxy_connect_handshake",
           NEW e, e = FlowError("UpstreamProxy", op, c)
    PROVE ReadsAs(e, OperationOf(e), outcome_for_error(e), FailureClassOf(e))
<1>1. e.kind = "UpstreamProxy" /\ e.op = op /\ e.cause = c BY DEF FlowError
<1>2. op # "" /\ op \in FlowOperation /\ ~ AgentSide(op) /\ op \notin AgentRead /\ op # "write_agent_continue_response"
      /\ op # "read_agent_websocket"
  BY DEF Connecting, FlowOperation, AgentSide, AgentRead
<1>3. OperationOf(e) = op BY <1>1, <1>2 DEF OperationOf
<1>4. outcome_for_error(e) \in {"failed", "interrupted"} BY DEF outcome_for_error
<1>5. FailureClassOf(e) = ClassOfProxy(e) BY <1>1 DEF FailureClassOf, is_agent_connection_close
<1>6. ClassOfProxy(e) \in NetworkFailureClass BY <1>1, IoClass DEF ClassOfProxy, NetworkFailureClass
<1> QED BY <1>1, <1>2, <1>3, <1>4, <1>5, <1>6 DEF ReadsAs

(* All of them. *)
LEMMA ErrorReads ==
    ASSUME NEW e \in FlowErrors
    PROVE ReadsAs(e, OperationOf(e), outcome_for_error(e), FailureClassOf(e))
<1>1. CASE e \in PlainErrors BY <1>1, SimpleReads DEF PlainErrors
<1>2. CASE e \in TlsErrors BY <1>2, TlsReads DEF TlsErrors
<1>3. CASE e \in Http1Errors BY <1>3, HttpReads DEF Http1Errors
<1>4. CASE e \in WebSocketErrors BY <1>4, SocketReads DEF WebSocketErrors
<1>5. CASE e \in IoErrors BY <1>5, IoReads DEF IoErrors
<1>6. CASE e \in TimeoutErrors BY <1>6, TimeoutReads DEF TimeoutErrors
<1>7. CASE e \in ProxyErrors BY <1>7, ProxyReads DEF ProxyErrors, Connecting, ErrorKind
<1> QED BY <1>1, <1>2, <1>3, <1>4, <1>5, <1>6, <1>7 DEF FlowErrors

(* The fields of a location. *)
LEMMA PlaceIs ==
    ASSUME NEW h, NEW d, NEW s
    PROVE Place(h, d, s).hop = h /\ Place(h, d, s).direction = d /\ Place(h, d, s).stage = s
BY DEF Place

(* Where the operations of each side are located. *)
AgentPlace(p, op) ==
    /\ p.hop = "agent_to_abyss" /\ p.direction \in {"agent_to_abyss", "abyss_to_agent"}
    /\ p.stage \in {"protocol_detection", "tls_handshake", "request", "stream", "response_headers", "local_relay"}
    /\ p.stage = "request" => op \in AgentRead \cup {"write_agent_continue_response"}
ProviderPlace(p) ==
    /\ p.hop = "abyss_to_provider" /\ p.direction \in {"abyss_to_provider", "provider_to_abyss"}
    /\ p.stage \in {"tcp_connect", "tls_handshake", "request", "stream", "response_headers"}
ProxyPlace(p) ==
    /\ p.hop = "abyss_to_upstream_proxy" /\ p.direction = "bidirectional"
    /\ p.stage \in {"dns_resolution", "tcp_connect", "response_headers"}
LocalPlace(p) ==
    /\ p.hop = "cross_boundary" /\ p.direction \in {"bidirectional", "local"} /\ p.stage \in {"stream", "local_relay"}

(* Operations with the agent. *)
LEMMA AgentLocated ==
    ASSUME NEW op, AgentSide(op)
    PROVE  AgentPlace(LocationOf(op), op)
<1>1. CASE op \in {"read_agent_protocol"}
  <2>1. LocationOf(op) = Place("agent_to_abyss", "agent_to_abyss", "protocol_detection") BY <1>1 DEF LocationOf
  <2> QED BY <1>1, <2>1, PlaceIs DEF AgentPlace, AgentRead
<1>2. CASE op \in {"read_agent_tls_client_hello", "accept_agent_tls"}
  <2>1. LocationOf(op) = Place("agent_to_abyss", "agent_to_abyss", "tls_handshake") BY <1>2 DEF LocationOf
  <2> QED BY <1>2, <2>1, PlaceIs DEF AgentPlace, AgentRead
<1>3. CASE op \in {"read_agent_request_head", "read_agent_request_body"}
  <2>1. LocationOf(op) = Place("agent_to_abyss", "agent_to_abyss", "request") BY <1>3 DEF LocationOf
  <2> QED BY <1>3, <2>1, PlaceIs DEF AgentPlace, AgentRead
<1>4. CASE op \in {"read_agent_websocket"}
  <2>1. LocationOf(op) = Place("agent_to_abyss", "agent_to_abyss", "stream") BY <1>4 DEF LocationOf
  <2> QED BY <1>4, <2>1, PlaceIs DEF AgentPlace, AgentRead
<1>5. CASE op \in {"write_agent_continue_response"} BY <1>5, PlaceIs DEF LocationOf, AgentPlace, AgentRead
<1>6. CASE op \in {"write_agent_response_head"} BY <1>6, PlaceIs DEF LocationOf, AgentPlace, AgentRead
<1>7. CASE op \in {"write_agent_response_body", "write_agent_websocket"}
  BY <1>7, PlaceIs DEF LocationOf, AgentPlace, AgentRead
<1>8. CASE op \in {"shutdown_agent"} BY <1>8, PlaceIs DEF LocationOf, AgentPlace, AgentRead
<1> QED BY <1>1, <1>2, <1>3, <1>4, <1>5, <1>6, <1>7, <1>8 DEF AgentSide

(* Operations with the provider. *)
LEMMA ProviderLocated ==
    ASSUME NEW op, ProviderSide(op)
    PROVE  ProviderPlace(LocationOf(op))
<1>1. CASE op \in {"connect_provider_tcp"}
  <2>1. LocationOf(op) = Place("abyss_to_provider", "abyss_to_provider", "tcp_connect") BY <1>1 DEF LocationOf
  <2> QED BY <1>1, <2>1, PlaceIs DEF ProviderPlace
<1>2. CASE op \in {"connect_provider_tls", "write_provider_tls_client_hello"}
  <2>1. LocationOf(op) = Place("abyss_to_provider", "abyss_to_provider", "tls_handshake") BY <1>2 DEF LocationOf
  <2> QED BY <1>2, <2>1, PlaceIs DEF ProviderPlace
<1>3. CASE op \in {"write_provider_request_head", "write_provider_request_body"}
  <2>1. LocationOf(op) = Place("abyss_to_provider", "abyss_to_provider", "request") BY <1>3 DEF LocationOf
  <2> QED BY <1>3, <2>1, PlaceIs DEF ProviderPlace
<1>4. CASE op \in {"write_provider_websocket"} BY <1>4, PlaceIs DEF LocationOf, ProviderPlace
<1>5. CASE op \in {"read_provider_response_head"} BY <1>5, PlaceIs DEF LocationOf, ProviderPlace
<1>6. CASE op \in {"read_provider_response_body", "read_provider_websocket"}
  BY <1>6, PlaceIs DEF LocationOf, ProviderPlace
<1> QED BY <1>1, <1>2, <1>3, <1>4, <1>5, <1>6 DEF ProviderSide

(* Operations with the upstream proxy. *)
LEMMA ProxyLocated ==
    ASSUME NEW op, op \in Connecting
    PROVE  ProxyPlace(LocationOf(op))
<1>1. CASE op \in {"resolve_proxy"}
  <2>1. LocationOf(op) = Place("abyss_to_upstream_proxy", "bidirectional", "dns_resolution") BY <1>1 DEF LocationOf
  <2> QED BY <1>1, <2>1, PlaceIs DEF ProxyPlace
<1>2. CASE op \in {"connect_proxy_tcp"}
  <2>1. LocationOf(op) = Place("abyss_to_upstream_proxy", "bidirectional", "tcp_connect") BY <1>2 DEF LocationOf
  <2> QED BY <1>2, <2>1, PlaceIs DEF ProxyPlace
<1>3. CASE op \in {"proxy_connect_handshake"}
  <2>1. LocationOf(op) = Place("abyss_to_upstream_proxy", "bidirectional", "response_headers") BY <1>3 DEF LocationOf
  <2> QED BY <1>3, <2>1, PlaceIs DEF ProxyPlace
<1> QED BY <1>1, <1>2, <1>3 DEF Connecting

(* Operations of Abyss itself. *)
LEMMA LocalLocated ==
    ASSUME NEW op, op \in {"relay_passthrough", "local_relay"}
    PROVE  LocalPlace(LocationOf(op))
<1>1. CASE op \in {"relay_passthrough"} BY <1>1, PlaceIs DEF LocationOf, LocalPlace
<1>2. CASE op \in {"local_relay"}
  <2>1. LocationOf(op) = Place("cross_boundary", "local", "local_relay") BY <1>2 DEF LocationOf
  <2> QED BY <1>2, <2>1, PlaceIs DEF LocalPlace
<1> QED BY <1>1, <1>2

(* What the command line shows for a row. *)
Verdict(r) == LET o == FromValue(ReadRow(r)) IN IF is_agent_lifecycle_close(o) THEN Hidden ELSE Diagnosis(o)

(* An observation is its columns. *)
IsRow(r) == r = [c \in Columns |-> r[c]]

(* An observation by its fields. *)
ObservedWith(o, p, op, outcome, class, status, code) ==
    /\ o.hop = p.hop /\ o.direction = p.direction /\ o.stage = p.stage /\ o.operation = op
    /\ o.outcome = outcome /\ o.class = class /\ o.status = status /\ o.code = code
    /\ IsRow(o)

(* Observation has those fields. *)
LEMMA ObservationIs ==
    ASSUME NEW p, NEW op, NEW outcome, NEW class, NEW status, NEW code
    PROVE  ObservedWith(Observation(p, op, outcome, class, status, code), p, op, outcome, class, status, code)
BY DEF ObservedWith, Observation, IsRow, Columns

(* What the command line makes of the fields of a row with a code. *)
ShownAs(o, r) ==
    /\ o.hop = Known(r.hop, NetworkHop \ {"abyss_to_upstream_proxy"})
    /\ o.code = Known(r.code, NetworkErrorCode \ ProxyCode)
    /\ o.stage = r.stage /\ o.operation = r.operation /\ o.outcome = r.outcome
    /\ o.class = r.class /\ o.status = r.status

(* A row with a code is read as it is. *)
LEMMA ShownOf ==
    ASSUME NEW r, IsRow(r), r.code # ""
    PROVE  ShownAs(FromValue(ReadRow(r)), r)
<1>1. ReadRow(r) = r BY DEF ReadRow, IsRow
<1>2. DOMAIN r = Columns BY DEF IsRow
<1> QED BY <1>1, <1>2 DEF FromValue, Columns, ShownAs

(* The codes of the agent's side and of the provider's stages. *)
AgentCodes == {"agent_protocol_error", "agent_tls_error", "agent_request_error", "agent_connection_closed", "abyss_relay_error"}
StageCodes == {"provider_dns_error", "provider_tcp_error", "provider_tls_error", "provider_request_error",
    "provider_response_headers_error", "provider_stream_error"}

(* The code of the agent's side; closed is said of an agent that left only. *)
LEMMA AgentCodeIs ==
    ASSUME NEW stage \in {"protocol_detection", "tls_handshake", "request", "stream", "response_headers", "local_relay"},
           NEW outcome, NEW class
    PROVE  /\ AgentCode(stage, outcome, class) \in AgentCodes
           /\ AgentCode(stage, outcome, class) = "agent_connection_closed" =>
                class = "client_closed" \/ (stage = "request" /\ class = "eof" /\ outcome = "interrupted")
           /\ stage = "request" => AgentCode(stage, outcome, class) \in {"agent_request_error", "agent_connection_closed"}
BY DEF AgentCode, AgentCodes

(* The code of a stage. *)
LEMMA StageCodeIs == ASSUME NEW stage PROVE StageCode(stage) \in StageCodes
BY DEF StageCode, StageCodes

(* Whom a code is about. *)
LEMMA DiagnosedAs ==
    ASSUME NEW code
    PROVE  /\ diagnosis_for_error_code(code).severity \in {"Warning", "Error"}
           /\ code \in AgentCodes \cup {"abyss_internal_error"} => diagnosis_for_error_code(code).about \in {"agent", "abyss"}
           /\ code \in StageCodes \cup {"provider_http_error"} => diagnosis_for_error_code(code).about = "provider"
           /\ code = "unknown" => diagnosis_for_error_code(code).about = "unknown"
BY DEF diagnosis_for_error_code, AgentCodes, StageCodes

(* The command line knows these codes. *)
LEMMA CodeKnown ==
    /\ AgentCodes \cup StageCodes \cup {"abyss_internal_error", "provider_http_error"} \subseteq NetworkErrorCode \ ProxyCode
    /\ "" \notin AgentCodes \cup StageCodes
BY DEF AgentCodes, StageCodes, NetworkErrorCode, ProxyCode

(* A row of a failure. *)
FailedRow(o) == o.outcome \in {"failed", "interrupted"} /\ o.code # ""
(* A failure is diagnosed by its code. *)
LEMMA FailedDiagnosis ==
    ASSUME NEW o, FailedRow(o)
    PROVE  Diagnosis(o) = diagnosis_for_error_code(o.code)
BY DEF FailedRow, Diagnosis, is_healthy

(* 0 stands for no status. *)
LEMMA NoStatus == 0 \in StatusCode BY DEF StatusCode

(* What has to be shown of one error and its observation. *)
WellTold(e, o) ==
    /\ IsRow(o) /\ Parses(o)
    /\ Verdict(o).severity \in {"Hidden", "Warning", "Error"}
    /\ Verdict(o).severity = "Hidden" => AgentLeft(e)
    /\ Verdict(o).severity # "Hidden" =>
         /\ (Verdict(o).about = "provider") = (ProviderSide(OperationOf(e)) \/ (e.kind = "Tls" /\ e.cause = "Upstream"))
         /\ Verdict(o).about \in {"agent", "abyss"} => OperationOf(e) \notin Connecting
    /\ o.hop # "abyss_to_upstream_proxy" /\ ~is_agent_lifecycle_close(o) => o.code = LegacyCode(o)

(* Hidden is a severity of its own. *)
LEMMA HiddenSeverity == Hidden.severity = "Hidden" BY DEF Hidden

(* Errors with the agent. *)
LEMMA AgentFaithful ==
    ASSUME NEW e, NEW op, NEW outcome, NEW class, ReadsAs(e, op, outcome, class), op = OperationOf(e), AgentSide(op),
           NEW o, o = Observation(LocationOf(op), op, outcome, class, 0, AgentCode(LocationOf(op).stage, outcome, class))
    PROVE  WellTold(e, o)
<1> DEFINE p == LocationOf(op)
           code == AgentCode(p.stage, outcome, class)
           s == FromValue(ReadRow(o))
<1>0. op \in FlowOperation /\ outcome \in {"failed", "interrupted"} /\ class \in NetworkFailureClass BY DEF ReadsAs
<1>1. AgentPlace(p, op) BY AgentLocated
<1>2. op \notin Connecting /\ ~ ProviderSide(op) BY DEF AgentSide, Connecting, ProviderSide
<1>3. /\ code \in AgentCodes
      /\ code = "agent_connection_closed" => class = "client_closed" \/ (p.stage = "request" /\ class = "eof" /\ outcome = "interrupted")
      /\ p.stage = "request" => code \in {"agent_request_error", "agent_connection_closed"}
  BY <1>1, AgentCodeIs DEF AgentPlace
<1>4. /\ o.hop = p.hop /\ o.direction = p.direction /\ o.stage = p.stage /\ o.operation = op
      /\ o.outcome = outcome /\ o.class = class /\ o.status = 0 /\ o.code = code /\ IsRow(o)
  BY ObservationIs DEF ObservedWith
<1> HIDE DEF p, code
<1>5. code # "" /\ code \in NetworkErrorCode /\ code \in NetworkErrorCode \ ProxyCode BY <1>3, CodeKnown
<1>6. /\ s.hop = "agent_to_abyss" /\ s.code = code /\ s.stage = p.stage /\ s.operation = op
      /\ s.outcome = outcome /\ s.class = class /\ s.status = 0
  <2>1. Known(o.hop, NetworkHop \ {"abyss_to_upstream_proxy"}) = "agent_to_abyss"
    BY <1>1, <1>4 DEF Known, NetworkHop, AgentPlace
  <2>2. Known(o.code, NetworkErrorCode \ ProxyCode) = code BY <1>4, <1>5 DEF Known
  <2>3. ShownAs(s, o) BY <1>4, <1>5, ShownOf
  <2> HIDE DEF s
  <2> QED BY <1>4, <2>1, <2>2, <2>3 DEF ShownAs
<1> HIDE DEF s
<1>7. Parses(o)
  BY <1>0, <1>1, <1>4, <1>5, NoStatus DEF AgentPlace, NetworkHop, NetworkDirection, NetworkStage, NetworkOutcome,
     Parses
<1>8. is_agent_lifecycle_close(s) => AgentLeft(e)
  BY <1>1, <1>3, <1>6 DEF AgentPlace, is_agent_lifecycle_close, ReadsAs
<1>9. Verdict(o) = IF is_agent_lifecycle_close(s) THEN Hidden ELSE Diagnosis(s) BY DEF Verdict, s
<1>10. Diagnosis(s) = diagnosis_for_error_code(code) BY <1>0, <1>5, <1>6, FailedDiagnosis DEF FailedRow
<1>11. /\ diagnosis_for_error_code(code).severity \in {"Warning", "Error"}
       /\ diagnosis_for_error_code(code).about \in {"agent", "abyss"} BY <1>3, DiagnosedAs
<1>12. ~ (e.kind = "Tls" /\ e.cause = "Upstream") BY <1>2 DEF ReadsAs, ProviderSide
<1>13. ~is_agent_lifecycle_close(o) => o.code = LegacyCode(o)
  <2>1. SUFFICES ASSUME ~is_agent_lifecycle_close(o) PROVE code = LegacyCode(o) BY <1>4
  <2>2. ~ is_healthy(o) /\ o.hop = "agent_to_abyss" BY <1>0, <1>1, <1>4 DEF is_healthy, AgentPlace
  <2>3. code # "agent_connection_closed" BY <1>4, <2>1, <2>2 DEF is_agent_lifecycle_close
  <2>4. LegacyCode(o) = IF o.stage = "request" THEN "agent_request_error" ELSE AgentCode(o.stage, o.outcome, o.class)
    BY <2>2 DEF LegacyCode
  <2> QED BY <1>3, <1>4, <2>3, <2>4 DEF code
<1>14. CASE is_agent_lifecycle_close(s)
  BY <1>4, <1>7, <1>8, <1>9, <1>13, <1>14, HiddenSeverity DEF WellTold
<1>15. CASE ~ is_agent_lifecycle_close(s)
  BY <1>2, <1>4, <1>7, <1>9, <1>10, <1>11, <1>12, <1>13, <1>15 DEF WellTold
<1> QED BY <1>14, <1>15

(* Errors with the provider. *)
LEMMA ProviderFaithful ==
    ASSUME NEW e, NEW op, NEW outcome, NEW class, ReadsAs(e, op, outcome, class), op = OperationOf(e), ProviderSide(op),
           NEW o, o = Observation(LocationOf(op), op, outcome, class, 0, ProviderCode(LocationOf(op).stage, class))
    PROVE  WellTold(e, o)
<1> DEFINE p == LocationOf(op)
           code == ProviderCode(p.stage, class)
           s == FromValue(ReadRow(o))
<1>0. op \in FlowOperation /\ outcome \in {"failed", "interrupted"} /\ class \in NetworkFailureClass BY DEF ReadsAs
<1>1. ProviderPlace(p) BY ProviderLocated
<1>2. op \notin Connecting BY DEF Connecting, ProviderSide
<1>3. code = StageCode(p.stage) /\ code \in StageCodes BY <1>1, StageCodeIs DEF ProviderPlace, ProviderCode
<1>4. /\ o.hop = p.hop /\ o.direction = p.direction /\ o.stage = p.stage /\ o.operation = op
      /\ o.outcome = outcome /\ o.class = class /\ o.status = 0 /\ o.code = code /\ IsRow(o)
  BY ObservationIs DEF ObservedWith
<1> HIDE DEF p, code
<1>5. code # "" /\ code \in NetworkErrorCode /\ code \in NetworkErrorCode \ ProxyCode BY <1>3, CodeKnown
<1>6. /\ s.hop = "abyss_to_provider" /\ s.code = code /\ s.outcome = outcome
  <2>1. Known(o.hop, NetworkHop \ {"abyss_to_upstream_proxy"}) = "abyss_to_provider"
    BY <1>1, <1>4 DEF Known, NetworkHop, ProviderPlace
  <2>2. Known(o.code, NetworkErrorCode \ ProxyCode) = code BY <1>4, <1>5 DEF Known
  <2>3. ShownAs(s, o) BY <1>4, <1>5, ShownOf
  <2> HIDE DEF s
  <2> QED BY <1>4, <2>1, <2>2, <2>3 DEF ShownAs
<1> HIDE DEF s
<1>7. Parses(o)
  BY <1>0, <1>1, <1>4, <1>5, NoStatus DEF ProviderPlace, NetworkHop, NetworkDirection, NetworkStage, NetworkOutcome,
     Parses
<1>8. ~ is_agent_lifecycle_close(s) BY <1>6 DEF is_agent_lifecycle_close
<1>9. Verdict(o) = IF is_agent_lifecycle_close(s) THEN Hidden ELSE Diagnosis(s) BY DEF Verdict, s
<1>10. Verdict(o) = diagnosis_for_error_code(code) BY <1>0, <1>5, <1>6, <1>8, <1>9, FailedDiagnosis DEF FailedRow
<1>11. Verdict(o).severity \in {"Warning", "Error"} /\ Verdict(o).about = "provider" BY <1>3, <1>10, DiagnosedAs
<1>12. o.code = LegacyCode(o)
  <2>1. ~ is_healthy(o) /\ o.hop = "abyss_to_provider" /\ ~ (o.status >= 400) BY <1>0, <1>1, <1>4 DEF is_healthy, ProviderPlace
  <2>2. LegacyCode(o) = IF o.stage \in {"local_relay", "protocol_detection", "unknown"} THEN ClassCode(o.class) ELSE StageCode(o.stage)
    BY <2>1 DEF LegacyCode
  <2> QED BY <1>1, <1>3, <1>4, <2>2 DEF ProviderPlace
<1> QED BY <1>2, <1>4, <1>7, <1>11, <1>12 DEF WellTold

(* Errors of Abyss itself. *)
LEMMA LocalFaithful ==
    ASSUME NEW e, NEW op, NEW outcome, NEW class, ReadsAs(e, op, outcome, class), op = OperationOf(e),
           op \in {"relay_passthrough", "local_relay"},
           NEW o, o = Observation(LocationOf(op), op, outcome, class, 0,
                                  IF class = "client_closed" THEN "agent_connection_closed" ELSE "abyss_internal_error")
    PROVE  WellTold(e, o)
<1> DEFINE p == LocationOf(op)
           code == IF class = "client_closed" THEN "agent_connection_closed" ELSE "abyss_internal_error"
           s == FromValue(ReadRow(o))
<1>0. op \in FlowOperation /\ outcome \in {"failed", "interrupted"} /\ class \in NetworkFailureClass BY DEF ReadsAs
<1>1. LocalPlace(p) BY LocalLocated
<1>2. op \notin Connecting /\ ~ ProviderSide(op) /\ op # "connect_provider_tls" BY DEF Connecting, ProviderSide
<1>3. code \in AgentCodes \cup {"abyss_internal_error"} BY DEF AgentCodes
<1>4. /\ o.hop = p.hop /\ o.direction = p.direction /\ o.stage = p.stage /\ o.operation = op
      /\ o.outcome = outcome /\ o.class = class /\ o.status = 0 /\ o.code = code /\ IsRow(o)
  BY ObservationIs DEF ObservedWith
<1> HIDE DEF p
<1>5. code # "" /\ code \in NetworkErrorCode /\ code \in NetworkErrorCode \ ProxyCode BY <1>3, CodeKnown
<1>12. o.code = LegacyCode(o)
  <2>1. ~ is_healthy(o) /\ o.hop = "cross_boundary" BY <1>0, <1>1, <1>4 DEF is_healthy, LocalPlace
  <2> QED BY <1>4, <2>1 DEF LegacyCode
<1> HIDE DEF code
<1>6. /\ s.hop = "cross_boundary" /\ s.code = code /\ s.outcome = outcome
  <2>1. Known(o.hop, NetworkHop \ {"abyss_to_upstream_proxy"}) = "cross_boundary"
    BY <1>1, <1>4 DEF Known, NetworkHop, LocalPlace
  <2>2. Known(o.code, NetworkErrorCode \ ProxyCode) = code BY <1>4, <1>5 DEF Known
  <2>3. ShownAs(s, o) BY <1>4, <1>5, ShownOf
  <2> HIDE DEF s
  <2> QED BY <1>4, <2>1, <2>2, <2>3 DEF ShownAs
<1> HIDE DEF s
<1>7. Parses(o)
  BY <1>0, <1>1, <1>4, <1>5, NoStatus DEF LocalPlace, NetworkHop, NetworkDirection, NetworkStage, NetworkOutcome,
     Parses
<1>8. ~ is_agent_lifecycle_close(s) BY <1>6 DEF is_agent_lifecycle_close
<1>9. Verdict(o) = IF is_agent_lifecycle_close(s) THEN Hidden ELSE Diagnosis(s) BY DEF Verdict, s
<1>10. Verdict(o) = diagnosis_for_error_code(code) BY <1>0, <1>5, <1>6, <1>8, <1>9, FailedDiagnosis DEF FailedRow
<1>11. Verdict(o).severity \in {"Warning", "Error"} /\ Verdict(o).about \in {"agent", "abyss"} BY <1>3, <1>10, DiagnosedAs
<1>13. ~ (e.kind = "Tls" /\ e.cause = "Upstream") BY <1>2 DEF ReadsAs
<1> QED BY <1>2, <1>4, <1>7, <1>11, <1>12, <1>13 DEF WellTold

(* Errors with the upstream proxy. *)
LEMMA ProxyFaithful ==
    ASSUME NEW e, NEW op, NEW outcome, NEW class, ReadsAs(e, op, outcome, class), op = OperationOf(e), op \in Connecting,
           NEW code \in ProxyCode,
           NEW o, o = Observation(LocationOf(op), op, outcome, class, 0, code)
    PROVE  WellTold(e, o)
<1> DEFINE p == LocationOf(op)
           s == FromValue(ReadRow(o))
<1>0. op \in FlowOperation /\ outcome \in {"failed", "interrupted"} /\ class \in NetworkFailureClass BY DEF ReadsAs
<1>1. ProxyPlace(p) BY ProxyLocated
<1>2. ~ ProviderSide(op) /\ op # "connect_provider_tls" BY DEF Connecting, ProviderSide
<1>4. /\ o.hop = p.hop /\ o.direction = p.direction /\ o.stage = p.stage /\ o.operation = op
      /\ o.outcome = outcome /\ o.class = class /\ o.status = 0 /\ o.code = code /\ IsRow(o)
  BY ObservationIs DEF ObservedWith
<1> HIDE DEF p
<1>5. code # "" /\ code \in NetworkErrorCode BY DEF ProxyCode, NetworkErrorCode
<1>6. /\ s.hop = "unknown" /\ s.code = "unknown" /\ s.outcome = outcome
  <2>1. Known(o.hop, NetworkHop \ {"abyss_to_upstream_proxy"}) = "unknown"
    BY <1>1, <1>4 DEF Known, ProxyPlace
  <2>2. Known(o.code, NetworkErrorCode \ ProxyCode) = "unknown" BY <1>4 DEF Known
  <2>3. ShownAs(s, o) BY <1>4, <1>5, ShownOf
  <2> HIDE DEF s
  <2> QED BY <1>4, <2>1, <2>2, <2>3 DEF ShownAs
<1> HIDE DEF s
<1>7. Parses(o)
  BY <1>0, <1>1, <1>4, <1>5, NoStatus DEF ProxyPlace, NetworkHop, NetworkDirection, NetworkStage, NetworkOutcome,
     Parses
<1>8. ~ is_agent_lifecycle_close(s) BY <1>6 DEF is_agent_lifecycle_close
<1>9. Verdict(o) = IF is_agent_lifecycle_close(s) THEN Hidden ELSE Diagnosis(s) BY DEF Verdict, s
<1>10. Verdict(o) = diagnosis_for_error_code("unknown") BY <1>0, <1>6, <1>8, <1>9, FailedDiagnosis DEF FailedRow
<1>11. Verdict(o).severity \in {"Warning", "Error"} /\ Verdict(o).about = "unknown" BY <1>10, DiagnosedAs
<1>13. ~ (e.kind = "Tls" /\ e.cause = "Upstream") BY <1>2 DEF ReadsAs
<1>14. o.hop = "abyss_to_upstream_proxy" BY <1>1, <1>4 DEF ProxyPlace
<1> QED BY <1>2, <1>4, <1>7, <1>11, <1>13, <1>14 DEF WellTold

(* Every error. *)
LEMMA ErrorFaithful ==
    ASSUME NEW e \in FlowErrors
    PROVE  WellTold(e, from_error(e)) /\ e.kind # ""
<1> DEFINE op == OperationOf(e)
           outcome == outcome_for_error(e)
           class == FailureClassOf(e)
           p == LocationOf(op)
           derived == from_observation(p.hop, p.stage, outcome, class, 0)
<1>1. ReadsAs(e, op, outcome, class) BY ErrorReads
<1>2. from_error(e) = Observation(p, op, outcome, class, 0, IF e.cause = "Rejected407" THEN "upstream_proxy_auth_required" ELSE derived)
  BY DEF from_error
<1>3. outcome \in {"failed", "interrupted"} /\ (e.cause = "Rejected407" => op \in Connecting) /\ op \in FlowOperation /\ e.kind # ""
  BY <1>1 DEF ReadsAs, Connecting
<1> HIDE DEF outcome, class
<1>4. CASE AgentSide(op)
  <2>1. op \notin Connecting BY <1>4 DEF AgentSide, Connecting
  <2>2. p.hop = "agent_to_abyss" BY <1>4, AgentLocated DEF AgentPlace
  <2>3. derived = AgentCode(p.stage, outcome, class) BY <1>3, <2>2 DEF from_observation
  <2>4. from_error(e) = Observation(p, op, outcome, class, 0, AgentCode(p.stage, outcome, class)) BY <1>2, <1>3, <2>1, <2>3
  <2> QED BY <1>1, <1>3, <1>4, <2>4, AgentFaithful
<1>5. CASE ProviderSide(op)
  <2>1. op \notin Connecting BY <1>5 DEF ProviderSide, Connecting
  <2>2. p.hop = "abyss_to_provider" BY <1>5, ProviderLocated DEF ProviderPlace
  <2>3. derived = ProviderCode(p.stage, class)
    <3>1. ~ (0 >= 400) OBVIOUS
    <3>2. outcome \notin {"succeeded", "skipped"} BY <1>3
    <3> HIDE DEF p
    <3> QED BY <2>2, <3>1, <3>2 DEF from_observation
  <2>4. from_error(e) = Observation(p, op, outcome, class, 0, ProviderCode(p.stage, class)) BY <1>2, <1>3, <2>1, <2>3
  <2> QED BY <1>1, <1>3, <1>5, <2>4, ProviderFaithful
<1>6. CASE op \in Connecting
  BY <1>1, <1>2, <1>3, <1>6, ProxyLocated, ProxyFaithful DEF ProxyPlace, from_observation, ProxyCode
<1>7. CASE ~ AgentSide(op) /\ ~ ProviderSide(op) /\ op \notin Connecting
  BY <1>1, <1>2, <1>3, <1>7, LocalLocated, LocalFaithful DEF FlowOperation, AgentSide, ProviderSide, Connecting,
     LocalPlace, from_observation
<1> QED BY <1>4, <1>5, <1>6, <1>7

(* Every row is shown with some severity. *)
LEMMA AnyVerdict == ASSUME NEW r PROVE Verdict(r).severity \in {"Hidden", "Healthy", "Warning", "Error"}
<1> DEFINE o == FromValue(ReadRow(r))
<1>1. Verdict(r) = IF is_agent_lifecycle_close(o) THEN Hidden ELSE Diagnosis(o) BY DEF Verdict
<1> HIDE DEF o
<1>2. Diagnosis(o).severity \in {"Healthy", "Warning", "Error"}
  BY DEF Diagnosis, diagnosis_for_error_code, generic_diagnosis_for_hop
<1> QED BY <1>1, <1>2, HiddenSeverity

(* What has to be stored of any flow. *)
WellStored(o) ==
    /\ IsRow(o) /\ Parses(o)
    /\ o.hop # "abyss_to_upstream_proxy" /\ ~is_agent_lifecycle_close(o) => o.code = LegacyCode(o)

(* The observation of a flow that did not fail. *)
OutcomeRow(o, status) ==
    /\ IsRow(o) /\ o.hop = "abyss_to_provider" /\ o.direction = "" /\ o.stage = "stream" /\ o.operation = ""
    /\ o.outcome \in {"skipped", "succeeded"} /\ o.class = "" /\ o.status = status
    /\ o.code = IF status >= 400 THEN "provider_http_error" ELSE ""

(* It is stored well. *)
LEMMA EndedStored ==
    ASSUME NEW status \in StatusCode, NEW o, OutcomeRow(o, status)
    PROVE  WellStored(o)
<1>1. status >= 400 \/ status < 400 BY DEF StatusCode
<1>2. Parses(o) BY DEF OutcomeRow, NetworkHop, NetworkStage, NetworkOutcome, NetworkErrorCode, Parses
<1>3. o.code = LegacyCode(o) BY <1>1 DEF OutcomeRow, LegacyCode, is_healthy
<1> QED BY <1>2, <1>3 DEF WellStored, OutcomeRow

(* from_outcome makes such an observation. *)
LEMMA OutcomeEnded == ASSUME NEW status PROVE OutcomeRow(from_outcome(status), status)
<1> DEFINE p == Place("abyss_to_provider", "", "stream")
           outcome == IF status = 0 THEN "skipped" ELSE "succeeded"
<1>1. from_outcome(status)
        = Observation(p, "", outcome, "", status, from_observation(p.hop, p.stage, outcome, "", status))
  BY DEF from_outcome
<1>2. p.hop = "abyss_to_provider" /\ p.direction = "" /\ p.stage = "stream" BY DEF Place
<1>3. outcome \in {"skipped", "succeeded"} OBVIOUS
<1> HIDE DEF p, outcome
<1>4. from_observation(p.hop, p.stage, outcome, "", status) = IF status >= 400 THEN "provider_http_error" ELSE ""
  BY <1>2, <1>3 DEF from_observation
<1>5. PICK c : c = from_observation(p.hop, p.stage, outcome, "", status) OBVIOUS
<1>6. PICK o : o = from_outcome(status) OBVIOUS
<1>7. ObservedWith(Observation(p, "", outcome, "", status, c), p, "", outcome, "", status, c) BY ObservationIs
<1>8. ObservedWith(o, p, "", outcome, "", status, c) BY <1>1, <1>5, <1>6, <1>7, Zenon
<1>9. c = IF status >= 400 THEN "provider_http_error" ELSE "" BY <1>4, <1>5, Zenon
<1> QED BY <1>2, <1>3, <1>6, <1>8, <1>9 DEF OutcomeRow, ObservedWith

(* What ended a flow that did not fail. *)
NoError == FlowError("", "", "")
(* An observation is the one of what ended the flow. *)
Explains(o) == \/ \E e \in FlowErrors : ended = {e} /\ o = from_error(e)
               \/ \E s \in Statuses : ended = {NoError} /\ o = from_outcome(s)
(* The inductive invariant of an error on its way: the observation is made    *)
(* from what ended the flow, the row from it, and what is shown from the row. *)
ErrorInv ==
    /\ ended = {} => observed = {}
    /\ \A o \in observed : Explains(o)
    /\ row \subseteq observed
    /\ \A d \in shown : \E o \in row : d = Verdict(o)

(* Initially. *)
LEMMA ErrorStarts == ErrorInit => ErrorInv
BY DEF ErrorInit, ErrorInv

(* When another part takes a step. *)
LEMMA ErrorRests == ErrorInv /\ UNCHANGED errorVars => ErrorInv'
BY DEF ErrorInv, errorVars, Explains

(* Such an observation is stored well. *)
LEMMA ExplainedStored == ASSUME NEW o, Explains(o) PROVE WellStored(o)
<1>1. CASE \E e \in FlowErrors : ended = {e} /\ o = from_error(e)
  BY <1>1, ErrorFaithful DEF WellTold, WellStored
<1>2. CASE \E s \in Statuses : ended = {NoError} /\ o = from_outcome(s)
  BY <1>2, EndedStored, OutcomeEnded, NetworkErrorsAssumption
<1> QED BY <1>1, <1>2 DEF Explains

(* Every step keeps it. *)
LEMMA ErrorSteps == ASSUME ErrorInv, ErrorNext PROVE ErrorInv'
<1>1. ASSUME NEW e \in FlowErrors, RecordFailure(e) PROVE ErrorInv' BY <1>1 DEF RecordFailure, ErrorInv, Explains
<1>2. ASSUME NEW s \in Statuses, RecordOutcome(s) PROVE ErrorInv'
  BY <1>2 DEF RecordOutcome, NoError, ErrorInv, Explains
<1>3. ASSUME InsertRow PROVE ErrorInv' BY <1>3, ExplainedStored DEF InsertRow, ErrorInv, WellStored, IsRow, Explains
<1>4. ASSUME diagnose_recent PROVE ErrorInv' BY <1>4 DEF diagnose_recent, Verdict, ErrorInv, Explains
<1> QED BY <1>1, <1>2, <1>3, <1>4 DEF ErrorNext

(* It is what is to be shown. *)
LEMMA ErrorSays == ErrorInv => ErrorsFaithful
<1> SUFFICES ASSUME ErrorInv PROVE ErrorsFaithful OBVIOUS
<1>1. \A o \in observed : WellStored(o) /\ Explains(o) BY ExplainedStored DEF ErrorInv
<1>2. ErrorTypeOK BY <1>1, AnyVerdict DEF ErrorInv, WellStored, ErrorTypeOK
<1>3. CodesAgree BY <1>1 DEF CodesAgree, WellStored
<1>4. ASSUME NEW e \in ended, NEW d \in shown, e.kind # ""
      PROVE  \E o \in observed : WellTold(e, o) /\ d = Verdict(o)
  <2>1. PICK o \in observed : d = Verdict(o) BY DEF ErrorInv
  <2>2. Explains(o) BY <1>1
  <2>3. NoError.kind = "" BY DEF NoError, FlowError
  <2>4. PICK f \in FlowErrors : ended = {f} /\ o = from_error(f) BY <1>4, <2>2, <2>3 DEF Explains
  <2>5. WellTold(e, o) BY <2>4, ErrorFaithful
  <2> QED BY <2>1, <2>5
<1>5. FailureShown BY <1>4 DEF FailureShown, WellTold
<1>6. BlamesFailingSide
  <2> SUFFICES ASSUME NEW e \in ended, NEW d \in shown, e.kind # "", d.severity # "Hidden"
               PROVE /\ (d.about = "provider") = (ProviderSide(OperationOf(e)) \/ (e.kind = "Tls" /\ e.cause = "Upstream"))
                     /\ d.about \in {"agent", "abyss"} => OperationOf(e) \notin Connecting
    BY DEF BlamesFailingSide
  <2>1. PICK o \in observed : WellTold(e, o) /\ d = Verdict(o) BY <1>4
  <2> QED BY <2>1 DEF WellTold
<1> QED BY <1>2, <1>3, <1>5, <1>6 DEF ErrorsFaithful

-----------------------------------------------------------------------------
(* The flow path. *)

(* The invariant holds in every state of the composed flow path, whichever *)
(* part of it moves.                                                       *)
THEOREM PathInvariance == Spec => []PathInv
<1>1. Init => PathInv BY PathStarts DEF Init
<1>2. PathInv /\ [Next]_vars => PathInv' BY PathRests, PathStep DEF vars, Next
<1> QED BY <1>1, <1>2, PTL DEF Spec

(* Whatever a client sends and however the reads cut it, each of its bytes  *)
(* is kept once and in order up to the passthrough, it is answered at most  *)
(* once, with 200 only when its upstream is connected and always when its   *)
(* request is refused for what it says, a request that became a flow has    *)
(* one reading, and the buffers that look ahead stay within their limits    *)
(* (ingress/explicit.rs, explicit_http.rs, client_hello.rs).                *)
THEOREM FlowsFaithful == Spec => []PathFaithful
<1>1. PathInv => PathFaithful BY PathIsFaithful
<1> QED BY <1>1, PathInvariance, PTL

(* Whatever policies are installed while a flow is on its way, it is        *)
(* decrypted or passed through as the one in force at its recognition says; *)
(* with an upstream proxy it never goes out directly, without one it never  *)
(* comes back to the listener, and an intercepted tunnel carries the name   *)
(* it was opened for (decrypt_policy.rs, listener.rs, accepted_flow.rs).    *)
THEOREM FlowsAuthorised == Spec => []PathAuthorised
<1>1. PathInv => PathAuthorised BY PathIsAuthorised
<1> QED BY <1>1, PathInvariance, PTL

(* The framed flow and the tunnel keep their invariants in every state of  *)
(* the composed flow path, whichever part of it moves.                     *)
THEOREM StreamsInvariance == Spec => [](FramedInv /\ TunnelInv)
<1>1. Init => FramedInv /\ TunnelInv BY FramedStarts, TunnelStarts DEF Init
<1>2. FramedInv /\ TunnelInv /\ [Next]_vars => FramedInv' /\ TunnelInv'
  BY FramedRests, TunnelRests, FramedMoves, TunnelMoves DEF vars, Next
<1> QED BY <1>1, <1>2, PTL DEF Spec

(* However the socket cuts the frames of a macOS flow, every byte of its    *)
(* data frames reaches the pipeline once and in order, the end is reported  *)
(* only when the client said so, and what the client receives is whole      *)
(* frames with a close frame last; and a tunnel through the upstream proxy  *)
(* never ends at the broker itself, is exactly the proxy's bytes behind its *)
(* answer, and buffers no more than its limit and one read                  *)
(* (ingress/macos/mod.rs, outbound/http_connect.rs).                        *)
THEOREM BytesCarried == Spec => []BytesFaithful
<1>1. FramedInv /\ TunnelInv => BytesFaithful BY FramedIsFaithful, TunnelIsFaithful DEF BytesFaithful
<1> QED BY <1>1, StreamsInvariance, PTL

(* However connections, relay tasks, snapshots, drains and detached writes *)
(* interleave, for every limit and size of the window: the counters add    *)
(* up, a flow is active exactly while its task runs, no byte is counted    *)
(* twice or lost, with a clock that does not go back the rate misses no    *)
(* byte of its window, and the stored observations are the newest ones     *)
(* (traffic.rs, diagnostics.rs, proxy.rs, network_diagnostics/store.rs).   *)
THEOREM AccountsKept == Spec => []AccountsExact
<1>1. Init => TeleInv BY TeleStarts DEF Init
<1>2. TeleInv /\ [Next]_vars => TeleInv' BY TeleSteps, TeleRests DEF Next, vars
<1>3. TeleInv => AccountsExact BY TeleSays
<1> QED BY <1>1, <1>2, <1>3, PTL DEF Spec

(* Through every table between a flow and the user, for every status a       *)
(* provider may answer: a failure is never shown as healthy and left out     *)
(* only when the agent itself went away; the user is pointed to the provider *)
(* exactly when the operation that failed was with it; and the stored code   *)
(* is the one the command line would derive (network_diagnostics/mod.rs,     *)
(* store.rs, abyss-cli/src/network_diagnostics.rs).                          *)
THEOREM FailuresTold == Spec => []ErrorsFaithful
<1>1. Init => ErrorInv BY ErrorStarts DEF Init
<1>2. ErrorInv /\ [Next]_vars => ErrorInv' BY ErrorSteps, ErrorRests DEF Next, vars
<1>3. ErrorInv => ErrorsFaithful BY ErrorSays
<1> QED BY <1>1, <1>2, <1>3, PTL DEF Spec
=============================================================================
