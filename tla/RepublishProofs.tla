-------------------------- MODULE RepublishProofs --------------------------
(***************************************************************************)
(* Theorems about Republish, for any sources, requests, groups and base    *)
(* configurations and chains of any length: what is read is a list of      *)
(* nodes, each with a type, a flag and a port of 16 bits; a list of links, *)
(* or of Clash entries, is read back node by node; and the rules for the   *)
(* servers stay in front of what the rulesets say.                         *)
(***************************************************************************)
EXTENDS Republish, WellFoundedInduction, SequenceTheorems, TLAPS

-----------------------------------------------------------------------------
(* Lists.                                                                  *)

LEMMA ListOf ==
  ASSUME NEW X, NEW s \in Seq(X)
  PROVE  IsList(s)
  BY DEF IsList, ToSet

LEMMA EmptyList == IsList(<<>>)
  <1>1. <<>> \in Seq({})
    OBVIOUS
  <1> QED
    BY <1>1, ListOf

LEMMA SingleList ==
  ASSUME NEW x
  PROVE  IsList(<<x>>) /\ ToSet(<<x>>) = {x} /\ Len(<<x>>) = 1 /\ <<x>>[1] = x
  <1>1. <<x>> \in Seq({x})
    OBVIOUS
  <1>2. DOMAIN <<x>> = {1} /\ <<x>>[1] = x /\ Len(<<x>>) = 1 /\ ToSet(<<x>>) = {x}
    BY DEF ToSet
  <1> QED
    BY <1>1, <1>2, ListOf

LEMMA ListLen ==
  ASSUME NEW s, IsList(s)
  PROVE  /\ Len(s) \in Nat /\ DOMAIN s = 1 .. Len(s)
         /\ \A i \in 1 .. Len(s) : s[i] \in ToSet(s)
  BY DEF IsList, ToSet

\* A function on 1 .. n.
LEMMA ListFun ==
  ASSUME NEW n \in Nat, NEW s, DOMAIN s = 1 .. n, s = [i \in DOMAIN s |-> s[i]]
  PROVE  IsList(s) /\ Len(s) = n
  <1>1. s \in [1 .. n -> ToSet(s)]
    BY DEF ToSet
  <1> QED
    BY <1>1 DEF IsList

LEMMA ListConcat ==
  ASSUME NEW s, NEW t, IsList(s), IsList(t)
  PROVE  /\ IsList(s \o t) /\ Len(s \o t) = Len(s) + Len(t)
         /\ \A i \in 1 .. Len(s) : (s \o t)[i] = s[i]
         /\ \A i \in 1 .. Len(t) : (s \o t)[Len(s) + i] = t[i]
  <1> DEFINE X == ToSet(s) \cup ToSet(t)
  <1>1. s \in Seq(X) /\ t \in Seq(X)
    BY DEF IsList
  <1> HIDE DEF X
  <1>2. s \o t \in Seq(X)
    BY <1>1
  <1>3. IsList(s \o t)
    BY <1>2, ListOf
  <1>4. /\ Len(s \o t) = Len(s) + Len(t)
        /\ \A i \in 1 .. Len(s) : (s \o t)[i] = s[i]
        /\ \A i \in 1 .. Len(t) : (s \o t)[Len(s) + i] = t[i]
    BY <1>1, ConcatProperties
  <1> QED
    BY <1>3, <1>4

LEMMA ConcatSet ==
  ASSUME NEW s, NEW t, IsList(s), IsList(t)
  PROVE  ToSet(s \o t) = ToSet(s) \cup ToSet(t)
  <1>1. /\ Len(s) \in Nat /\ DOMAIN s = 1 .. Len(s) /\ Len(t) \in Nat /\ DOMAIN t = 1 .. Len(t)
        /\ DOMAIN (s \o t) = 1 .. (Len(s) + Len(t))
    BY ListLen, ListConcat
  <1>2. \A k \in 1 .. (Len(s) + Len(t)) :
          \/ k \in 1 .. Len(s)
          \/ k - Len(s) \in 1 .. Len(t) /\ k = Len(s) + (k - Len(s))
    BY <1>1
  <1>3. \A x \in ToSet(s \o t) : x \in ToSet(s) \cup ToSet(t)
    BY <1>1, <1>2, ListConcat DEF ToSet
  <1>4. \A i \in 1 .. Len(s) : i \in DOMAIN (s \o t)
    BY <1>1
  <1>5. \A i \in 1 .. Len(t) : Len(s) + i \in DOMAIN (s \o t)
    BY <1>1
  <1>6. \A i \in 1 .. Len(s) : s[i] \in ToSet(s \o t)
    BY <1>4, ListConcat DEF ToSet
  <1>7. \A i \in 1 .. Len(t) : t[i] \in ToSet(s \o t)
    BY <1>5, ListConcat DEF ToSet
  <1> QED
    BY <1>1, <1>3, <1>6, <1>7 DEF ToSet

LEMMA ListAppend ==
  ASSUME NEW s, NEW x, IsList(s)
  PROVE  IsList(Append(s, x)) /\ Len(Append(s, x)) = Len(s) + 1
  <1> DEFINE X == ToSet(s) \cup {x}
  <1>1. s \in Seq(X) /\ x \in X
    BY DEF IsList
  <1> HIDE DEF X
  <1>2. Append(s, x) \in Seq(X) /\ Len(Append(s, x)) = Len(s) + 1
    BY <1>1
  <1> QED
    BY <1>2, ListOf

\* A set of natural numbers has a smallest one.
LEMMA Least ==
  ASSUME NEW S \in SUBSET Nat, S # {}
  PROVE  \E m \in S : \A n \in S : m <= n
  <1>1. PICK m \in S : \A n \in S : ~(<<n, m>> \in OpToRel(<, Nat))
    BY NatLessThanWellFounded, WFMin, Zenon
  <1>2. \A n \in S : ~(n < m)
    BY <1>1, Zenon DEF OpToRel
  <1> QED
    BY <1>2

\* A set of numbers that holds 0 and with each number below n the next one.
LEMMA Climb ==
  ASSUME NEW n \in Nat, NEW S, 0 \in S,
         \A k \in 0 .. n : k \in S /\ k < n => k + 1 \in S
  PROVE  0 .. n \subseteq S
  <1> DEFINE left == {k \in 0 .. n : k \notin S}
  <1>1. SUFFICES ASSUME left # {} PROVE FALSE
    OBVIOUS
  <1>2. left \in SUBSET Nat
    OBVIOUS
  <1>3. PICK m \in left : \A k \in left : m <= k
    <2> HIDE DEF left
    <2> QED
      BY <1>1, <1>2, Least
  <1>4. m # 0 /\ m - 1 \in 0 .. n /\ m - 1 < n /\ m - 1 \notin left
    BY <1>3
  <1> QED
    BY <1>3, <1>4

\* FlattenSeq() is a chain of concatenations.
FlatStep(s, m, f) == [i \in 1 .. m |-> IF i = 1 THEN s[i] ELSE f[i - 1] \o s[i]]
FlatRuns(s, m) == \E f : f = FlatStep(s, m, f)

LEMMA FlatByStep ==
  ASSUME NEW s
  PROVE  FlattenSeq(s) = IF Len(s) = 0 THEN s
                         ELSE (CHOOSE f : f = FlatStep(s, Len(s), f))[Len(s)]
  BY DEF FlattenSeq, FlatStep

LEMMA FlatSolved ==
  ASSUME NEW s, NEW n \in Nat
  PROVE  FlatRuns(s, n)
  <1> DEFINE S == {m \in 0 .. n : FlatRuns(s, m)}
  <1>1. 0 \in S
    <2>1. [i \in 1 .. 0 |-> s] = FlatStep(s, 0, [i \in 1 .. 0 |-> s])
      BY DEF FlatStep
    <2> QED
      BY <2>1 DEF FlatRuns
  <1>2. ASSUME NEW k \in 0 .. n, k \in S, k < n PROVE k + 1 \in S
    <2>1. PICK f : f = FlatStep(s, k, f)
      BY <1>2 DEF FlatRuns
    <2> DEFINE g == [i \in 1 .. (k + 1) |->
                        IF i <= k THEN f[i] ELSE IF i = 1 THEN s[i] ELSE f[k] \o s[i]]
    <2>2. \A i \in 1 .. k : f[i] = IF i = 1 THEN s[i] ELSE f[i - 1] \o s[i]
      BY <2>1 DEF FlatStep
    <2>3. \A i \in 1 .. (k + 1) : g[i] = IF i = 1 THEN s[i] ELSE g[i - 1] \o s[i]
      BY <2>2
    <2>4. g = FlatStep(s, k + 1, g)
      BY <2>3 DEF FlatStep
    <2> QED
      BY <1>2, <2>4 DEF FlatRuns
  <1>3. 0 .. n \subseteq S
    <2> HIDE DEF S
    <2> QED
      BY <1>1, <1>2, Climb
  <1> QED
    BY <1>3

\* The lists joined so far, after each of them.
LEMMA FlatChain ==
  ASSUME NEW s, IsList(s), \A i \in DOMAIN s : IsList(s[i])
  PROVE  \E f : /\ f[0] = <<>> /\ f[Len(s)] = FlattenSeq(s)
                /\ \A i \in 0 .. Len(s) : IsList(f[i])
                /\ \A i \in 1 .. Len(s) : f[i] = f[i - 1] \o s[i]
  <1> DEFINE n == Len(s)
             X == UNION {ToSet(s[i]) : i \in 1 .. n}
  <1>1. n \in Nat /\ DOMAIN s = 1 .. n
    BY ListLen
  <1>2. \A i \in 1 .. n : s[i] \in Seq(X)
    BY <1>1 DEF IsList
  <1>3. CASE n = 0
    <2>1. s = <<>>
      BY <1>3 DEF IsList
    <2>2. FlattenSeq(s) = <<>>
      BY <1>3, <2>1, FlatByStep
    <2>3. IsList(<<>>)
      BY EmptyList
    <2> DEFINE f == [i \in 0 .. 0 |-> <<>>]
    <2>4. f[0] = <<>> /\ f[n] = FlattenSeq(s) /\ \A i \in 0 .. n : IsList(f[i])
      BY <1>3, <2>2, <2>3
    <2>5. \A i \in 1 .. n : f[i] = f[i - 1] \o s[i]
      BY <1>3
    <2> HIDE DEF f
    <2> QED
      BY <2>4, <2>5
  <1>4. CASE n # 0
    <2> DEFINE f == CHOOSE f : f = FlatStep(s, n, f)
    <2>1. f = FlatStep(s, n, f)
      <3>1. FlatRuns(s, n)
        BY <1>1, FlatSolved
      <3> QED
        BY <3>1, Zenon DEF FlatRuns
    <2>2. FlattenSeq(s) = f[n]
      BY <1>4, FlatByStep
    <2> HIDE DEF f
    <2>3. \A i \in 1 .. n : f[i] = IF i = 1 THEN s[i] ELSE f[i - 1] \o s[i]
      BY <2>1, Zenon DEF FlatStep
    <2> DEFINE g == [i \in 0 .. n |-> IF i = 0 THEN <<>> ELSE f[i]]
    <2>4. \A i \in 1 .. n : g[i] = g[i - 1] \o s[i]
      <3> SUFFICES ASSUME NEW i \in 1 .. n PROVE g[i] = g[i - 1] \o s[i]
        OBVIOUS
      <3>1. g[i] = IF i = 1 THEN s[i] ELSE f[i - 1] \o s[i]
        BY <1>1, <2>3
      <3>2. g[i - 1] = IF i = 1 THEN <<>> ELSE f[i - 1]
        BY <1>1
      <3>3. s[i] = <<>> \o s[i]
        <4> HIDE DEF X
        <4> QED
          BY <1>2, ConcatEmptySeq
      <3> HIDE DEF g
      <3> QED
        BY <3>1, <3>2, <3>3
    <2>5. 0 .. n \subseteq {i \in 0 .. n : g[i] \in Seq(X)}
      <3> DEFINE S == {i \in 0 .. n : g[i] \in Seq(X)}
      <3>1. 0 \in S
        BY <1>1
      <3>2. ASSUME NEW k \in 0 .. n, k \in S, k < n PROVE k + 1 \in S
        <4>1. k + 1 \in 1 .. n /\ (k + 1) - 1 = k
          BY <1>1, <3>2
        <4>2. g[k + 1] = g[k] \o s[k + 1]
          BY <2>4, <4>1
        <4>3. g[k] \in Seq(X) /\ s[k + 1] \in Seq(X)
          BY <1>2, <3>2, <4>1
        <4>4. g[k + 1] \in Seq(X)
          <5> HIDE DEF g, X
          <5> QED
            BY <4>2, <4>3
        <4> QED
          BY <1>1, <4>1, <4>4
      <3>3. 0 .. n \subseteq S
        <4> HIDE DEF S
        <4> QED
          BY <1>1, <3>1, <3>2, Climb
      <3> QED
        BY <3>3
    <2>6. g[0] = <<>> /\ g[n] = f[n]
      BY <1>1, <1>4
    <2> HIDE DEF g, X
    <2>7. \A i \in 0 .. n : IsList(g[i])
      BY <2>5, ListOf
    <2> QED
      BY <2>2, <2>4, <2>6, <2>7
  <1> QED
    BY <1>3, <1>4

\* What is in the parts is in the whole, and nothing else.
LEMMA FlatList ==
  ASSUME NEW s, IsList(s), \A i \in DOMAIN s : IsList(s[i])
  PROVE  /\ IsList(FlattenSeq(s))
         /\ ToSet(FlattenSeq(s)) = UNION {ToSet(s[i]) : i \in DOMAIN s}
  <1>1. Len(s) \in Nat /\ DOMAIN s = 1 .. Len(s)
    BY ListLen
  <1>2. PICK f : /\ f[0] = <<>> /\ f[Len(s)] = FlattenSeq(s)
                 /\ \A i \in 0 .. Len(s) : IsList(f[i])
                 /\ \A i \in 1 .. Len(s) : f[i] = f[i - 1] \o s[i]
    BY FlatChain
  <1> DEFINE n == Len(s)
             S == {m \in 0 .. n : ToSet(f[m]) = UNION {ToSet(s[i]) : i \in 1 .. m}}
  <1>3. 0 \in S
    BY <1>1, <1>2 DEF ToSet
  <1>4. ASSUME NEW k \in 0 .. n, k \in S, k < n PROVE k + 1 \in S
    <2>1. k + 1 \in 1 .. n /\ (k + 1) - 1 = k
      BY <1>1, <1>4
    <2>2. f[k + 1] = f[k] \o s[k + 1] /\ IsList(f[k]) /\ IsList(s[k + 1])
      BY <1>1, <1>2, <2>1
    <2>3. ToSet(f[k + 1]) = ToSet(f[k]) \cup ToSet(s[k + 1])
      BY <2>2, ConcatSet
    <2>4. 1 .. (k + 1) = (1 .. k) \cup {k + 1}
      BY <1>1
    <2> QED
      BY <1>4, <2>1, <2>3, <2>4
  <1>5. 0 .. n \subseteq S
    <2> HIDE DEF S
    <2> QED
      BY <1>1, <1>3, <1>4, Climb
  <1>6. n \in S /\ IsList(f[n])
    BY <1>1, <1>2, <1>5
  <1> QED
    BY <1>1, <1>2, <1>6
\* Lists joined under an index.
LEMMA FlatOver ==
  ASSUME NEW s, IsList(s), NEW f, DOMAIN f = DOMAIN s, f = [i \in DOMAIN f |-> f[i]],
         \A i \in DOMAIN s : IsList(f[i])
  PROVE  /\ IsList(f) /\ IsList(FlattenSeq(f))
         /\ ToSet(FlattenSeq(f)) = UNION {ToSet(f[i]) : i \in DOMAIN s}
  <1>1. IsList(f)
    BY ListLen, ListFun
  <1> QED
    BY <1>1, FlatList

LEMMA GivenList ==
  ASSUME NEW c, NEW s, IsList(s)
  PROVE  IsList(Given(c, s)) /\ ToSet(Given(c, s)) \subseteq ToSet(s)
  <1>1. IsList(<<>>) /\ ToSet(<<>>) = {}
    BY EmptyList DEF ToSet
  <1> QED
    BY <1>1 DEF Given

-----------------------------------------------------------------------------
(* Nodes.                                                                  *)

Flags == {"", "true", "false"}
NodeOK(n) == n.type \in Types /\ n.scv \in Flags /\ IsU16(n.port)
AllOK(s) == IsList(s) /\ \A i \in DOMAIN s : NodeOK(s[i])
\* What the parser of one link, line or entry answers.
OneNode(s) == s = <<>> \/ \E n : NodeOK(n) /\ s = <<n>>

LEMMA GivenNode ==
  ASSUME NEW c, NEW n, c => NodeOK(n)
  PROVE  OneNode(Given(c, <<n>>)) /\ OneNode(Given(c, One(n)))
  BY DEF Given, One, OneNode

LEMMA OneNodeOK ==
  ASSUME NEW s, OneNode(s)
  PROVE  IsList(s) /\ \A n \in ToSet(s) : NodeOK(n)
  <1>1. CASE s = <<>>
    BY <1>1, EmptyList DEF ToSet
  <1>2. ASSUME NEW n, NodeOK(n), s = <<n>> PROVE IsList(s) /\ \A m \in ToSet(s) : NodeOK(m)
    BY <1>2, SingleList
  <1> QED
    BY <1>1, <1>2 DEF OneNode

LEMMA NoneOK == AllOK(<<>>)
  BY EmptyList DEF AllOK

\* A subscription is read entry by entry.
LEMMA ReadEach ==
  ASSUME NEW s, IsList(s), NEW f, DOMAIN f = DOMAIN s, f = [i \in DOMAIN f |-> f[i]],
         \A i \in DOMAIN s : OneNode(f[i])
  PROVE  AllOK(FlattenSeq(f))
  <1>1. \A i \in DOMAIN s : IsList(f[i]) /\ \A n \in ToSet(f[i]) : NodeOK(n)
    BY OneNodeOK
  <1>2. IsList(FlattenSeq(f)) /\ ToSet(FlattenSeq(f)) = UNION {ToSet(f[i]) : i \in DOMAIN s}
    BY <1>1, FlatOver
  <1>3. \A k \in DOMAIN FlattenSeq(f) : FlattenSeq(f)[k] \in ToSet(FlattenSeq(f))
    BY DEF ToSet
  <1> HIDE DEF NodeOK
  <1> QED
    BY <1>1, <1>2, <1>3 DEF AllOK

\* The constructors take the port and the flag they are given.
LEMMA Constructed ==
  ASSUME NEW type \in Types, NEW name, NEW server, NEW port, IsU16(port), NEW scv \in Flags
  PROVE  /\ NodeOK(CommonConstruct(type, name, server, port))
         /\ \A id, net, cipher, host, tls, sni :
              NodeOK(VmessConstruct(name, server, port, id, net, cipher, host, tls, sni, scv))
         /\ \A password, method, plugin :
              NodeOK(SsConstruct(name, server, port, password, method, plugin, scv))
         /\ \A protocol, method, obfs, password :
              NodeOK(SsrConstruct(name, server, port, protocol, method, obfs, password, scv))
         /\ \A username, password :
              NodeOK(SocksConstruct(name, server, port, username, password, scv))
         /\ \A username, password, tls :
              NodeOK(HttpConstruct(name, server, port, username, password, tls, scv))
         /\ \A password, net, host, sni, tls :
              NodeOK(TrojanConstruct(name, server, port, password, net, host, sni, tls, scv))
         /\ \A password, obfs, host :
              NodeOK(SnellConstruct(name, server, port, password, obfs, host, scv))
         /\ \A private_key, public_key :
              NodeOK(WireguardConstruct(name, server, port, private_key, public_key))
         /\ \A password, obfs, sni :
              NodeOK(HysteriaConstruct(type, name, server, port, password, obfs, sni, scv))
  <1> USE DEF NodeOK, CommonConstruct
  <1>1. NodeOK(CommonConstruct(type, name, server, port))
    BY DEF Types, Flags
  <1>2. \A id, net, cipher, host, tls, sni :
          NodeOK(VmessConstruct(name, server, port, id, net, cipher, host, tls, sni, scv))
    <2> SUFFICES ASSUME NEW id, NEW net, NEW cipher, NEW host, NEW tls, NEW sni
                 PROVE  NodeOK(VmessConstruct(name, server, port, id, net, cipher, host, tls, sni, scv))
      OBVIOUS
    <2> DEFINE n == VmessConstruct(name, server, port, id, net, cipher, host, tls, sni, scv)
    <2>1. n.type = "vmess"
      BY DEF VmessConstruct
    <2>2. n.port = port
      BY DEF VmessConstruct
    <2>3. n.scv = scv
      BY DEF VmessConstruct
    <2> HIDE DEF n
    <2>4. NodeOK(n)
      BY <2>1, <2>2, <2>3 DEF Types
    <2> QED
      BY <2>4 DEF n
  <1>3. \A password, method, plugin :
          NodeOK(SsConstruct(name, server, port, password, method, plugin, scv))
    <2> SUFFICES ASSUME NEW password, NEW method, NEW plugin
                 PROVE  NodeOK(SsConstruct(name, server, port, password, method, plugin, scv))
      OBVIOUS
    <2> DEFINE n == SsConstruct(name, server, port, password, method, plugin, scv)
    <2>1. n.type = "ss"
      BY DEF SsConstruct
    <2>2. n.port = port
      BY DEF SsConstruct
    <2>3. n.scv = scv
      BY DEF SsConstruct
    <2> HIDE DEF n
    <2>4. NodeOK(n)
      BY <2>1, <2>2, <2>3 DEF Types
    <2> QED
      BY <2>4 DEF n
  <1>4. \A protocol, method, obfs, password :
          NodeOK(SsrConstruct(name, server, port, protocol, method, obfs, password, scv))
    <2> SUFFICES ASSUME NEW protocol, NEW method, NEW obfs, NEW password
                 PROVE  NodeOK(SsrConstruct(name, server, port, protocol, method, obfs, password, scv))
      OBVIOUS
    <2> DEFINE n == SsrConstruct(name, server, port, protocol, method, obfs, password, scv)
    <2>1. n.type = "ssr"
      BY DEF SsrConstruct
    <2>2. n.port = port
      BY DEF SsrConstruct
    <2>3. n.scv = scv
      BY DEF SsrConstruct
    <2> HIDE DEF n
    <2>4. NodeOK(n)
      BY <2>1, <2>2, <2>3 DEF Types
    <2> QED
      BY <2>4 DEF n
  <1>5. \A username, password :
          NodeOK(SocksConstruct(name, server, port, username, password, scv))
    BY DEF Types, Flags, SocksConstruct
  <1>6. \A username, password, tls :
          NodeOK(HttpConstruct(name, server, port, username, password, tls, scv))
    <2> SUFFICES ASSUME NEW username, NEW password, NEW tls
                 PROVE  NodeOK(HttpConstruct(name, server, port, username, password, tls, scv))
      OBVIOUS
    <2> DEFINE n == HttpConstruct(name, server, port, username, password, tls, scv)
    <2>1. n.type \in {"http", "https"}
      BY DEF HttpConstruct
    <2>2. n.port = port
      BY DEF HttpConstruct
    <2>3. n.scv = scv
      BY DEF HttpConstruct
    <2> HIDE DEF n
    <2>4. NodeOK(n)
      BY <2>1, <2>2, <2>3 DEF Types
    <2> QED
      BY <2>4 DEF n
  <1>7. \A password, net, host, sni, tls :
          NodeOK(TrojanConstruct(name, server, port, password, net, host, sni, tls, scv))
    <2> SUFFICES ASSUME NEW password, NEW net, NEW host, NEW sni, NEW tls
                 PROVE  NodeOK(TrojanConstruct(name, server, port, password, net, host, sni, tls, scv))
      OBVIOUS
    <2> DEFINE n == TrojanConstruct(name, server, port, password, net, host, sni, tls, scv)
    <2>1. n.type = "trojan"
      BY DEF TrojanConstruct
    <2>2. n.port = port
      BY DEF TrojanConstruct
    <2>3. n.scv = scv
      BY DEF TrojanConstruct
    <2> HIDE DEF n
    <2>4. NodeOK(n)
      BY <2>1, <2>2, <2>3 DEF Types
    <2> QED
      BY <2>4 DEF n
  <1>8. \A password, obfs, host :
          NodeOK(SnellConstruct(name, server, port, password, obfs, host, scv))
    <2> SUFFICES ASSUME NEW password, NEW obfs, NEW host
                 PROVE  NodeOK(SnellConstruct(name, server, port, password, obfs, host, scv))
      OBVIOUS
    <2> DEFINE n == SnellConstruct(name, server, port, password, obfs, host, scv)
    <2>1. n.type = "snell"
      BY DEF SnellConstruct
    <2>2. n.port = port
      BY DEF SnellConstruct
    <2>3. n.scv = scv
      BY DEF SnellConstruct
    <2> HIDE DEF n
    <2>4. NodeOK(n)
      BY <2>1, <2>2, <2>3 DEF Types
    <2> QED
      BY <2>4 DEF n
  <1>9. \A private_key, public_key :
          NodeOK(WireguardConstruct(name, server, port, private_key, public_key))
    BY DEF Types, Flags, WireguardConstruct
  <1>10. \A password, obfs, sni :
          NodeOK(HysteriaConstruct(type, name, server, port, password, obfs, sni, scv))
    <2> SUFFICES ASSUME NEW password, NEW obfs, NEW sni
                 PROVE  NodeOK(HysteriaConstruct(type, name, server, port, password, obfs, sni, scv))
      OBVIOUS
    <2> DEFINE n == HysteriaConstruct(type, name, server, port, password, obfs, sni, scv)
    <2>1. n.type = type
      BY DEF HysteriaConstruct
    <2>2. n.port = port
      BY DEF HysteriaConstruct
    <2>3. n.scv = scv
      BY DEF HysteriaConstruct
    <2> HIDE DEF n
    <2>4. NodeOK(n)
      BY <2>1, <2>2, <2>3 DEF Types
    <2> QED
      BY <2>4 DEF n
  <1> QED
    BY <1>1, <1>2, <1>3, <1>4, <1>5, <1>6, <1>7, <1>8, <1>9, <1>10

LEMMA VmessOK ==
  ASSUME NEW name, NEW server, NEW port, IsU16(port), NEW scv \in Flags,
         NEW id, NEW net, NEW cipher, NEW host, NEW tls, NEW sni
  PROVE  NodeOK(VmessConstruct(name, server, port, id, net, cipher, host, tls, sni, scv))
  <1>1. "vmess" \in Types
    BY DEF Types
  <1> QED
    BY <1>1, Constructed

LEMMA FlagOK == \A text : Flag(text) \in Flags /\ AsBool(text) \in Flags
  BY DEF Flag, AsBool, Flags

LEMMA U16OK == \A text : IsU16(U16(text)) /\ IsU16(AsU16(text))
  BY TextAssumption DEF U16, AsU16, IsU16
-----------------------------------------------------------------------------
(* Links.                                                                  *)

LEMMA KnownPorts ==
  /\ \A p \in Ports : IsU16(p)
  /\ IsU16("0") /\ IsU16("80") /\ IsU16("443") /\ IsU16("8388") /\ IsU16("51820")
  BY TextAssumption DEF IsU16

\* The port of a url that parses.
LEMMA UrlPort ==
  ASSUME NEW l, UrlParses(l)
  PROVE  /\ l.port # "" => IsU16(l.port)
         /\ \A p : IsU16(p) => IsU16(Or(l.port, p))
  BY DEF UrlParses, Or

LEMMA ScvOK == "" \in Flags /\ \A text : Or(Flag(text), "false") \in Flags
  BY DEF Flags, Or, Flag

\* A parser gives a VMess node if its conditions hold, and no node else.
LEMMA GivenVmess ==
  ASSUME NEW c, NEW name, NEW server, NEW port, c => IsU16(port), NEW scv \in Flags,
         NEW id, NEW net, NEW cipher, NEW host, NEW tls, NEW sni
  PROVE  LET n == VmessConstruct(name, server, port, id, net, cipher, host, tls, sni, scv)
         IN  OneNode(Given(c, <<n>>)) /\ OneNode(Given(c, One(n)))
  BY VmessOK, GivenNode

LEMMA ExplodeStdVmessNewOK == \A l : OneNode(ExplodeStdVmessNew(l))
  <1> TAKE l
  <1> DEFINE c      == UrlParses(l) /\ l.host # "" /\ l.port # "" /\ l.user # ""
             name   == Default(l.frag, l.host, l.port)
             port   == l.port
             id     == Username(l)
             net    == Or(Or(Q(l, "type"), Q(l, "network")), "tcp")
             cipher == Or(Or(Q(l, "encryption"), Q(l, "security")), "auto")
             host   == IF HasQ(l, "host") THEN Q(l, "host") ELSE l.host
             tls    == CASE Q(l, "tls") \in {"1", "true"} -> "tls"
                         [] Q(l, "tls") \in {"0", "false"} -> ""
                         [] OTHER -> Q(l, "tls")
             sni    == Q(l, "sni")
  <1>1. ExplodeStdVmessNew(l)
          = Given(c, One(VmessConstruct(name, l.host, port, id, net, cipher, host, tls, sni, "")))
    BY DEF ExplodeStdVmessNew
  <1>2. c => IsU16(port)
    BY UrlPort
  <1> HIDE DEF c, name, port, id, net, cipher, host, tls, sni
  <1> QED
    BY <1>1, <1>2, ScvOK, GivenVmess

LEMMA ExplodeVmessOK == \A l : OneNode(ExplodeVmess(l))
  BY GivenVmess, U16OK, ScvOK DEF ExplodeVmess

LEMMA ExplodeStdVmessOK == \A l : OneNode(ExplodeStdVmess(l))
  <1> TAKE l
  <1> DEFINE c      == l.shape = "url" /\ l.port # "" /\ l.user \notin DOMAIN Base64User
             name   == Default(l.frag, l.host, U16(l.port))
             port   == U16(l.port)
             id     == l.user
             net    == Or(Q(l, "network"), "tcp")
             cipher == "auto"
             host   == IF HasQ(l, "host") THEN Q(l, "host") ELSE l.host
             tls    == Q(l, "tls")
             sni    == Q(l, "sni")
  <1>1. ExplodeStdVmess(l)
          = Given(c, One(VmessConstruct(name, l.host, port, id, net, cipher, host, tls, sni, "")))
    BY DEF ExplodeStdVmess
  <1>2. c => IsU16(port)
    BY U16OK
  <1> HIDE DEF c, name, port, id, net, cipher, host, tls, sni
  <1> QED
    BY <1>1, <1>2, ScvOK, GivenVmess

LEMMA ExplodeShadowrocketOK == \A l : OneNode(ExplodeShadowrocket(l))
  <1> TAKE l
  <1> DEFINE c      == UrlParses(l) /\ l.port \notin {"", "0"} /\ l.user \in DOMAIN Base64User
             name   == Default(l.frag, l.host, l.port)
             port   == l.port
             id     == Base64User[l.user].id
             net    == Or(Q(l, "obfs"), "tcp")
             cipher == Base64User[l.user].cipher
             host   == IF HasQ(l, "obfsParam") THEN Q(l, "obfsParam") ELSE l.host
             tls    == IF Q(l, "tls") = "1" THEN "tls" ELSE ""
             sni    == Q(l, "peer")
  <1>1. ExplodeShadowrocket(l)
          = Given(c, One(VmessConstruct(name, l.host, port, id, net, cipher, host, tls, sni, "")))
    BY DEF ExplodeShadowrocket
  <1>2. c => IsU16(port)
    BY UrlPort
  <1> HIDE DEF c, name, port, id, net, cipher, host, tls, sni
  <1> QED
    BY <1>1, <1>2, ScvOK, GivenVmess

LEMMA ExplodeKitsunebiOK == \A l : OneNode(ExplodeKitsunebi(l))
  BY GivenNode, Constructed, KnownPorts, UrlPort, U16OK, FlagOK, ScvOK
  DEF ExplodeKitsunebi, Types

LEMMA ExplodeSsOK == \A l : OneNode(ExplodeSs(l))
  BY GivenNode, Constructed, KnownPorts, UrlPort, U16OK, FlagOK, ScvOK
  DEF ExplodeSs, Types

LEMMA ExplodeSocksOK == \A l : OneNode(ExplodeSocks(l))
  BY GivenNode, Constructed, KnownPorts, UrlPort, U16OK, FlagOK, ScvOK
  DEF ExplodeSocks, Types

LEMMA ExplodeHttpOK == \A l : OneNode(ExplodeHttp(l))
  BY GivenNode, Constructed, KnownPorts, UrlPort, U16OK, FlagOK, ScvOK
  DEF ExplodeHttp, Types

LEMMA ExplodeHttpSubOK == \A l : OneNode(ExplodeHttpSub(l))
  BY GivenNode, Constructed, KnownPorts, UrlPort, U16OK, FlagOK, ScvOK
  DEF ExplodeHttpSub, Types

LEMMA ExplodeTrojanOK == \A l : OneNode(ExplodeTrojan(l))
  <1>1. \A l : OneNode(ExplodeTrojanUrl(l))
    BY GivenNode, Constructed, KnownPorts, UrlPort, U16OK, FlagOK, ScvOK
    DEF ExplodeTrojanUrl, Types
  <1> HIDE DEF OneNode
  <1> QED
    BY <1>1 DEF ExplodeTrojan

LEMMA ExplodeSnellOK == \A l : OneNode(ExplodeSnell(l))
  BY GivenNode, Constructed, KnownPorts, UrlPort, U16OK, FlagOK, ScvOK
  DEF ExplodeSnell, Types

LEMMA ExplodeWireguardOK == \A l : OneNode(ExplodeWireguard(l))
  BY GivenNode, Constructed, KnownPorts, UrlPort, U16OK, FlagOK, ScvOK
  DEF ExplodeWireguard, Types

LEMMA ExplodeHysteriaOK == \A l : OneNode(ExplodeHysteria(l))
  BY GivenNode, Constructed, KnownPorts, UrlPort, U16OK, FlagOK, ScvOK
  DEF ExplodeHysteria, Types

LEMMA ExplodeHysteria2OK == \A l : OneNode(ExplodeHysteria2(l))
  BY GivenNode, Constructed, KnownPorts, UrlPort, U16OK, FlagOK, ScvOK
  DEF ExplodeHysteria2, Types

LEMMA ExplodeVlessOK == \A l : OneNode(ExplodeVless(l))
  <1> SUFFICES ASSUME NEW l PROVE OneNode(ExplodeVless(l))
    OBVIOUS
  <1> DEFINE net == Or(Q(l, "type"), "tcp")
             n == [CommonConstruct("vless", l.frag, l.host, Or(l.port, "443")) EXCEPT
                     !.user = Username(l), !.net = net, !.sni = Q(l, "sni"),
                     !.host = IF net \in {"http", "h2", "ws", "httpupgrade"} \/ (net = "tcp"
                                 /\ Q(l, "headerType") # "none")
                              THEN Q(l, "host") ELSE "",
                     !.tls = Q(l, "security") \in {"tls", "xtls", "reality"}]
  <1>1. ExplodeVless(l) = Given(UrlParses(l) /\ l.user # "" /\ l.host # "", One(n))
    BY DEF ExplodeVless
  <1>2. n.type = "vless" /\ n.scv = "" /\ n.port = Or(l.port, "443")
    BY DEF CommonConstruct
  <1> HIDE DEF n
  <1>3. UrlParses(l) => NodeOK(n)
    BY <1>2, UrlPort, KnownPorts, ScvOK DEF NodeOK, Types
  <1> QED
    BY <1>1, <1>3, GivenNode

LEMMA FirstOfOK ==
  ASSUME NEW results, IsList(results), \A i \in DOMAIN results : OneNode(results[i])
  PROVE  OneNode(FirstOf(results))
  <1>1. OneNode(<<>>)
    BY DEF OneNode
  <1> HIDE DEF OneNode
  <1>2. CASE \E i \in DOMAIN results : results[i] # <<>>
    <2> DEFINE S == {i \in DOMAIN results : results[i] # <<>>}
    <2>1. DOMAIN results = 1 .. Len(results) /\ Len(results) \in Nat
      BY ListLen
    <2>2. S \in SUBSET Nat /\ S # {}
      BY <1>2, <2>1
    <2>3. PICK m \in S : \A i \in S : m <= i
      <3> HIDE DEF S
      <3> QED
        BY <2>2, Least
    <2>4. results[m] # <<>> /\ \A j \in 1 .. (m - 1) : results[j] = <<>>
      BY <2>1, <2>3
    <2> QED
      BY <1>2, <2>3, <2>4 DEF FirstOf
  <1> QED
    BY <1>1, <1>2 DEF FirstOf

LEMMA ExplodeOK == \A l : OneNode(Explode(l))
  <1> SUFFICES ASSUME NEW l PROVE OneNode(Explode(l))
    OBVIOUS
  <1>1. OneNode(<<>>)
    BY DEF OneNode
  <1> HIDE DEF OneNode
  <1>2. OneNode(FirstOf(<<ExplodeStdVmessNew(l), ExplodeVmess(l), ExplodeStdVmess(l),
                          ExplodeShadowrocket(l), ExplodeKitsunebi(l)>>))
    <2> DEFINE r == <<ExplodeStdVmessNew(l), ExplodeVmess(l), ExplodeStdVmess(l),
                      ExplodeShadowrocket(l), ExplodeKitsunebi(l)>>
    <2>1. r \in Seq({r[1], r[2], r[3], r[4], r[5]}) /\ DOMAIN r = 1 .. 5
      OBVIOUS
    <2>2. OneNode(r[1]) /\ OneNode(r[2]) /\ OneNode(r[3]) /\ OneNode(r[4]) /\ OneNode(r[5])
      BY ExplodeStdVmessNewOK, ExplodeVmessOK, ExplodeStdVmessOK, ExplodeShadowrocketOK,
         ExplodeKitsunebiOK
    <2> HIDE DEF r
    <2>3. IsList(r) /\ \A i \in DOMAIN r : OneNode(r[i])
      BY <2>1, <2>2, ListOf
    <2>4. OneNode(FirstOf(r))
      BY <2>3, FirstOfOK
    <2> QED
      BY <2>4 DEF r
  <1>3. OneNode(FirstOf(<<ExplodeHttp(l), ExplodeHttpSub(l)>>))
    <2> DEFINE r == <<ExplodeHttp(l), ExplodeHttpSub(l)>>
    <2>1. r \in Seq({r[1], r[2]}) /\ DOMAIN r = 1 .. 2
      OBVIOUS
    <2>2. OneNode(r[1]) /\ OneNode(r[2])
      BY ExplodeHttpOK, ExplodeHttpSubOK
    <2> HIDE DEF r
    <2>3. IsList(r) /\ \A i \in DOMAIN r : OneNode(r[i])
      BY <2>1, <2>2, ListOf
    <2>4. OneNode(FirstOf(r))
      BY <2>3, FirstOfOK
    <2> QED
      BY <2>4 DEF r
  <1> QED
    BY <1>1, <1>2, <1>3, ExplodeSsOK, ExplodeSocksOK, ExplodeTrojanOK, ExplodeSnellOK,
       ExplodeWireguardOK, ExplodeHysteriaOK, ExplodeHysteria2OK, ExplodeVlessOK
    DEF Explode

LEMMA ReadLinksOK ==
  ASSUME NEW links, IsList(links)
  PROVE  AllOK(ReadLinks(links))
  BY ReadEach, ExplodeOK DEF ReadLinks

-----------------------------------------------------------------------------
(* Lines.                                                                  *)

LEMMA TextOK ==
  /\ \A c : (IF c THEN "true" ELSE "") \in Flags
  /\ \A opts, k : SurgeFlag(opts, k) \in Flags
  /\ \A c, from : QuanScv(c, from) \in Flags
  BY FlagOK DEF Flags, SurgeFlag, QuanScv

LEMMA ParseSurgeCustomSsOK == \A name, c : OneNode(ParseSurgeCustomSs(name, c))
  BY GivenNode, Constructed, KnownPorts, TextOK, ScvOK DEF ParseSurgeCustomSs, Types

LEMMA ParseSurgeSsOK == \A name, c : OneNode(ParseSurgeSs(name, c))
  BY GivenNode, Constructed, KnownPorts, TextOK, ScvOK DEF ParseSurgeSs, Types

LEMMA ParseSurgeHttpOK == \A name, c : OneNode(ParseSurgeHttp(name, c))
  BY GivenNode, Constructed, KnownPorts, TextOK, ScvOK DEF ParseSurgeHttp, Types

LEMMA ParseSurgeSocksOK == \A name, c : OneNode(ParseSurgeSocks(name, c))
  BY GivenNode, Constructed, KnownPorts, TextOK, ScvOK DEF ParseSurgeSocks, Types

LEMMA ParseSurgeVmessOK == \A name, c : OneNode(ParseSurgeVmess(name, c))
  <1> TAKE name, c
  <1> DEFINE opts == Options(c, 4)
             asks == Len(c) >= 3 /\ Port(c) \in Ports
             hosts == SelectSeq(opts, LAMBDA item : item[1] \in {"obfs-host", "ws-headers"})
             host == IF hosts = <<>> THEN "" ELSE hosts[Len(hosts)][2]
             net  == IF Opt(opts, "ws") = "true" THEN "ws" ELSE "tcp"
             tls  == IF Opt(opts, "tls") = "true" THEN "tls" ELSE ""
             scv  == SurgeFlag(opts, "skip-cert-verify")
             id   == Opt(opts, "username")
  <1>1. ParseSurgeVmess(name, c)
          = Given(asks, <<VmessConstruct(name, Server(c), Port(c), id, net, "auto", host, tls,
                                         "", scv)>>)
    BY DEF ParseSurgeVmess
  <1>2. scv \in Flags
    BY TextOK
  <1>3. asks => IsU16(Port(c))
    BY KnownPorts
  <1> HIDE DEF opts, asks, hosts, host, net, tls, scv, id
  <1> QED
    BY <1>1, <1>2, <1>3, GivenVmess

LEMMA ParseSurgeTrojanOK == \A name, c : OneNode(ParseSurgeTrojan(name, c))
  BY GivenNode, Constructed, KnownPorts, TextOK, ScvOK DEF ParseSurgeTrojan, Types

LEMMA ParseSurgeSnellOK == \A name, c : OneNode(ParseSurgeSnell(name, c))
  BY GivenNode, Constructed, KnownPorts, TextOK, ScvOK DEF ParseSurgeSnell, Types

LEMMA ParseQuanSsOK == \A name, c : OneNode(ParseQuanSs(name, c))
  BY GivenNode, Constructed, KnownPorts, TextOK, ScvOK DEF ParseQuanSs, Types

LEMMA ParseQuanSsrOK == \A name, c : OneNode(ParseQuanSsr(name, c))
  BY GivenNode, Constructed, KnownPorts, TextOK, ScvOK DEF ParseQuanSsr, Types

LEMMA ParseQuanVmessOK == \A name, c : OneNode(ParseQuanVmess(name, c))
  <1> TAKE name, c
  <1> DEFINE opts == SubSeq(c, 6, Len(c))
             asks == Len(c) >= 6 /\ Port(c) \in Ports
             hosts == SelectSeq(opts, LAMBDA item : item[1] \in {"tls-host", "obfs-header"})
             host == IF hosts = <<>> THEN "" ELSE Unquote(hosts[Len(hosts)][2])
             net  == IF <<"obfs", "ws">> \in ToSet(opts) THEN "ws" ELSE "tcp"
             tls  == IF Opt(opts, "over-tls") = "true" THEN "tls" ELSE ""
             id   == Unquote(Arg(c, 5))
  <1>1. ParseQuanVmess(name, c)
          = Given(asks, <<VmessConstruct(name, Server(c), Port(c), id, net, Arg(c, 4), host, tls,
                                         "", "")>>)
    BY DEF ParseQuanVmess
  <1>2. asks => IsU16(Port(c))
    BY KnownPorts
  <1> HIDE DEF opts, asks, hosts, host, net, tls, id
  <1> QED
    BY <1>1, <1>2, ScvOK, GivenVmess

LEMMA ParseQuanHttpOK == \A name, c : OneNode(ParseQuanHttp(name, c))
  BY GivenNode, Constructed, KnownPorts, TextOK, ScvOK DEF ParseQuanHttp, Types

LEMMA ParseQuanTrojanOK == \A name, c : OneNode(ParseQuanTrojan(name, c))
  BY GivenNode, Constructed, KnownPorts, TextOK, ScvOK DEF ParseQuanTrojan, Types

LEMMA ReadIniOK ==
  ASSUME NEW lines, IsList(lines)
  PROVE  AllOK(ReadIni(lines))
  <1>1. OneNode(<<>>)
    BY DEF OneNode
  <1>2. \A l : OneNode(ParseSurgeLine(l))
    BY <1>1, ParseSurgeCustomSsOK, ParseSurgeSsOK, ParseSurgeHttpOK, ParseSurgeSocksOK,
       ParseSurgeVmessOK, ParseSurgeTrojanOK, ParseSurgeSnellOK DEF ParseSurgeLine
  <1>3. \A l : OneNode(ParseQuanLine(l))
    BY <1>1, ParseQuanSsOK, ParseQuanSsrOK, ParseQuanVmessOK, ParseQuanHttpOK,
       ParseQuanTrojanOK DEF ParseQuanLine
  <1> HIDE DEF OneNode
  <1>4. AllOK(ExplodeSurge(lines))
    <2> DEFINE f == [i \in DOMAIN lines |->
                        IF InProxySection(lines, i) THEN ParseSurgeLine(lines[i]) ELSE <<>>]
    <2>1. \A i \in DOMAIN lines : OneNode(f[i])
      BY <1>1, <1>2
    <2>2. DOMAIN f = DOMAIN lines /\ f = [i \in DOMAIN f |-> f[i]]
      OBVIOUS
    <2>3. ExplodeSurge(lines) = FlattenSeq(f)
      BY DEF ExplodeSurge
    <2> HIDE DEF f
    <2> QED
      BY <2>1, <2>2, <2>3, ReadEach
  <1>5. AllOK(ExplodeQuan(lines))
    BY <1>3, ReadEach DEF ExplodeQuan
  <1> QED
    BY <1>4, <1>5, NoneOK DEF ReadIni, Given

-----------------------------------------------------------------------------
(* Documents.                                                              *)

LEMMA ParseVmessEntryOK == \A e : OneNode(ParseVmessEntry(e))
  BY Constructed, U16OK, FlagOK DEF ParseVmessEntry, Types, Given, OneNode

LEMMA ParseOutboundOK == \A e : OneNode(ParseOutbound(e))
  BY GivenNode, Constructed, U16OK, ScvOK DEF ParseOutbound, Types

LEMMA EntriesList ==
  ASSUME NEW lines, IsList(lines), NEW name
  PROVE  IsList(Entries(lines, name))
  <1> DEFINE f == [i \in DOMAIN lines |-> Given(lines[i].name = name, <<lines[i]>>)]
  <1>1. \A i \in DOMAIN lines : IsList(f[i])
    BY SingleList, GivenList
  <1>2. DOMAIN f = DOMAIN lines /\ f = [i \in DOMAIN f |-> f[i]]
    OBVIOUS
  <1>3. Entries(lines, name) = FlattenSeq(f)
    BY DEF Entries, Those
  <1> HIDE DEF f
  <1> QED
    BY <1>1, <1>2, <1>3, FlatOver

LEMMA ExplodeVmessConfOK ==
  ASSUME NEW lines, IsList(lines)
  PROVE  AllOK(ExplodeVmessConf(lines))
  <1> DEFINE outbounds == Entries(lines, "outbound")
             entries == Entries(lines, "vmess")
  <1>1. AllOK(FlattenSeq([i \in DOMAIN outbounds |-> ParseOutbound(outbounds[i])]))
    BY EntriesList, ReadEach, ParseOutboundOK
  <1>2. AllOK(FlattenSeq([i \in DOMAIN entries |-> ParseVmessEntry(entries[i])]))
    BY EntriesList, ReadEach, ParseVmessEntryOK
  <1> QED
    BY <1>1, <1>2 DEF ExplodeVmessConf

LEMMA ExplodeSsdOK ==
  ASSUME NEW top, NEW servers, IsList(servers)
  PROVE  AllOK(ExplodeSsd(top, servers))
  <1>1. \A e : NodeOK(SsdServer(top, e))
    BY Constructed, U16OK, ScvOK DEF SsdServer, Types
  <1>2. IsList(ExplodeSsd(top, servers))
    BY ListLen, ListFun DEF ExplodeSsd
  <1> HIDE DEF NodeOK
  <1> QED
    BY <1>1, <1>2 DEF AllOK, ExplodeSsd

LEMMA ExplodeNetchOK == \A e : OneNode(ExplodeNetch(e))
  <1>1. \A e, port, name : IsU16(port) => OneNode(NetchVmess(e, port, name))
    <2> SUFFICES ASSUME NEW e, NEW port, NEW name, IsU16(port)
                 PROVE  OneNode(NetchVmess(e, port, name))
      OBVIOUS
    <2> DEFINE id     == Either(e, "UserID", "Id")
               net    == Or(Either(e, "TransferProtocol", "Network"), "tcp")
               cipher == Or(Either(e, "EncryptMethod", "Security"), "auto")
               host   == Key(e, "Host")
               tls    == IF Either(e, "TLSSecure", "TLS") = "true" THEN "tls" ELSE ""
               sni    == Key(e, "ServerName")
               scv    == AsBool(Key(e, "AllowInsecure"))
    <2>1. NetchVmess(e, port, name)
            = Given(id # "", <<VmessConstruct(name, Key(e, "Hostname"), port, id, net, cipher,
                                              host, tls, sni, scv)>>)
      BY DEF NetchVmess
    <2>2. scv \in Flags
      BY FlagOK
    <2> HIDE DEF id, net, cipher, host, tls, sni, scv
    <2> QED
      BY <2>1, <2>2, GivenVmess
  <1>2. \A e, port, name : IsU16(port) => OneNode(NetchNode(e, port, name))
    <2>1. OneNode(<<>>) /\ \A n : NodeOK(n) => OneNode(<<n>>)
      BY DEF OneNode
    <2> SUFFICES ASSUME NEW e, NEW port, NEW name, IsU16(port)
                 PROVE  OneNode(NetchNode(e, port, name))
      OBVIOUS
    <2> DEFINE server == Key(e, "Hostname")
               secret == Key(e, "Password")
               scv == AsBool(Key(e, "AllowInsecure"))
               method == Either(e, "EncryptMethod", "Method")
               host == Either(e, "Host", "ServerName")
               ss(c) == Given(c, <<SsConstruct(name, server, port, secret, method,
                                               Key(e, "Plugin"), scv)>>)
               ssr(c) == Given(c, <<SsrConstruct(name, server, port, Key(e, "Protocol"), method,
                                                 Key(e, "OBFS"), secret, scv)>>)
               trojan(c) == Given(c, <<TrojanConstruct(name, server, port, secret, "", host,
                                                       host, TRUE, scv)>>)
    <2>2. \A c : OneNode(ss(c)) /\ OneNode(ssr(c)) /\ OneNode(trojan(c))
      BY GivenNode, Constructed, FlagOK DEF Types
    <2>3. OneNode(<<SocksConstruct(name, server, port, Key(e, "Username"), secret, scv)>>)
      BY <2>1, Constructed, FlagOK DEF Types
    <2>4. \A tls : OneNode(<<HttpConstruct(name, server, port, Key(e, "Username"), secret,
                                           tls, scv)>>)
      BY <2>1, Constructed, FlagOK DEF Types
    <2> QED
      BY <1>1, <2>1, <2>2, <2>3, <2>4 DEF NetchNode
  <1> QED
    BY <1>2, KnownPorts DEF ExplodeNetch, Given, OneNode

LEMMA ExplodeNetchConfOK ==
  ASSUME NEW servers, IsList(servers)
  PROVE  AllOK(ExplodeNetchConf(servers))
  BY ExplodeNetchOK, ReadEach DEF ExplodeNetchConf

-----------------------------------------------------------------------------
(* Clash.                                                                  *)

LEMMA BaseOK ==
  ASSUME NEW e, ReadablePort(Opt(e.items, "port")), NEW type \in Types
  PROVE  /\ Base(type, e).type = type /\ Base(type, e).scv = ""
         /\ Base(type, e).port = Opt(e.items, "port")
         /\ BaseScv(type, e).type = type /\ BaseScv(type, e).scv \in Flags
         /\ BaseScv(type, e).port = Opt(e.items, "port")
         /\ IsU16(Opt(e.items, "port"))
  BY KnownPorts, FlagOK DEF Base, BaseScv, CommonConstruct, ReadablePort

\* What is set over the base is neither the type, the flag nor the port.
LEMMA KeptOK ==
  ASSUME NEW n, NEW m, m.type = n.type, m.scv = n.scv, m.port = n.port, NodeOK(n)
  PROVE  NodeOK(m)
  BY DEF NodeOK

LEMMA BaseNodeOK ==
  ASSUME NEW e, ReadablePort(Opt(e.items, "port")), NEW type \in Types
  PROVE  NodeOK(Base(type, e)) /\ NodeOK(BaseScv(type, e))
  <1>1. "" \in Flags
    BY DEF Flags
  <1> QED
    BY <1>1, BaseOK DEF NodeOK

LEMMA InputShadowsocksOK ==
  ASSUME NEW e, ReadablePort(Opt(e.items, "port"))
  PROVE  NodeOK(InputShadowsocks(e))
  <1> DEFINE n == BaseScv("ss", e)
             m == InputShadowsocks(e)
  <1>1. m.type = n.type /\ m.scv = n.scv /\ m.port = n.port
    BY DEF InputShadowsocks, Base, BaseScv, CommonConstruct
  <1>2. NodeOK(n)
    BY BaseNodeOK DEF Types
  <1> HIDE DEF m, n
  <1>3. NodeOK(m)
    BY <1>1, <1>2, KeptOK
  <1> QED
    BY <1>3 DEF m

LEMMA InputShadowsocksROK ==
  ASSUME NEW e, ReadablePort(Opt(e.items, "port"))
  PROVE  NodeOK(InputShadowsocksR(e))
  <1> DEFINE n == BaseScv("ssr", e)
             m == InputShadowsocksR(e)
  <1>1. m.type = n.type /\ m.scv = n.scv /\ m.port = n.port
    BY DEF InputShadowsocksR, Base, BaseScv, CommonConstruct
  <1>2. NodeOK(n)
    BY BaseNodeOK DEF Types
  <1> HIDE DEF m, n
  <1>3. NodeOK(m)
    BY <1>1, <1>2, KeptOK
  <1> QED
    BY <1>3 DEF m

LEMMA InputVMessOK ==
  ASSUME NEW e, ReadablePort(Opt(e.items, "port"))
  PROVE  NodeOK(InputVMess(e))
  <1> DEFINE n == BaseScv("vmess", e)
             m == InputVMess(e)
  <1>1. m.type = n.type /\ m.scv = n.scv /\ m.port = n.port
    BY DEF InputVMess, Base, BaseScv, CommonConstruct
  <1>2. NodeOK(n)
    BY BaseNodeOK DEF Types
  <1> HIDE DEF m, n
  <1>3. NodeOK(m)
    BY <1>1, <1>2, KeptOK
  <1> QED
    BY <1>3 DEF m

LEMMA InputTrojanOK ==
  ASSUME NEW e, ReadablePort(Opt(e.items, "port"))
  PROVE  NodeOK(InputTrojan(e))
  <1> DEFINE n == BaseScv("trojan", e)
             m == InputTrojan(e)
  <1>1. m.type = n.type /\ m.scv = n.scv /\ m.port = n.port
    BY DEF InputTrojan, Base, BaseScv, CommonConstruct
  <1>2. NodeOK(n)
    BY BaseNodeOK DEF Types
  <1> HIDE DEF m, n
  <1>3. NodeOK(m)
    BY <1>1, <1>2, KeptOK
  <1> QED
    BY <1>3 DEF m

LEMMA InputSocks5OK ==
  ASSUME NEW e, ReadablePort(Opt(e.items, "port"))
  PROVE  NodeOK(InputSocks5(e))
  <1> DEFINE n == BaseScv("socks5", e)
             m == InputSocks5(e)
  <1>1. m.type = n.type /\ m.scv = n.scv /\ m.port = n.port
    BY DEF InputSocks5, Base, BaseScv, CommonConstruct
  <1>2. NodeOK(n)
    BY BaseNodeOK DEF Types
  <1> HIDE DEF m, n
  <1>3. NodeOK(m)
    BY <1>1, <1>2, KeptOK
  <1> QED
    BY <1>3 DEF m

LEMMA InputSnellOK ==
  ASSUME NEW e, ReadablePort(Opt(e.items, "port"))
  PROVE  NodeOK(InputSnell(e))
  <1> DEFINE n == Base("snell", e)
             m == InputSnell(e)
  <1>1. m.type = n.type /\ m.scv = n.scv /\ m.port = n.port
    BY DEF InputSnell, Base, BaseScv, CommonConstruct
  <1>2. NodeOK(n)
    BY BaseNodeOK DEF Types
  <1> HIDE DEF m, n
  <1>3. NodeOK(m)
    BY <1>1, <1>2, KeptOK
  <1> QED
    BY <1>3 DEF m

LEMMA InputWireGuardOK ==
  ASSUME NEW e, ReadablePort(Opt(e.items, "port"))
  PROVE  NodeOK(InputWireGuard(e))
  <1> DEFINE n == Base("wireguard", e)
             m == InputWireGuard(e)
  <1>1. m.type = n.type /\ m.scv = n.scv /\ m.port = n.port
    BY DEF InputWireGuard, Base, BaseScv, CommonConstruct
  <1>2. NodeOK(n)
    BY BaseNodeOK DEF Types
  <1> HIDE DEF m, n
  <1>3. NodeOK(m)
    BY <1>1, <1>2, KeptOK
  <1> QED
    BY <1>3 DEF m

LEMMA InputHysteriaOK ==
  ASSUME NEW e, ReadablePort(Opt(e.items, "port"))
  PROVE  NodeOK(InputHysteria(e))
  <1> DEFINE n == BaseScv("hysteria", e)
             m == InputHysteria(e)
  <1>1. m.type = n.type /\ m.scv = n.scv /\ m.port = n.port
    BY DEF InputHysteria, Base, BaseScv, CommonConstruct
  <1>2. NodeOK(n)
    BY BaseNodeOK DEF Types
  <1> HIDE DEF m, n
  <1>3. NodeOK(m)
    BY <1>1, <1>2, KeptOK
  <1> QED
    BY <1>3 DEF m

LEMMA InputHysteria2OK ==
  ASSUME NEW e, ReadablePort(Opt(e.items, "port"))
  PROVE  NodeOK(InputHysteria2(e))
  <1> DEFINE n == BaseScv("hysteria2", e)
             m == InputHysteria2(e)
  <1>1. m.type = n.type /\ m.scv = n.scv /\ m.port = n.port
    BY DEF InputHysteria2, Base, BaseScv, CommonConstruct
  <1>2. NodeOK(n)
    BY BaseNodeOK DEF Types
  <1> HIDE DEF m, n
  <1>3. NodeOK(m)
    BY <1>1, <1>2, KeptOK
  <1> QED
    BY <1>3 DEF m

LEMMA InputVLessOK ==
  ASSUME NEW e, ReadablePort(Opt(e.items, "port"))
  PROVE  NodeOK(InputVLess(e))
  <1> DEFINE n == BaseScv("vless", e)
             m == InputVLess(e)
  <1>1. m.type = n.type /\ m.scv = n.scv /\ m.port = n.port
    BY DEF InputVLess, Base, BaseScv, CommonConstruct
  <1>2. NodeOK(n)
    BY BaseNodeOK DEF Types
  <1> HIDE DEF m, n
  <1>3. NodeOK(m)
    BY <1>1, <1>2, KeptOK
  <1> QED
    BY <1>3 DEF m

LEMMA InputAnyTLSOK ==
  ASSUME NEW e, ReadablePort(Opt(e.items, "port"))
  PROVE  NodeOK(InputAnyTLS(e))
  <1> DEFINE n == BaseScv("anytls", e)
             m == InputAnyTLS(e)
  <1>1. m.type = n.type /\ m.scv = n.scv /\ m.port = n.port
    BY DEF InputAnyTLS, Base, BaseScv, CommonConstruct
  <1>2. NodeOK(n)
    BY BaseNodeOK DEF Types
  <1> HIDE DEF m, n
  <1>3. NodeOK(m)
    BY <1>1, <1>2, KeptOK
  <1> QED
    BY <1>3 DEF m

LEMMA InputHttpOK ==
  ASSUME NEW e, ReadablePort(Opt(e.items, "port"))
  PROVE  NodeOK(InputHttp(e))
  <1> DEFINE type == IF Opt(e.items, "tls") = "true" THEN "https" ELSE "http"
             n == BaseScv(type, e)
             m == InputHttp(e)
  <1>1. m.type = n.type /\ m.scv = n.scv /\ m.port = n.port
    BY DEF InputHttp, Base, BaseScv, CommonConstruct
  <1>2. type \in Types
    BY DEF Types
  <1>3. NodeOK(n)
    <2> HIDE DEF type
    <2> QED
      BY <1>2, BaseOK DEF NodeOK
  <1> HIDE DEF m, n
  <1>4. NodeOK(m)
    BY <1>1, <1>3, KeptOK
  <1> QED
    BY <1>4 DEF m

LEMMA ExplodeClashOK ==
  ASSUME NEW entries, IsList(entries)
  PROVE  AllOK(ExplodeClash(entries))
  <1>1. ASSUME NEW raw PROVE OneNode(ParseEntry(raw))
    <2> DEFINE e == Normalized(raw)
               type == ClashType(e)
               n == InputOf(type, e)
               readable == /\ type \in Types \ {"https"}
                           /\ Required(type) \subseteq Keys(e)
                           /\ ReadablePort(Opt(e.items, "port"))
    <2>1. ParseEntry(raw) = Given(readable, <<n>>)
      BY DEF ParseEntry
    <2>2. readable => NodeOK(n)
      <3> HIDE DEF e
      <3>1. readable => \/ type = "ss" \/ type = "ssr" \/ type = "vmess" \/ type = "trojan"
                        \/ type = "http" \/ type = "socks5" \/ type = "snell"
                        \/ type = "wireguard" \/ type = "hysteria" \/ type = "vless"
                        \/ type = "hysteria2" \/ type = "anytls"
        BY DEF Types
      <3> HIDE DEF type
      <3> QED
        BY <3>1, InputShadowsocksOK, InputShadowsocksROK, InputVMessOK, InputTrojanOK,
           InputHttpOK, InputSocks5OK, InputSnellOK, InputWireGuardOK, InputHysteriaOK,
           InputVLessOK, InputHysteria2OK, InputAnyTLSOK DEF InputOf
    <2> HIDE DEF n, readable
    <2> QED
      BY <2>1, <2>2, GivenNode
  <1> QED
    BY <1>1, ReadEach DEF ExplodeClash

LEMMA ReadOK ==
  ASSUME NEW c, IsList(c.lines)
  PROVE  AllOK(ReadContent(c))
  BY ReadIniOK, ReadLinksOK, ExplodeClashOK, ExplodeSsdOK, ExplodeVmessConfOK,
     ExplodeNetchConfOK, NoneOK DEF ReadContent

-----------------------------------------------------------------------------
(* The text of a configuration.                                            *)

Shaped(ini) == DOMAIN ini = {"order", "content", "current", "parsed"}
\* Every section that is in the order has a list of lines.
Good(ini) ==
  /\ Shaped(ini) /\ IsList(ini.order)
  /\ \A s \in ToSet(ini.order) : s \in DOMAIN ini.content
  /\ \A s \in DOMAIN ini.content : IsList(ini.content[s])

LEMMA AppendSet ==
  ASSUME NEW s, IsList(s), NEW x
  PROVE  ToSet(Append(s, x)) = ToSet(s) \cup {x}
  <1>1. Append(s, x) = s \o <<x>>
    BY DEF IsList
  <1> QED
    BY <1>1, ConcatSet, SingleList

LEMMA SectionGood ==
  ASSUME NEW ini, Good(ini), NEW s
  PROVE  IsList(Section(ini, s))
  BY EmptyList DEF Good, Section

LEMMA SectionPutGood ==
  ASSUME NEW ini, Good(ini), NEW s, NEW lines, IsList(lines)
  PROVE  Good(SectionPut(ini, s, lines))
  <1> DEFINE new == SectionPut(ini, s, lines)
             order == IF s \in DOMAIN ini.content THEN ini.order ELSE Append(ini.order, s)
             after == [t \in DOMAIN ini.content \cup {s} |->
                            IF t = s THEN lines ELSE ini.content[t]]
  <1>1. new.order = order /\ new.content = after /\ Shaped(new)
    BY DEF SectionPut, Good, Shaped
  <1>2. IsList(order) /\ ToSet(order) \subseteq ToSet(ini.order) \cup {s}
    BY AppendSet, ListAppend DEF Good
  <1>3. \A t \in DOMAIN after : IsList(after[t])
    BY DEF Good
  <1>4. \A t \in ToSet(order) : t \in DOMAIN after
    BY <1>2 DEF Good
  <1> HIDE DEF new, order, after
  <1>5. Good(new)
    BY <1>1, <1>2, <1>3, <1>4 DEF Good
  <1> QED
    BY <1>5 DEF new

LEMMA SetPairGood ==
  ASSUME NEW ini, Good(ini), NEW s, NEW l
  PROVE  Good(SetPair(ini, s, l))
  <1>1. \A title : IsList(Append(Section(ini, title), l))
    BY SectionGood, ListAppend
  <1> QED
    BY <1>1, SectionPutGood DEF SetPair

LEMMA CurrentGood ==
  ASSUME NEW ini, Good(ini), NEW s
  PROVE  Good(SetCurrentSection(ini, s))
  BY DEF SetCurrentSection, Good, Shaped

LEMMA EmptiedGood ==
  ASSUME NEW ini, Good(ini), NEW title \in DOMAIN ini.content
  PROVE  Good([ini EXCEPT !.content[title] = <<>>])
  <1> DEFINE new == [ini EXCEPT !.content[title] = <<>>]
             after == [ini.content EXCEPT ![title] = <<>>]
  <1>1. new.order = ini.order /\ new.content = after /\ Shaped(new)
    BY DEF Good, Shaped
  <1>2. \A t \in DOMAIN after : IsList(after[t])
    BY EmptyList DEF Good
  <1>3. DOMAIN after = DOMAIN ini.content
    OBVIOUS
  <1> HIDE DEF new, after
  <1>4. Good(new)
    BY <1>1, <1>2, <1>3 DEF Good
  <1> QED
    BY <1>4 DEF new

LEMMA EraseGood ==
  ASSUME NEW ini, Good(ini)
  PROVE  Good(EraseSection(ini)) /\ \A s : Good(EraseSectionByName(ini, s))
  BY EmptiedGood DEF EraseSection, EraseSectionByName

LEMMA EmptyGood == Good(Empty)
  <1>1. IsList(<<>>) /\ ToSet(<<>>) = {}
    BY EmptyList DEF ToSet
  <1> QED
    BY <1>1 DEF Good, Shaped, Empty

LEMMA TextList ==
  ASSUME NEW ini, Good(ini)
  PROVE  IsList(ToText(ini))
  <1> DEFINE f == [i \in DOMAIN ini.order |->
                     <<Line(ini.order[i], <<>>)>> \o ini.content[ini.order[i]]]
  <1>1. IsList(ini.order)
    BY DEF Good
  <1>2. ASSUME NEW i \in DOMAIN ini.order PROVE IsList(f[i])
    <2>1. IsList(ini.content[ini.order[i]])
      BY DEF Good, ToSet
    <2> QED
      BY <2>1, SingleList, ListConcat
  <1>3. DOMAIN f = DOMAIN ini.order /\ f = [i \in DOMAIN f |-> f[i]]
    OBVIOUS
  <1>4. ToText(ini) = FlattenSeq(f)
    BY DEF ToText
  <1> HIDE DEF f
  <1> QED
    BY <1>1, <1>2, <1>3, <1>4, FlatOver

\* A base text that is parsed.
LEMMA TitleLines ==
  ASSUME NEW lines, IsList(lines)
  PROVE  /\ IsList(Titles(lines))
         /\ \A i \in DOMAIN Titles(lines) :
                Titles(lines)[i] \in ToSet(lines) /\ IsHeader(Titles(lines)[i])
  <1> DEFINE f == [i \in DOMAIN lines |-> Given(IsHeader(lines[i]), <<lines[i]>>)]
  <1>1. ASSUME NEW i \in DOMAIN lines
        PROVE  IsList(f[i]) /\ \A l \in ToSet(f[i]) : l = lines[i] /\ IsHeader(l)
    <2>1. CASE IsHeader(lines[i])
      BY <2>1, SingleList DEF Given
    <2>2. CASE ~IsHeader(lines[i])
      BY <2>2, EmptyList DEF Given, ToSet
    <2> QED
      BY <2>1, <2>2
  <1>2. DOMAIN f = DOMAIN lines /\ f = [i \in DOMAIN f |-> f[i]]
    OBVIOUS
  <1>3. Titles(lines) = FlattenSeq(f)
    BY DEF Titles, Those
  <1> HIDE DEF f
  <1>4. IsList(Titles(lines)) /\ ToSet(Titles(lines)) = UNION {ToSet(f[i]) : i \in DOMAIN lines}
    BY <1>1, <1>2, <1>3, FlatOver
  <1>5. \A l \in ToSet(Titles(lines)) : l \in ToSet(lines) /\ IsHeader(l)
    BY <1>1, <1>4 DEF ToSet
  <1>6. \A i \in DOMAIN Titles(lines) : Titles(lines)[i] \in ToSet(Titles(lines))
    BY DEF ToSet
  <1> QED
    BY <1>4, <1>5, <1>6

LEMMA BodyList ==
  ASSUME NEW lines, IsList(lines), NEW title \in ToSet(lines)
  PROVE  IsList(Body(lines, title))
  <1> DEFINE at == CHOOSE i \in DOMAIN lines : lines[i] = title
             next == {i \in (at + 1) .. Len(lines) : IsHeader(lines[i])}
             last == IF next = {} THEN Len(lines)
                     ELSE (CHOOSE i \in next : \A j \in next : i <= j) - 1
  <1>1. Len(lines) \in Nat /\ DOMAIN lines = 1 .. Len(lines)
    BY ListLen
  <1>2. at \in 1 .. Len(lines)
    BY <1>1 DEF ToSet
  <1>3. next \in SUBSET Nat /\ next \subseteq 1 .. Len(lines)
    <2> HIDE DEF at
    <2> QED
      BY <1>1, <1>2
  <1>4. last \in Int
    <2> HIDE DEF next
    <2>1. CASE next = {}
      BY <1>1, <2>1
    <2>2. CASE next # {}
      <3>1. \E i \in next : \A j \in next : i <= j
        BY <1>3, <2>2, Least
      <3>2. (CHOOSE i \in next : \A j \in next : i <= j) \in Nat
        BY <1>3, <3>1
      <3> QED
        BY <2>2, <3>2
    <2> QED
      BY <2>1, <2>2
  <1>5. Body(lines, title) = SubSeq(lines, at + 1, last)
    BY DEF Body
  <1> HIDE DEF at, last
  <1> DEFINE X == {lines[i] : i \in (at + 1) .. last}
  <1>6. at + 1 \in Int
    BY <1>1, <1>2
  <1>7. SubSeq(lines, at + 1, last) \in Seq(X)
    BY <1>4, <1>6, SubSeqProperties
  <1> QED
    BY <1>5, <1>7, ListOf

LEMMA ParseGood ==
  ASSUME NEW lines, IsText(lines)
  PROVE  Good(Parse(lines))
  <1>1. IsList(lines)
    BY DEF IsText
  <1> DEFINE titles == Titles(lines)
             order == [i \in DOMAIN titles |-> titles[i].name]
             content_ == [s \in {titles[i].name : i \in DOMAIN titles} |->
                            Body(lines, Line(s, <<>>))]
             new == [Empty EXCEPT !.parsed = TRUE, !.order = order, !.content = content_]
  <1>2. IsList(titles) /\ \A i \in DOMAIN titles : titles[i] \in ToSet(lines) /\ IsHeader(titles[i])
    BY <1>1, TitleLines
  <1>3. \A i \in DOMAIN titles : Line(titles[i].name, <<>>) \in ToSet(lines)
    BY <1>2 DEF IsText, ToSet, IsHeader
  <1>4. \A s \in DOMAIN content_ : IsList(content_[s])
    <2> HIDE DEF titles
    <2> QED
      BY <1>1, <1>3, BodyList
  <1>5. IsList(order)
    <2> HIDE DEF titles
    <2> QED
      BY <1>2, ListLen, ListFun
  <1>6. \A s \in ToSet(order) : s \in DOMAIN content_
    BY DEF ToSet
  <1>7. new.order = order /\ new.content = content_ /\ Shaped(new)
    BY DEF Empty, Shaped
  <1>8. Parse(lines) = Empty \/ Parse(lines) = new
    BY DEF Parse
  <1> HIDE DEF order, content_, new
  <1>9. Good(new)
    BY <1>4, <1>5, <1>6, <1>7 DEF Good
  <1> QED
    BY <1>8, <1>9, EmptyGood

\* Lines that are set one after the other.
PairStep(ini, pairs, m, f) ==
  [i \in 0 .. m |-> IF i = 0 THEN ini ELSE SetPair(f[i - 1], pairs[i][1], pairs[i][2])]
PairRuns(ini, pairs, m) == \E f : f = PairStep(ini, pairs, m, f)

LEMMA PairsByStep ==
  ASSUME NEW ini, NEW pairs
  PROVE  SetPairs(ini, pairs)
           = (CHOOSE f : f = PairStep(ini, pairs, Len(pairs), f))[Len(pairs)]
  BY DEF SetPairs, PairStep

LEMMA PairsSolved ==
  ASSUME NEW ini, NEW pairs, NEW n \in Nat
  PROVE  PairRuns(ini, pairs, n)
  <1> DEFINE S == {m \in 0 .. n : PairRuns(ini, pairs, m)}
  <1>1. 0 \in S
    <2> DEFINE g == [i \in 0 .. 0 |-> ini]
    <2>1. g = PairStep(ini, pairs, 0, g)
      BY DEF PairStep
    <2> QED
      BY <2>1 DEF PairRuns
  <1>2. ASSUME NEW k \in 0 .. n, k \in S, k < n PROVE k + 1 \in S
    <2>1. PICK f : f = PairStep(ini, pairs, k, f)
      BY <1>2 DEF PairRuns
    <2>2. \A i \in 0 .. k :
            f[i] = IF i = 0 THEN ini ELSE SetPair(f[i - 1], pairs[i][1], pairs[i][2])
      BY <2>1, Zenon DEF PairStep
    <2> DEFINE g == [i \in 0 .. (k + 1) |->
                        IF i <= k THEN f[i]
                        ELSE SetPair(f[k], pairs[k + 1][1], pairs[k + 1][2])]
    <2>3. \A i \in 0 .. (k + 1) :
            g[i] = IF i = 0 THEN ini ELSE SetPair(g[i - 1], pairs[i][1], pairs[i][2])
      BY <2>2
    <2>4. g = PairStep(ini, pairs, k + 1, g)
      BY <2>3 DEF PairStep
    <2> QED
      BY <1>2, <2>4 DEF PairRuns
  <1>3. 0 .. n \subseteq S
    <2> HIDE DEF S
    <2> QED
      BY <1>1, <1>2, Climb
  <1> QED
    BY <1>3

LEMMA SetPairsGood ==
  ASSUME NEW ini, Good(ini), NEW pairs, IsList(pairs)
  PROVE  Good(SetPairs(ini, pairs))
  <1> DEFINE n == Len(pairs)
             f == CHOOSE f : f = PairStep(ini, pairs, n, f)
  <1>1. n \in Nat
    BY ListLen
  <1>2. f = PairStep(ini, pairs, n, f)
    <2>1. PairRuns(ini, pairs, n)
      BY <1>1, PairsSolved
    <2> QED
      BY <2>1, Zenon DEF PairRuns
  <1>3. SetPairs(ini, pairs) = f[n]
    BY PairsByStep
  <1> HIDE DEF f
  <1>4. \A i \in 0 .. n :
          f[i] = IF i = 0 THEN ini ELSE SetPair(f[i - 1], pairs[i][1], pairs[i][2])
    BY <1>2, Zenon DEF PairStep
  <1> DEFINE S == {i \in 0 .. n : Good(f[i])}
  <1>5. 0 \in S
    BY <1>1, <1>4
  <1>6. ASSUME NEW k \in 0 .. n, k \in S, k < n PROVE k + 1 \in S
    <2>1. k + 1 \in 0 .. n /\ k + 1 # 0 /\ (k + 1) - 1 = k
      BY <1>1, <1>6
    <2>2. f[k + 1] = SetPair(f[k], pairs[k + 1][1], pairs[k + 1][2])
      BY <1>4, <2>1
    <2> QED
      BY <1>6, <2>1, <2>2, SetPairGood
  <1>7. 0 .. n \subseteq S
    <2> HIDE DEF S
    <2> QED
      BY <1>1, <1>5, <1>6, Climb
  <1> QED
    BY <1>1, <1>3, <1>7

LEMMA SetLinesGood ==
  ASSUME NEW ini, Good(ini), NEW lines, IsList(lines)
  PROVE  Good(SetLines(ini, lines))
  <1> DEFINE pairs == [i \in DOMAIN lines |-> LinePair(lines[i])]
  <1>1. IsList(pairs)
    BY ListLen, ListFun
  <1> HIDE DEF pairs
  <1>2. Good(SetPairs(ini, pairs))
    BY <1>1, SetPairsGood
  <1> QED
    BY <1>2 DEF SetLines, pairs

-----------------------------------------------------------------------------
(* The rules.                                                              *)

AccGood(acc) ==
  /\ DOMAIN acc = {"rules", "total", "final", "panic", "ini"}
  /\ IsList(acc.rules) /\ acc.total \in Nat /\ Good(acc.ini)
RulesetsOK(list) == IsList(list) /\ \A i \in DOMAIN list : IsList(list[i].rules)

\* What was written stays, in front of what is written after it.
Longer(acc, new) ==
  /\ Len(acc.rules) <= Len(new.rules)
  /\ \A k \in 1 .. Len(acc.rules) : new.rules[k] = acc.rules[k]

LEMMA CountedGood ==
  ASSUME NEW acc, AccGood(acc), NEW rules, IsList(rules), NEW r, r.max \in Nat
  PROVE  AccGood(Counted(acc, rules, r)) /\ Longer(acc, Counted(acc, rules, r))
  <1> DEFINE room == r.max - acc.total
             added == IF r.max > 0 /\ Len(rules) > room THEN SubSeq(rules, 1, room) ELSE rules
             new == [acc EXCEPT !.rules = acc.rules \o added, !.total = acc.total + Len(added)]
  <1>1. room \in Int /\ Len(rules) \in Nat
    BY ListLen DEF AccGood
  <1>2. IsList(SubSeq(rules, 1, room))
    <2> HIDE DEF room
    <2> DEFINE X == {rules[i] : i \in 1 .. room}
    <2>1. SubSeq(rules, 1, room) \in Seq(X)
      BY <1>1, SubSeqProperties
    <2> QED
      BY <2>1, ListOf
  <1>3. IsList(added)
    BY <1>2
  <1>4. Counted(acc, rules, r) = new
    BY DEF Counted
  <1> HIDE DEF added
  <1>5. Len(added) \in Nat /\ IsList(acc.rules \o added)
    BY <1>3, ListLen, ListConcat DEF AccGood
  <1>6. /\ DOMAIN new = DOMAIN acc /\ new.rules = acc.rules \o added
        /\ new.total = acc.total + Len(added) /\ new.ini = acc.ini
    BY DEF AccGood
  <1> HIDE DEF new
  <1>7. Longer(acc, new)
    <2>1. /\ Len(acc.rules \o added) = Len(acc.rules) + Len(added)
          /\ \A k \in 1 .. Len(acc.rules) : (acc.rules \o added)[k] = acc.rules[k]
      BY <1>3, ListConcat DEF AccGood
    <2>2. Len(acc.rules) \in Nat
      BY ListLen DEF AccGood
    <2> QED
      BY <1>5, <1>6, <2>1, <2>2 DEF Longer
  <1> QED
    BY <1>4, <1>5, <1>6, <1>7 DEF AccGood

LEMMA ExpandedList ==
  ASSUME NEW rs, IsList(rs.rules), NEW ver
  PROVE  IsList(Expanded(rs, ver))
  <1> DEFINE list == ConvertRuleset(rs)
             known(r) == /\ OfType(r, VersionTypes(ver))
                         /\ ~(ver = -2 /\ StartsWith(r[1], "IP-CIDR6"))
             f == [i \in DOMAIN list |-> Given(known(list[i]), <<list[i]>>)]
  <1>1. IsList(list)
    BY ListLen, ListFun DEF ConvertRuleset
  <1> HIDE DEF list
  <1>2. \A i \in DOMAIN list : IsList(f[i])
    BY SingleList, GivenList
  <1>3. DOMAIN f = DOMAIN list /\ f = [i \in DOMAIN f |-> f[i]]
    OBVIOUS
  <1> DEFINE kept == FlattenSeq(f)
             spelt(r) == IF ForQuan(ver) /\ StartsWith(r[1], "IP-CIDR6")
                         THEN <<"IP6-CIDR">> \o Tail(r) ELSE r
             e == [i \in DOMAIN kept |-> SurgeRule(spelt(kept[i]), rs.group, ver)]
  <1>4. Expanded(rs, ver) = e
    BY DEF Expanded, Those, list
  <1>5. IsList(kept)
    <2> HIDE DEF f
    <2> QED
      BY <1>1, <1>2, <1>3, FlatOver
  <1>6. IsList(e)
    <2> HIDE DEF kept
    <2> QED
      BY <1>5, ListLen, ListFun
  <1> QED
    BY <1>4, <1>6

LEMMA SurgeRulesetGood ==
  ASSUME NEW acc, AccGood(acc), NEW rs, IsList(rs.rules), NEW ver, NEW r, r.max \in Nat
  PROVE  AccGood(SurgeRuleset(acc, rs, ver, r))
  <1>1. AccGood(Counted(acc, <<SurgeRule(Inline(rs), rs.group, ver)>>, r))
    BY SingleList, CountedGood
  <1>2. AccGood(Named(acc, rs))
    BY ListAppend DEF AccGood, Named
  <1>3. AccGood(Remote(acc, rs, ver))
    BY SetPairGood DEF AccGood, Remote
  <1>4. AccGood([acc EXCEPT !.panic = TRUE])
    BY DEF AccGood
  <1>5. AccGood(Counted(acc, Expanded(rs, ver), r))
    BY ExpandedList, CountedGood
  <1> HIDE DEF AccGood
  <1> QED
    BY <1>1, <1>2, <1>3, <1>4, <1>5 DEF SurgeRuleset

\* The lists are converted one after the other.
AccStep(first, list, ver, r, m, f) ==
  [i \in 0 .. m |-> IF i = 0 THEN first ELSE SurgeRuleset(f[i - 1], list[i], ver, r)]
AccRuns(first, list, ver, r, m) == \E f : f = AccStep(first, list, ver, r, m, f)

LEMMA AccSolved ==
  ASSUME NEW first, NEW list, NEW ver, NEW r, NEW n \in Nat
  PROVE  AccRuns(first, list, ver, r, n)
  <1> DEFINE S == {m \in 0 .. n : AccRuns(first, list, ver, r, m)}
  <1>1. 0 \in S
    <2> DEFINE g == [i \in 0 .. 0 |-> first]
    <2>1. g = AccStep(first, list, ver, r, 0, g)
      BY DEF AccStep
    <2> QED
      BY <2>1 DEF AccRuns
  <1>2. ASSUME NEW k \in 0 .. n, k \in S, k < n PROVE k + 1 \in S
    <2>1. PICK f : f = AccStep(first, list, ver, r, k, f)
      BY <1>2 DEF AccRuns
    <2>2. \A i \in 0 .. k :
            f[i] = IF i = 0 THEN first ELSE SurgeRuleset(f[i - 1], list[i], ver, r)
      BY <2>1, Zenon DEF AccStep
    <2> DEFINE g == [i \in 0 .. (k + 1) |->
                        IF i <= k THEN f[i] ELSE SurgeRuleset(f[k], list[k + 1], ver, r)]
    <2>3. \A i \in 0 .. (k + 1) :
            g[i] = IF i = 0 THEN first ELSE SurgeRuleset(g[i - 1], list[i], ver, r)
      BY <2>2
    <2>4. g = AccStep(first, list, ver, r, k + 1, g)
      BY <2>3 DEF AccStep
    <2> QED
      BY <1>2, <2>4 DEF AccRuns
  <1>3. 0 .. n \subseteq S
    <2> HIDE DEF S
    <2> QED
      BY <1>1, <1>2, Climb
  <1> QED
    BY <1>3

LEMMA AccChainGood ==
  ASSUME NEW first, AccGood(first), NEW list, RulesetsOK(list), NEW ver, NEW r, r.max \in Nat
  PROVE  AccGood((CHOOSE f : f = AccStep(first, list, ver, r, Len(list), f))[Len(list)])
  <1> DEFINE n == Len(list)
             f == CHOOSE f : f = AccStep(first, list, ver, r, n, f)
  <1>1. n \in Nat /\ DOMAIN list = 1 .. n
    BY ListLen DEF RulesetsOK
  <1>2. f = AccStep(first, list, ver, r, n, f)
    <2>1. AccRuns(first, list, ver, r, n)
      BY <1>1, AccSolved
    <2> QED
      BY <2>1, Zenon DEF AccRuns
  <1> HIDE DEF f
  <1>3. \A i \in 0 .. n :
          f[i] = IF i = 0 THEN first ELSE SurgeRuleset(f[i - 1], list[i], ver, r)
    BY <1>2, Zenon DEF AccStep
  <1> DEFINE S == {i \in 0 .. n : AccGood(f[i])}
  <1>4. 0 \in S
    BY <1>1, <1>3
  <1>5. ASSUME NEW k \in 0 .. n, k \in S, k < n PROVE k + 1 \in S
    <2>1. k + 1 \in 1 .. n /\ k + 1 \in 0 .. n /\ k + 1 # 0 /\ (k + 1) - 1 = k
      BY <1>1, <1>5
    <2>2. f[k + 1] = SurgeRuleset(f[k], list[k + 1], ver, r)
      BY <1>3, <2>1
    <2>3. IsList(list[k + 1].rules)
      BY <1>1, <2>1 DEF RulesetsOK
    <2> QED
      BY <1>5, <2>1, <2>2, <2>3, SurgeRulesetGood
  <1>6. 0 .. n \subseteq S
    <2> HIDE DEF S
    <2> QED
      BY <1>1, <1>4, <1>5, Climb
  <1>7. AccGood(f[n])
    BY <1>1, <1>6
  <1> QED
    BY <1>7 DEF f

LEMMA RulesetToSurgeGood ==
  ASSUME NEW ini, Good(ini), NEW ver, NEW list, RulesetsOK(list), NEW r, r.max \in Nat
  PROVE  Good(RulesetToSurge(ini, ver, list, r).ini)
  <1> DEFINE at == SetCurrentSection(ini, RuleSection(ver))
             emptied == EraseSectionByName(EraseSection(at), RemoteSection(ver))
             first == Start(IF r.overwrite THEN emptied ELSE at)
             acc == (CHOOSE f : f = AccStep(first, list, ver, r, Len(list), f))[Len(list)]
             pairs == [i \in DOMAIN acc.rules |-> <<"{NONAME}", Line("", Pos(acc.rules[i]))>>]
  <1>1. Good(at) /\ Good(emptied)
    BY CurrentGood, EraseGood
  <1>2. AccGood(first)
    <2> HIDE DEF at, emptied
    <2> QED
      BY <1>1, EmptyList DEF AccGood, Start
  <1>3. RulesetToSurge(ini, ver, list, r) = [acc EXCEPT !.ini = SetPairs(acc.ini, pairs)]
    BY DEF RulesetToSurge, AccStep
  <1>4. AccGood(acc)
    <2> HIDE DEF first
    <2> QED
      BY <1>2, AccChainGood
  <1> HIDE DEF acc
  <1>5. IsList(pairs)
    BY <1>4, ListLen, ListFun DEF AccGood
  <1> HIDE DEF pairs
  <1>6. Good(SetPairs(acc.ini, pairs))
    BY <1>4, <1>5, SetPairsGood DEF AccGood
  <1> QED
    BY <1>3, <1>4, <1>6 DEF AccGood

LEMMA RulesetsOfOK ==
  ASSUME NEW ns, IsList(ns), NEW r \in Exts
  PROVE  RulesetsOK(RulesetsOf(ns, r))
  <1> DEFINE own == [i \in DOMAIN ns |-> DirectRuleset(ns[i].server)]
             first == Given(r.direct, Reverse(own))
  <1>1. Len(ns) \in Nat /\ DOMAIN ns = 1 .. Len(ns)
    BY ListLen
  <1>2. IsList(own) /\ Len(own) = Len(ns) /\ \A i \in 1 .. Len(ns) : IsList(own[i].rules)
    <2>1. \A server : IsList(DirectRuleset(server).rules)
      BY SingleList DEF DirectRuleset
    <2>2. DOMAIN own = 1 .. Len(ns) /\ own = [i \in DOMAIN own |-> own[i]]
      BY <1>1
    <2>3. \A i \in 1 .. Len(ns) : own[i] = DirectRuleset(ns[i].server)
      BY <1>1
    <2> HIDE DEF own
    <2> QED
      BY <1>1, <2>1, <2>2, <2>3, ListFun
  <1> HIDE DEF own
  <1>3. RulesetsOK(Reverse(own))
    <2> DEFINE rev == [i \in 1 .. Len(ns) |-> own[(Len(ns) - i) + 1]]
    <2>1. Reverse(own) = rev
      BY <1>2 DEF Reverse
    <2>2. \A i \in 1 .. Len(ns) : rev[i] = own[(Len(ns) - i) + 1] /\ (Len(ns) - i) + 1 \in 1 .. Len(ns)
      BY <1>1
    <2>3. DOMAIN rev = 1 .. Len(ns) /\ rev = [i \in DOMAIN rev |-> rev[i]]
      OBVIOUS
    <2> HIDE DEF rev
    <2>4. IsList(rev)
      BY <1>1, <2>3, ListFun
    <2> QED
      BY <1>2, <2>1, <2>2, <2>3, <2>4 DEF RulesetsOK
  <1>4. RulesetsOK(<<>>)
    BY EmptyList DEF RulesetsOK
  <1>5. RulesetsOK(first)
    BY <1>3, <1>4 DEF Given
  <1>6. RulesetsOK(r.rulesets)
    BY RequestAssumption DEF RulesetsOK
  <1> HIDE DEF first
  <1>7. ToSet(first \o r.rulesets) = ToSet(first) \cup ToSet(r.rulesets) /\ IsList(first \o r.rulesets)
    BY <1>5, <1>6, ListConcat, ConcatSet DEF RulesetsOK
  <1>8. \A rs \in ToSet(first) \cup ToSet(r.rulesets) : IsList(rs.rules)
    BY <1>5, <1>6 DEF RulesetsOK, ToSet
  <1>9. \A i \in DOMAIN (first \o r.rulesets) : (first \o r.rulesets)[i] \in ToSet(first \o r.rulesets)
    BY DEF ToSet
  <1>10. RulesetsOf(ns, r) = first \o r.rulesets
    BY DEF RulesetsOf, first, own
  <1> QED
    BY <1>7, <1>8, <1>9, <1>10 DEF RulesetsOK

-----------------------------------------------------------------------------
(* The lines of the proxies.                                               *)

NamedStep(names, texts, m, f) ==
  [i \in 0 .. m |->
      IF i = 0 THEN <<>>
      ELSE IF texts[i] = <<>> THEN f[i - 1]
      ELSE LET list == [j \in DOMAIN f[i - 1] |-> f[i - 1][j].name]
           IN  Append(f[i - 1], Line(ProcessRemark(names[i], list), texts[i]))]
NamedRuns(names, texts, m) == \E f : f = NamedStep(names, texts, m, f)
\* One step of it.
NextLines(names, texts, i, lines) ==
  IF texts[i] = <<>> THEN lines
  ELSE LET list == [j \in DOMAIN lines |-> lines[j].name]
       IN  Append(lines, Line(ProcessRemark(names[i], list), texts[i]))

LEMMA NamedByStep ==
  ASSUME NEW names, NEW texts
  PROVE  NamedLines(names, texts)
           = (CHOOSE f : f = NamedStep(names, texts, Len(names), f))[Len(names)]
  BY DEF NamedLines, NamedStep

LEMMA NamedNext ==
  ASSUME NEW names, NEW texts, NEW m \in Nat, NEW f
  PROVE  NamedStep(names, texts, m, f)
           = [i \in 0 .. m |-> IF i = 0 THEN <<>> ELSE NextLines(names, texts, i, f[i - 1])]
  BY DEF NamedStep, NextLines

LEMMA NamedSolved ==
  ASSUME NEW names, NEW texts, NEW n \in Nat
  PROVE  NamedRuns(names, texts, n)
  <1> DEFINE S == {m \in 0 .. n : NamedRuns(names, texts, m)}
             Step(m, f) == [i \in 0 .. m |-> IF i = 0 THEN <<>>
                                             ELSE NextLines(names, texts, i, f[i - 1])]
  <1>1. ASSUME NEW m \in Nat PROVE NamedRuns(names, texts, m) <=> \E f : f = Step(m, f)
    <2>1. \A f : NamedStep(names, texts, m, f) = Step(m, f)
      BY NamedNext
    <2> HIDE DEF Step
    <2> QED
      BY <2>1, Zenon DEF NamedRuns
  <1>2. 0 \in S
    <2> DEFINE g == [i \in 0 .. 0 |-> <<>>]
    <2>1. g = Step(0, g)
      OBVIOUS
    <2>2. NamedRuns(names, texts, 0)
      <3> HIDE DEF g, Step
      <3> QED
        BY <1>1, <2>1
    <2> QED
      BY <2>2
  <1>3. ASSUME NEW k \in 0 .. n, k \in S, k < n PROVE k + 1 \in S
    <2>1. PICK f : f = Step(k, f)
      BY <1>1, <1>3
    <2>2. \A i \in 0 .. k : f[i] = IF i = 0 THEN <<>> ELSE NextLines(names, texts, i, f[i - 1])
      BY <2>1, Zenon
    <2> DEFINE g == [i \in 0 .. (k + 1) |->
                        IF i <= k THEN f[i] ELSE NextLines(names, texts, k + 1, f[k])]
    <2>3. \A i \in 0 .. (k + 1) :
            g[i] = IF i = 0 THEN <<>> ELSE NextLines(names, texts, i, g[i - 1])
      BY <2>2
    <2>4. g = Step(k + 1, g)
      BY <2>3
    <2>5. k + 1 \in Nat /\ k + 1 \in 0 .. n
      BY <1>3
    <2>6. \E h : h = Step(k + 1, h)
      <3> HIDE DEF g
      <3> QED
        BY <2>4
    <2> HIDE DEF Step
    <2> QED
      BY <1>1, <2>5, <2>6
  <1>4. 0 .. n \subseteq S
    <2> HIDE DEF S
    <2> QED
      BY <1>2, <1>3, Climb
  <1> QED
    BY <1>4

LEMMA NamedList ==
  ASSUME NEW names, IsList(names), NEW texts
  PROVE  IsList(NamedLines(names, texts))
  <1> DEFINE n == Len(names)
             f == CHOOSE f : f = NamedStep(names, texts, n, f)
  <1>1. n \in Nat
    BY ListLen
  <1>2. f = NamedStep(names, texts, n, f)
    <2>1. NamedRuns(names, texts, n)
      BY <1>1, NamedSolved
    <2> QED
      BY <2>1, Zenon DEF NamedRuns
  <1>3. NamedLines(names, texts) = f[n]
    BY NamedByStep
  <1> HIDE DEF f
  <1>4. f = [i \in 0 .. n |-> IF i = 0 THEN <<>> ELSE NextLines(names, texts, i, f[i - 1])]
    BY <1>1, <1>2, NamedNext
  <1>5. \A i \in 0 .. n : f[i] = IF i = 0 THEN <<>> ELSE NextLines(names, texts, i, f[i - 1])
    BY <1>4, Zenon
  <1> DEFINE S == {i \in 0 .. n : IsList(f[i])}
  <1>6. 0 \in S
    BY <1>1, <1>5, EmptyList
  <1>7. ASSUME NEW k \in 0 .. n, k \in S, k < n PROVE k + 1 \in S
    <2>1. k + 1 \in 0 .. n /\ k + 1 # 0 /\ (k + 1) - 1 = k
      BY <1>1, <1>7
    <2>2. f[k + 1] = NextLines(names, texts, k + 1, f[k])
      BY <1>5, <2>1
    <2>3. IsList(f[k])
      BY <1>7
    <2>4. IsList(NextLines(names, texts, k + 1, f[k]))
      BY <2>3, ListAppend DEF NextLines
    <2> QED
      BY <2>1, <2>2, <2>4
  <1>8. 0 .. n \subseteq S
    <2> HIDE DEF S
    <2> QED
      BY <1>1, <1>6, <1>7, Climb
  <1> QED
    BY <1>1, <1>3, <1>8

LEMMA NamesList ==
  ASSUME NEW ns, IsList(ns), NEW r
  PROVE  IsList(Names(ns, r))
  <1> DEFINE f == [i \in DOMAIN ns |-> TypedName(ns[i], r)]
  <1>1. DOMAIN f = DOMAIN ns /\ f = [i \in DOMAIN f |-> f[i]]
    OBVIOUS
  <1>2. Names(ns, r) = f
    BY DEF Names
  <1> HIDE DEF f
  <1> QED
    BY <1>1, <1>2, ListLen, ListFun

\* The texts that are there: lists under a condition, joined.
LEMMA GivenFlat ==
  ASSUME NEW s, IsList(s), NEW f, DOMAIN f = DOMAIN s, f = [i \in DOMAIN f |-> f[i]],
         \A i \in DOMAIN s : f[i] = <<>> \/ \E x : f[i] = <<x>>
  PROVE  IsList(FlattenSeq(f))
  <1>1. \A i \in DOMAIN s : IsList(f[i])
    BY EmptyList, SingleList
  <1> QED
    BY <1>1, FlatOver

LEMMA PlainList ==
  ASSUME NEW names, IsList(names), NEW texts
  PROVE  IsList(PlainLines(names, texts))
  <1> DEFINE f == [i \in DOMAIN names |->
                     Given(texts[i] # <<>>, <<Line(ProcessRemark(names[i], <<>>), texts[i])>>)]
  <1>1. \A i \in DOMAIN names : f[i] = <<>> \/ \E x : f[i] = <<x>>
    BY DEF Given
  <1>2. DOMAIN f = DOMAIN names /\ f = [i \in DOMAIN f |-> f[i]]
    OBVIOUS
  <1>3. PlainLines(names, texts) = FlattenSeq(f)
    BY DEF PlainLines
  <1> HIDE DEF f
  <1> QED
    BY <1>1, <1>2, <1>3, GivenFlat

LEMMA LineNamesList ==
  ASSUME NEW lines, IsList(lines)
  PROVE  IsList(LineNames(lines))
  <1> DEFINE f == [i \in DOMAIN lines |-> lines[i].name]
  <1>1. DOMAIN f = DOMAIN lines /\ f = [i \in DOMAIN f |-> f[i]]
    OBVIOUS
  <1>2. LineNames(lines) = f
    BY DEF LineNames
  <1> HIDE DEF f
  <1> QED
    BY <1>1, <1>2, ListLen, ListFun

-----------------------------------------------------------------------------
(* The groups.                                                             *)

LEMMA FilledList ==
  ASSUME NEW types, NEW names, NEW add_direct, NEW default
  PROVE  IsList(FilledGroups(types, names, add_direct, default))
  <1> DEFINE all == [i \in DOMAIN Groups |-> Filled(Groups[i], names, add_direct, default)]
             f == [i \in DOMAIN all |-> Given(all[i].type \in types, <<all[i]>>)]
             known == FlattenSeq(f)
             e == [i \in DOMAIN known |->
                    [name |-> known[i].name, type |-> known[i].type, members |-> known[i].rules]]
  <1>1. IsList(all)
    BY GroupsAssumption, ListLen, ListFun
  <1>2. FilledGroups(types, names, add_direct, default) = e
    BY DEF FilledGroups, Those
  <1>3. IsList(known)
    <2> HIDE DEF all
    <2>1. \A i \in DOMAIN all : f[i] = <<>> \/ \E x : f[i] = <<x>>
      BY DEF Given
    <2>2. DOMAIN f = DOMAIN all /\ f = [i \in DOMAIN f |-> f[i]]
      OBVIOUS
    <2> HIDE DEF f
    <2> QED
      BY <1>1, <2>1, <2>2, GivenFlat
  <1>4. IsList(e)
    <2> HIDE DEF known
    <2> QED
      BY <1>3, ListLen, ListFun
  <1> QED
    BY <1>2, <1>4

LEMMA LoonGroupsList ==
  ASSUME NEW names
  PROVE  IsList(LoonGroups(names))
  <1> DEFINE all == FilledGroups(StaticTypes \cup {"ssid"}, names, TRUE, <<"DIRECT">>)
             f == [i \in DOMAIN all |->
                     Given(all[i].type = "ssid" => Len(all[i].members) >= 2, <<all[i]>>)]
  <1>1. IsList(all)
    BY FilledList
  <1>2. LoonGroups(names) = FlattenSeq(f)
    BY DEF LoonGroups, Those
  <1> HIDE DEF all
  <1>3. \A i \in DOMAIN all : f[i] = <<>> \/ \E x : f[i] = <<x>>
    BY DEF Given
  <1>4. DOMAIN f = DOMAIN all /\ f = [i \in DOMAIN f |-> f[i]]
    OBVIOUS
  <1> HIDE DEF f
  <1> QED
    BY <1>1, <1>2, <1>3, <1>4, GivenFlat

LEMMA QuanGroupsList ==
  ASSUME NEW names
  PROVE  IsList(QuanGroups(names))
  <1> DEFINE all == FilledGroups(StaticTypes \cup {"ssid"}, names, TRUE, <<"direct">>)
             f == [i \in DOMAIN all |->
                     Given(all[i].type = "ssid" => Len(all[i].members) >= 1, <<all[i]>>)]
  <1>1. IsList(all)
    BY FilledList
  <1>2. QuanGroups(names) = FlattenSeq(f)
    BY DEF QuanGroups, Those
  <1> HIDE DEF all
  <1>3. \A i \in DOMAIN all : f[i] = <<>> \/ \E x : f[i] = <<x>>
    BY DEF Given
  <1>4. DOMAIN f = DOMAIN all /\ f = [i \in DOMAIN f |-> f[i]]
    OBVIOUS
  <1> HIDE DEF f
  <1> QED
    BY <1>1, <1>2, <1>3, <1>4, GivenFlat

LEMMA PutSurgeGroupsGood ==
  ASSUME NEW ini, Good(ini), NEW groups, IsList(groups)
  PROVE  Good(PutSurgeGroups(ini, groups))
  <1> DEFINE pair(g) == IF Alone(g) THEN <<"Proxy", Line(g.name, Pos(<<"direct">>))>>
                        ELSE LinePair(GroupLine(g))
             pairs == [i \in DOMAIN groups |-> pair(groups[i])]
  <1>1. IsList(pairs)
    BY ListLen, ListFun
  <1>2. PutSurgeGroups(ini, groups)
          = SetPairs(EraseSection(SetCurrentSection(ini, "Proxy Group")), pairs)
    BY DEF PutSurgeGroups
  <1> HIDE DEF pairs
  <1> QED
    BY <1>1, <1>2, CurrentGood, EraseGood, SetPairsGood

LEMMA PutGroupsGood ==
  ASSUME NEW ini, Good(ini), NEW groups, IsList(groups)
  PROVE  Good(PutLoonGroups(ini, groups)) /\ Good(PutQuanGroups(ini, groups))
  <1> DEFINE loon == [i \in DOMAIN groups |-> GroupLine(groups[i])]
             quan == [i \in DOMAIN groups |-> Line("", Pos(<<"base64:" \o groups[i].name>>))]
  <1>1. IsList(loon) /\ IsList(quan)
    BY ListLen, ListFun
  <1>2. /\ PutLoonGroups(ini, groups) = PutGroups(ini, "Proxy Group", loon)
        /\ PutQuanGroups(ini, groups) = PutGroups(ini, "POLICY", quan)
    BY DEF PutLoonGroups, PutQuanGroups
  <1> HIDE DEF loon, quan
  <1> QED
    BY <1>1, <1>2, CurrentGood, EraseGood, SetLinesGood DEF PutGroups

-----------------------------------------------------------------------------
(* The texts the generators answer.                                        *)

LEMMA WholeList ==
  ASSUME NEW ini, Good(ini), NEW groups, NEW ver, NEW ns, IsList(ns), NEW r \in Exts
  PROVE  IsList(Whole(ini, groups, ver, ns, r).lines)
  <1> DEFINE list == RulesetsOf(ns, r)
             acc == RulesetToSurge(ini, ver, list, r)
  <1>1. r.max \in Nat /\ RulesetsOK(list)
    BY RulesetsOfOK, RequestAssumption
  <1>2. Good(acc.ini)
    <2> HIDE DEF list
    <2> QED
      BY <1>1, RulesetToSurgeGood
  <1>3. Whole(ini, groups, ver, ns, r).lines = ToText(acc.ini)
    BY DEF Whole
  <1> HIDE DEF acc
  <1> QED
    BY <1>2, <1>3, TextList

LEMMA WireguardGood ==
  ASSUME NEW ini, Good(ini), NEW ns, IsList(ns), NEW ver
  PROVE  Good(WireguardSections(ini, ns, ver))
  <1> DEFINE f == [i \in DOMAIN ns |->
                     Given(ns[i].type = "wireguard" /\ Modern(ver, 4), WireguardSection(ns[i]))]
  <1>1. ASSUME NEW n PROVE IsList(WireguardSection(n))
    <2> DEFINE a == <<"WireGuard " \o HostPort(n), Line("private-key", << <<"", n.secret>> >>)>>
               b == <<"WireGuard " \o HostPort(n), Line("peer", << <<"", n.user>> >>)>>
    <2>1. WireguardSection(n) = <<a, b>>
      BY DEF WireguardSection
    <2> HIDE DEF a, b
    <2>2. <<a, b>> \in Seq({a, b})
      OBVIOUS
    <2> QED
      BY <2>1, <2>2, ListOf
  <1>2. \A i \in DOMAIN ns : IsList(f[i])
    BY <1>1, GivenList
  <1>3. DOMAIN f = DOMAIN ns /\ f = [i \in DOMAIN f |-> f[i]]
    OBVIOUS
  <1>4. WireguardSections(ini, ns, ver) = SetPairs(ini, FlattenSeq(f))
    BY DEF WireguardSections
  <1> HIDE DEF f
  <1>5. IsList(FlattenSeq(f))
    BY <1>2, <1>3, FlatOver
  <1> QED
    BY <1>4, <1>5, SetPairsGood

LEMMA SurgeNodesList ==
  ASSUME NEW ns, IsList(ns), NEW ver
  PROVE  IsList(SurgeNodes(ns, ver))
  <1> DEFINE https == {i \in DOMAIN ns : ns[i].type = "https"}
             first == CHOOSE i \in https : \A j \in https : i <= j
  <1>1. SurgeNodes(ns, ver)
          = IF ver # Surfboard \/ https = {} THEN ns ELSE SubSeq(ns, 1, first - 1)
    BY DEF SurgeNodes
  <1>2. CASE ver # Surfboard \/ https = {}
    BY <1>1, <1>2
  <1>3. CASE ~(ver # Surfboard \/ https = {})
    <2>1. https \in SUBSET Nat /\ https # {}
      BY <1>3, ListLen
    <2> HIDE DEF https
    <2>2. \E i \in https : \A j \in https : i <= j
      BY <2>1, Least
    <2>3. first \in Nat
      BY <2>1, <2>2
    <2> HIDE DEF first
    <2> DEFINE X == {ns[i] : i \in 1 .. (first - 1)}
    <2>4. SubSeq(ns, 1, first - 1) \in Seq(X)
      BY <2>3, SubSeqProperties
    <2> QED
      BY <1>1, <1>3, <2>4, ListOf
  <1> QED
    BY <1>2, <1>3

LEMMA PlainLinesOf ==
  ASSUME NEW lines
  PROVE  Plain(lines).lines = lines
  BY DEF Plain

LEMMA ToSurgeList ==
  ASSUME NEW all, IsList(all), NEW ver, NEW r \in Exts
  PROVE  IsList(ProxyToSurge(all, ver, r).lines)
  <1> DEFINE ns == SurgeNodes(all, ver)
             texts == [i \in DOMAIN ns |-> SurgeItems(ns[i], ver, r)]
             lines == NamedLines(Names(ns, r), texts)
             base == Parse(BaseConf["surge"])
             proxy == EraseSection(SetCurrentSection(base, "Proxy"))
             direct == SetPair(proxy, "{NONAME}", Line("DIRECT", Pos(<<"direct">>)))
             groups == SurgeGroups(KeptNames(ns, texts, r))
             ini == PutSurgeGroups(SetLines(WireguardSections(direct, ns, ver), lines), groups)
  <1>1. IsList(lines) /\ IsList(ns)
    BY SurgeNodesList, NamesList, NamedList
  <1>2. IsList(groups)
    BY FilledList DEF SurgeGroups
  <1>3. Good(base)
    BY BaseAssumption, ParseGood
  <1>4. ProxyToSurge(all, ver, r)
          = IF r.nodelist THEN Plain(lines)
            ELSE IF ~base.parsed THEN Plain(<<>>)
            ELSE Whole(ini, groups, ver, all, r)
    BY DEF ProxyToSurge
  <1> HIDE DEF ns, lines, base, groups
  <1>5. Good(ini)
    BY <1>1, <1>2, <1>3, CurrentGood, EraseGood, SetPairGood, WireguardGood, SetLinesGood,
       PutSurgeGroupsGood
  <1> HIDE DEF ini
  <1> QED
    BY <1>1, <1>4, <1>5, WholeList, PlainLinesOf, EmptyList

LEMMA ToLoonList ==
  ASSUME NEW ns, IsList(ns), NEW r \in Exts
  PROVE  IsList(ProxyToLoon(ns, r).lines)
  <1> DEFINE texts == [i \in DOMAIN ns |-> LoonItems(ns[i], r)]
             plain == PlainLines(Names(ns, r), texts)
             lines == NamedLines(Names(ns, r), texts)
             base == Parse(BaseConf["loon"])
             groups == LoonGroups(KeptNames(ns, texts, r))
             ini == PutLoonGroups(SetLines(EraseSection(SetCurrentSection(base, "Proxy")), lines),
                                  groups)
  <1>1. IsList(plain) /\ IsList(lines) /\ IsList(groups)
    BY NamesList, NamedList, PlainList, LoonGroupsList
  <1>2. Good(base)
    BY BaseAssumption, ParseGood
  <1>3. ProxyToLoon(ns, r)
          = IF r.nodelist THEN Plain(plain)
            ELSE IF ~base.parsed THEN Plain(<<>>)
            ELSE Whole(ini, groups, -4, ns, r)
    BY DEF ProxyToLoon
  <1> HIDE DEF plain, lines, base, groups
  <1>4. Good(ini)
    BY <1>1, <1>2, CurrentGood, EraseGood, SetLinesGood, PutGroupsGood
  <1> HIDE DEF ini
  <1> QED
    BY <1>1, <1>3, <1>4, WholeList, PlainLinesOf, EmptyList

LEMMA ToQuanList ==
  ASSUME NEW ns, IsList(ns), NEW r \in Exts
  PROVE  IsList(ProxyToQuan(ns, r).lines)
  <1> DEFINE texts == [i \in DOMAIN ns |-> QuanItems(ns[i], r)]
             lines == NamedLines(Names(ns, r), texts)
             base == Parse(BaseConf["quan"])
             groups == QuanGroups(LineNames(lines))
             ini == PutQuanGroups(SetLines(EraseSection(SetCurrentSection(base, "SERVER")), lines),
                                  groups)
  <1>1. IsList(lines) /\ IsList(groups)
    BY NamesList, NamedList, QuanGroupsList
  <1>2. Good(base)
    BY BaseAssumption, ParseGood
  <1>3. ProxyToQuan(ns, r)
          = IF r.nodelist \/ ~base.parsed THEN Plain(<<>>) ELSE Whole(ini, groups, -2, ns, r)
    BY DEF ProxyToQuan
  <1> HIDE DEF lines, base, groups
  <1>4. Good(ini)
    BY <1>1, <1>2, CurrentGood, EraseGood, SetLinesGood, PutGroupsGood
  <1> HIDE DEF ini
  <1> QED
    BY <1>3, <1>4, WholeList, PlainLinesOf, EmptyList

LEMMA ToClashList ==
  ASSUME NEW ns, IsList(ns), NEW clash_r, NEW r \in Exts
  PROVE  IsList(ProxyToClash(ns, clash_r, r).lines)
  <1> DEFINE names == Names(ns, r)
             Noted(noted) == [i \in 0 .. Len(names) |->
                 IF i = 0 THEN <<>> ELSE Append(noted[i - 1], ProcessRemark(names[i], noted[i - 1]))]
             given == (CHOOSE noted : noted = Noted(noted))[Len(names)]
             f == [i \in DOMAIN ns |-> Given(~ShouldSkip(ns[i], clash_r, r),
                                             <<Line(given[i], ClashItems(ns[i], r))>>)]
  <1>1. ProxyToClash(ns, clash_r, r).lines = FlattenSeq(f)
    BY DEF ProxyToClash, Plain
  <1> HIDE DEF given
  <1>2. \A i \in DOMAIN ns : f[i] = <<>> \/ \E x : f[i] = <<x>>
    BY DEF Given
  <1>3. DOMAIN f = DOMAIN ns /\ f = [i \in DOMAIN f |-> f[i]]
    OBVIOUS
  <1> HIDE DEF f
  <1> QED
    BY <1>1, <1>2, <1>3, GivenFlat

LEMMA ToLinksList ==
  ASSUME NEW ns, IsList(ns), NEW types
  PROVE  IsList(ProxyToSingle(ns, types))
  <1> DEFINE f == [i \in DOMAIN ns |-> SingleLink(ns[i], types)]
  <1>1. ASSUME NEW n PROVE IsList(SingleLink(n, types))
    BY SingleList, EmptyList DEF SingleLink, Given
  <1>2. DOMAIN f = DOMAIN ns /\ f = [i \in DOMAIN f |-> f[i]]
    OBVIOUS
  <1>3. ProxyToSingle(ns, types) = FlattenSeq(f)
    BY DEF ProxyToSingle, Each
  <1>4. \A i \in DOMAIN ns : IsList(f[i])
    BY <1>1
  <1> HIDE DEF f
  <1> QED
    BY <1>2, <1>3, <1>4, FlatOver

LEMMA ToSsdList ==
  ASSUME NEW ns, IsList(ns)
  PROVE  IsList(ProxyToSsd(ns))
  <1> DEFINE f == [i \in DOMAIN ns |-> SsdEntry(ns[i])]
  <1>1. ASSUME NEW n PROVE SsdEntry(n) = <<>> \/ \E x : SsdEntry(n) = <<x>>
    BY DEF SsdEntry, Given
  <1>2. DOMAIN f = DOMAIN ns /\ f = [i \in DOMAIN f |-> f[i]]
    OBVIOUS
  <1>3. ProxyToSsd(ns) = FlattenSeq(f)
    BY DEF ProxyToSsd, Each
  <1>4. \A i \in DOMAIN ns : f[i] = <<>> \/ \E x : f[i] = <<x>>
    BY <1>1
  <1> HIDE DEF f
  <1> QED
    BY <1>2, <1>3, <1>4, GivenFlat

-----------------------------------------------------------------------------
(* The chain of requests.                                                  *)

\* What the next request reads is a list of nodes, and so is what it hands on.
IInv == TypeOK /\ AllOK(nodes)

Forms == Readable \cup {"quanx", "mellow", "sip008", "singbox"}

\* What a request answers: a content that is not read, or a list of lines.
Answers(c) == c.form \in Forms \ Readable \/ (c.form \in Readable /\ IsList(c.lines))

LEMMA AnswerRead ==
  ASSUME NEW c, Answers(c)
  PROVE  AllOK(ReadContent(c))
  <1>1. CASE c.form \in Readable
    BY <1>1, ReadOK DEF Answers, Forms
  <1>2. CASE c.form \notin Readable
    <2>1. ReadContent(c) = <<>>
      BY <1>2 DEF ReadContent, Readable
    <2> QED
      BY <2>1, NoneOK
  <1> QED
    BY <1>1, <1>2

LEMMA PublishKeeps ==
  ASSUME IInv, NEW c, Publish(c), Answers(c)
  PROVE  IInv'
  <1>1. content' = c /\ nodes' = ReadContent(content') /\ hops' = hops + 1 /\ ext' = ext /\ hops < MaxHops
    BY DEF Publish
  <1>2. AllOK(nodes')
    BY <1>1, AnswerRead
  <1>3. hops' \in 0 .. MaxHops /\ ext' \in Exts
    <2>1. hops \in 0 .. MaxHops /\ ext \in Exts /\ MaxHops \in Nat
      BY RequestAssumption DEF IInv, TypeOK
    <2>2. hops + 1 \in 0 .. MaxHops
      BY <1>1, <2>1
    <2> QED
      BY <1>1, <2>1, <2>2
  <1>4. content'.form \in Forms
    BY <1>1 DEF Answers, Forms
  <1>5. \A i \in DOMAIN nodes' : nodes'[i].type \in Types /\ nodes'[i].scv \in {"", "true", "false"}
                                 /\ IsU16(nodes'[i].port)
    BY <1>2 DEF AllOK, NodeOK, Flags
  <1> QED
    BY <1>2, <1>3, <1>4, <1>5 DEF IInv, TypeOK, AllOK, NodeOK, Forms

LEMMA PublishWholeKeeps ==
  ASSUME IInv, NEW form \in Forms, NEW out, PublishWhole(form, out),
         form \in Readable => IsList(out.lines)
  PROVE  IInv'
  <1> DEFINE c == [Content(form, out.lines) EXCEPT !.groups = out.groups, !.rules = out.rules]
  <1>1. c.form = form /\ c.lines = out.lines
    BY DEF Content
  <1>2. Publish(c)
    BY DEF PublishWhole
  <1> HIDE DEF c
  <1>3. Answers(c)
    BY <1>1 DEF Answers
  <1> QED
    BY <1>2, <1>3, PublishKeeps

LEMMA InitIInv == ASSUME Init PROVE IInv
  <1>1. content.form \in Readable /\ IsList(content.lines) /\ ext \in Exts /\ hops = 0
    BY RequestAssumption DEF Init
  <1>2. AllOK(nodes)
    BY <1>1, ReadOK DEF Init
  <1>3. hops \in 0 .. MaxHops
    <2>1. MaxHops \in Nat
      BY RequestAssumption
    <2> QED
      BY <1>1, <2>1
  <1> QED
    BY <1>1, <1>2, <1>3 DEF IInv, TypeOK, AllOK, NodeOK, Flags

LEMMA StepIInv == ASSUME IInv, [Next]_vars PROVE IInv'
  <1>1. IsList(nodes) /\ ext \in Exts
    BY DEF IInv, AllOK, TypeOK
  <1>2. ASSUME NEW clash_r \in BOOLEAN, ToClash(clash_r) PROVE IInv'
    BY <1>1, <1>2, ToClashList, PublishWholeKeeps DEF ToClash, Forms, Readable
  <1>3. ASSUME NEW ver \in {2, 3, 4, Surfboard}, ToSurge(ver) PROVE IInv'
    BY <1>1, <1>3, ToSurgeList, PublishWholeKeeps DEF ToSurge, Forms, Readable
  <1>4. CASE ToLoon
    BY <1>1, <1>4, ToLoonList, PublishWholeKeeps DEF ToLoon, Forms, Readable
  <1>5. CASE ToQuan
    BY <1>1, <1>5, ToQuanList, PublishWholeKeeps DEF ToQuan, Forms, Readable
  <1>6. CASE ToQuanX
    BY <1>6, PublishWholeKeeps DEF ToQuanX, Forms, Readable
  <1>7. CASE ToMellow
    BY <1>7, PublishWholeKeeps DEF ToMellow, Forms, Readable
  <1>8. ASSUME NEW types \in LinkTargets, ToLinks(types) PROVE IInv'
    <2>1. Answers(Content("links", ProxyToSingle(nodes, types)))
      BY <1>1, ToLinksList DEF Answers, Content, Readable
    <2> QED
      BY <1>8, <2>1, PublishKeeps DEF ToLinks
  <1>9. CASE ToSsd
    <2> DEFINE c == [Content("ssd", ProxyToSsd(nodes)) EXCEPT !.top = SsdTop]
    <2>1. c.form = "ssd" /\ c.lines = ProxyToSsd(nodes)
      BY DEF Content
    <2>2. Publish(c)
      BY <1>9 DEF ToSsd
    <2> HIDE DEF c
    <2>3. Answers(c)
      BY <1>1, <2>1, ToSsdList DEF Answers, Readable
    <2> QED
      BY <2>2, <2>3, PublishKeeps
  <1>10. CASE ToSsSub
    <2>1. Answers(Content("sip008", ProxyToSsSub(nodes)))
      BY DEF Answers, Content, Forms, Readable
    <2> QED
      BY <1>10, <2>1, PublishKeeps DEF ToSsSub
  <1>11. CASE ToSingBox
    BY <1>11, PublishWholeKeeps DEF ToSingBox, Forms, Readable
  <1>12. CASE UNCHANGED vars
    BY <1>12 DEF vars, IInv, TypeOK, AllOK, NodeOK
  <1> QED
    BY <1>2, <1>3, <1>4, <1>5, <1>6, <1>7, <1>8, <1>9, <1>10, <1>11, <1>12 DEF Next

\* A subscription that is converted over and over, from any source and into any
\* targets, is always read as nodes of a known type, with a flag that is a flag and
\* a port of 16 bits: ReadContent() and the generators agree on the forms they share.
THEOREM RepublishTypeCorrect == Spec => []TypeOK
  <1>1. Init => IInv
    BY InitIInv
  <1>2. IInv /\ [Next]_vars => IInv'
    BY StepIInv
  <1>3. IInv => TypeOK
    BY DEF IInv
  <1> QED
    BY <1>1, <1>2, <1>3, PTL DEF Spec

-----------------------------------------------------------------------------
(* What is written and read element by element.                            *)

LEMMA FlatAppend ==
  ASSUME NEW s, IsList(s), \A i \in DOMAIN s : IsList(s[i]), NEW t, IsList(t)
  PROVE  FlattenSeq(Append(s, t)) = FlattenSeq(s) \o t
  <1> DEFINE n == Len(s)
             a == Append(s, t)
  <1>1. n \in Nat /\ DOMAIN s = 1 .. n
    BY ListLen
  <1>2. IsList(a) /\ Len(a) = n + 1
    BY ListAppend
  <1>3. DOMAIN a = 1 .. n + 1 /\ a[n + 1] = t /\ \A i \in 1 .. n : a[i] = s[i]
    <2> DEFINE X == ToSet(s) \cup {t}
    <2>1. s \in Seq(X) /\ t \in X
      BY DEF IsList
    <2> HIDE DEF X
    <2> QED
      BY <2>1, <1>1, AppendProperties
  <1> HIDE DEF a
  <1>4. \A i \in DOMAIN a : IsList(a[i])
    <2>1. \A i \in 1 .. n + 1 : i \in 1 .. n \/ i = n + 1
      BY <1>1
    <2> QED
      BY <1>1, <1>3, <2>1
  <1>5. PICK f : /\ f[0] = <<>> /\ f[n + 1] = FlattenSeq(a)
                 /\ \A i \in 1 .. n + 1 : f[i] = f[i - 1] \o a[i]
    BY <1>2, <1>4, FlatChain
  <1>6. PICK g : /\ g[0] = <<>> /\ g[n] = FlattenSeq(s)
                 /\ \A i \in 1 .. n : g[i] = g[i - 1] \o s[i]
    BY FlatChain
  <1> DEFINE S == {k \in 0 .. n : f[k] = g[k]}
  <1>7. 0 \in S
    BY <1>1, <1>5, <1>6
  <1>8. ASSUME NEW k \in 0 .. n, k \in S, k < n PROVE k + 1 \in S
    <2>1. k + 1 \in 1 .. n /\ k + 1 \in 1 .. n + 1 /\ (k + 1) - 1 = k
      BY <1>1, <1>8
    <2>2. f[k + 1] = f[k] \o a[k + 1] /\ g[k + 1] = g[k] \o s[k + 1] /\ a[k + 1] = s[k + 1]
      BY <1>3, <1>5, <1>6, <2>1
    <2>3. f[k] = g[k] /\ k + 1 \in 0 .. n
      BY <1>1, <1>8
    <2> QED
      BY <2>2, <2>3
  <1>9. f[n] = g[n]
    <2>1. 0 .. n \subseteq S
      <3> HIDE DEF S
      <3> QED
        BY <1>1, <1>7, <1>8, Climb
    <2> QED
      BY <1>1, <2>1
  <1>10. f[n + 1] = f[n] \o a[n + 1]
    <2>1. n + 1 \in 1 .. n + 1 /\ (n + 1) - 1 = n
      BY <1>1
    <2> QED
      BY <1>5, <2>1
  <1> QED
    BY <1>3, <1>5, <1>6, <1>9, <1>10 DEF a

LEMMA FlatNone == FlattenSeq(<<>>) = <<>>
  <1>1. Len(<<>>) = 0
    OBVIOUS
  <1> QED
    BY <1>1, FlatByStep

\* Each part is empty or has one element, and what is read of it is read of the whole.
LEMMA FlatRead ==
  ASSUME NEW a, IsList(a), NEW b, IsList(b), Len(a) = Len(b), NEW E,
         \A x \in DOMAIN E : IsList(E[x]),
         \A i \in DOMAIN a : \/ a[i] = <<>> /\ b[i] = <<>>
                             \/ \E x \in DOMAIN E : a[i] = <<x>> /\ b[i] = E[x]
  PROVE  LET whole == FlattenSeq(a) IN
         FlattenSeq([k \in DOMAIN whole |-> E[whole[k]]]) = FlattenSeq(b)
  <1> DEFINE n == Len(a)
             Read(s) == [k \in DOMAIN s |-> E[s[k]]]
  <1>1. n \in Nat /\ DOMAIN a = 1 .. n /\ DOMAIN b = 1 .. n
    BY ListLen
  <1>2. ASSUME NEW i \in 1 .. n PROVE IsList(a[i]) /\ IsList(b[i])
    <2>1. CASE a[i] = <<>> /\ b[i] = <<>>
      BY <2>1, EmptyList
    <2>2. ASSUME NEW x \in DOMAIN E, a[i] = <<x>>, b[i] = E[x]
          PROVE  IsList(a[i]) /\ IsList(b[i])
      BY <2>2, SingleList
    <2> QED
      BY <1>1, <2>1, <2>2
  <1>3. PICK f : /\ f[0] = <<>> /\ f[n] = FlattenSeq(a)
                 /\ \A i \in 0 .. n : IsList(f[i])
                 /\ \A i \in 1 .. n : f[i] = f[i - 1] \o a[i]
    BY <1>1, <1>2, FlatChain
  <1>4. PICK g : /\ g[0] = <<>> /\ g[n] = FlattenSeq(b)
                 /\ \A i \in 0 .. n : IsList(g[i])
                 /\ \A i \in 1 .. n : g[i] = g[i - 1] \o b[i]
    <2>1. \A i \in DOMAIN b : IsList(b[i])
      BY <1>1, <1>2
    <2>2. \E g : /\ g[0] = <<>> /\ g[Len(b)] = FlattenSeq(b)
                 /\ \A i \in 0 .. Len(b) : IsList(g[i])
                 /\ \A i \in 1 .. Len(b) : g[i] = g[i - 1] \o b[i]
      BY <2>1, FlatChain
    <2>3. Len(b) = n
      OBVIOUS
    <2> HIDE DEF n
    <2> QED
      BY <2>2, <2>3
  <1> DEFINE S == {k \in 0 .. n : ToSet(f[k]) \subseteq DOMAIN E /\ FlattenSeq(Read(f[k])) = g[k]}
  <1>5. 0 \in S
    <2>1. ToSet(<<>>) = {} /\ Read(<<>>) = <<>>
      BY DEF ToSet
    <2> HIDE DEF Read
    <2> QED
      BY <1>1, <1>3, <1>4, <2>1, FlatNone
  <1>6. ASSUME NEW k \in 0 .. n, k \in S, k < n PROVE k + 1 \in S
    <2>1. k + 1 \in 1 .. n /\ (k + 1) - 1 = k
      BY <1>1, <1>6
    <2>2. /\ f[k + 1] = f[k] \o a[k + 1] /\ g[k + 1] = g[k] \o b[k + 1]
          /\ IsList(f[k]) /\ IsList(g[k])
      BY <1>3, <1>4, <2>1
    <2>3. CASE a[k + 1] = <<>> /\ b[k + 1] = <<>>
      <3>1. f[k + 1] = f[k] /\ g[k + 1] = g[k]
        BY <2>2, <2>3, ConcatEmptySeq DEF IsList
      <3> QED
        BY <1>6, <2>1, <3>1
    <2>4. ASSUME NEW x \in DOMAIN E, a[k + 1] = <<x>>, b[k + 1] = E[x] PROVE k + 1 \in S
      <3> DEFINE p == f[k]
                 m == Len(p)
      <3>1. IsList(p) /\ ToSet(p) \subseteq DOMAIN E /\ FlattenSeq(Read(p)) = g[k]
        BY <1>6, <2>2
      <3> HIDE DEF p
      <3>2. m \in Nat /\ DOMAIN p = 1 .. m /\ \A i \in 1 .. m : p[i] \in ToSet(p)
        BY <3>1, ListLen
      <3>3. p \o <<x>> = Append(p, x) /\ ToSet(Append(p, x)) = ToSet(p) \cup {x}
        <4>1. p \o <<x>> = Append(p, x)
          BY <3>1 DEF IsList
        <4>2. ToSet(p \o <<x>>) = ToSet(p) \cup {x}
          BY <3>1, SingleList, ConcatSet
        <4> QED
          BY <4>1, <4>2
      <3>4. Read(Append(p, x)) = Append(Read(p), E[x])
        <4> DEFINE X == ToSet(p) \cup {x}
                   Y == {E[y] : y \in X}
        <4>1. p \in Seq(X) /\ x \in X
          BY <3>1 DEF IsList
        <4>2. Read(p) \in Seq(Y) /\ Len(Read(p)) = m /\ E[x] \in Y
          BY <3>2
        <4>3. /\ DOMAIN Append(p, x) = 1 .. m + 1 /\ Append(p, x)[m + 1] = x
              /\ \A i \in 1 .. m : Append(p, x)[i] = p[i]
          <5> HIDE DEF X
          <5> QED
            BY <4>1, <3>2, AppendProperties
        <4>4. /\ DOMAIN Append(Read(p), E[x]) = 1 .. m + 1 /\ Append(Read(p), E[x])[m + 1] = E[x]
              /\ \A i \in 1 .. m : Append(Read(p), E[x])[i] = Read(p)[i]
              /\ Append(Read(p), E[x]) \in Seq(Y)
          <5> HIDE DEF Y, Read
          <5> QED
            BY <4>2, <3>2, AppendProperties
        <4>5. \A i \in 1 .. m : Read(p)[i] = E[p[i]]
          BY <3>2
        <4>6. \A i \in 1 .. m + 1 : E[Append(p, x)[i]] = Append(Read(p), E[x])[i]
          <5>1. \A i \in 1 .. m + 1 : i \in 1 .. m \/ i = m + 1
            BY <3>2
          <5> HIDE DEF Read
          <5> QED
            BY <4>3, <4>4, <4>5, <5>1
        <4> DEFINE z == Append(Read(p), E[x])
                   w == Append(p, x)
        <4>7. z = [i \in 1 .. m + 1 |-> z[i]]
          <5> HIDE DEF z, Y
          <5>1. z \in Seq(Y) /\ DOMAIN z = 1 .. m + 1
            BY <4>4 DEF z
          <5> QED
            BY <5>1
        <4>8. Read(w) = [i \in 1 .. m + 1 |-> E[w[i]]]
          BY <4>3
        <4> HIDE DEF z, w
        <4>9. \A i \in 1 .. m + 1 : E[w[i]] = z[i]
          BY <4>6 DEF z, w
        <4>10. Read(w) = z
          BY <4>7, <4>8, <4>9
        <4> QED
          BY <4>10 DEF z, w
      <3>5. IsList(Read(p)) /\ \A i \in DOMAIN Read(p) : IsList(Read(p)[i])
        <4>1. DOMAIN Read(p) = 1 .. m /\ Read(p) = [i \in DOMAIN Read(p) |-> Read(p)[i]]
          BY <3>2
        <4>2. \A i \in 1 .. m : Read(p)[i] = E[p[i]] /\ p[i] \in DOMAIN E
          BY <3>1, <3>2
        <4> HIDE DEF Read
        <4> QED
          BY <3>2, <4>1, <4>2, ListFun
      <3> HIDE DEF Read
      <3>6. FlattenSeq(Append(Read(p), E[x])) = FlattenSeq(Read(p)) \o E[x]
        BY <3>5, FlatAppend
      <3>7. f[k + 1] = Append(p, x) /\ g[k + 1] = g[k] \o E[x]
        BY <2>2, <2>4, <3>3 DEF p
      <3>8. ToSet(f[k + 1]) \subseteq DOMAIN E
        BY <3>1, <3>3, <3>7
      <3>9. FlattenSeq(Read(f[k + 1])) = g[k + 1]
        BY <3>1, <3>4, <3>6, <3>7
      <3> QED
        BY <2>1, <3>8, <3>9
    <2> QED
      BY <1>1, <2>1, <2>3, <2>4
  <1>7. n \in S
    <2>1. 0 .. n \subseteq S
      <3> HIDE DEF S
      <3> QED
        BY <1>1, <1>5, <1>6, Climb
    <2> QED
      BY <1>1, <2>1
  <1> QED
    BY <1>3, <1>4, <1>7

\* Two lists of parts whose parts are empty together, or have one element each that is
\* related to the other's: the wholes are related element by element.
LEMMA FlatPaired ==
  ASSUME NEW a, IsList(a), NEW b, IsList(b), Len(a) = Len(b), NEW R,
         \A i \in DOMAIN a : \/ a[i] = <<>> /\ b[i] = <<>>
                             \/ \E x, y : a[i] = <<x>> /\ b[i] = <<y>> /\ <<x, y>> \in R
  PROVE  /\ Len(FlattenSeq(a)) = Len(FlattenSeq(b))
         /\ \A k \in DOMAIN FlattenSeq(b) : <<FlattenSeq(a)[k], FlattenSeq(b)[k]>> \in R
  <1> DEFINE n == Len(a)
  <1>1. n \in Nat /\ DOMAIN a = 1 .. n /\ DOMAIN b = 1 .. n /\ Len(b) = n
    BY ListLen
  <1>2. ASSUME NEW i \in 1 .. n PROVE IsList(a[i]) /\ IsList(b[i])
    <2>1. CASE a[i] = <<>> /\ b[i] = <<>>
      BY <2>1, EmptyList
    <2>2. ASSUME NEW x, NEW y, a[i] = <<x>>, b[i] = <<y>> PROVE IsList(a[i]) /\ IsList(b[i])
      BY <2>2, SingleList
    <2> QED
      BY <1>1, <2>1, <2>2
  <1>3. PICK f : /\ f[0] = <<>> /\ f[n] = FlattenSeq(a)
                 /\ \A i \in 0 .. n : IsList(f[i])
                 /\ \A i \in 1 .. n : f[i] = f[i - 1] \o a[i]
    BY <1>1, <1>2, FlatChain
  <1>4. PICK g : /\ g[0] = <<>> /\ g[n] = FlattenSeq(b)
                 /\ \A i \in 0 .. n : IsList(g[i])
                 /\ \A i \in 1 .. n : g[i] = g[i - 1] \o b[i]
    <2>1. \A i \in DOMAIN b : IsList(b[i])
      BY <1>1, <1>2
    <2>2. \E g : /\ g[0] = <<>> /\ g[Len(b)] = FlattenSeq(b)
                 /\ \A i \in 0 .. Len(b) : IsList(g[i])
                 /\ \A i \in 1 .. Len(b) : g[i] = g[i - 1] \o b[i]
      BY <2>1, FlatChain
    <2> HIDE DEF n
    <2> QED
      BY <1>1, <2>2
  <1> DEFINE S == {k \in 0 .. n : /\ Len(f[k]) = Len(g[k])
                                  /\ \A i \in 1 .. Len(g[k]) : <<f[k][i], g[k][i]>> \in R}
  <1>5. 0 \in S
    BY <1>1, <1>3, <1>4
  <1>6. ASSUME NEW k \in 0 .. n, k \in S, k < n PROVE k + 1 \in S
    <2> DEFINE p == f[k]
               q == g[k]
               m == Len(q)
    <2>1. k + 1 \in 0 .. n /\ k + 1 \in 1 .. n /\ (k + 1) - 1 = k
      BY <1>1, <1>6
    <2>2. f[k + 1] = p \o a[k + 1] /\ g[k + 1] = q \o b[k + 1] /\ IsList(p) /\ IsList(q)
      BY <1>3, <1>4, <2>1
    <2>3. Len(p) = m /\ \A i \in 1 .. m : <<p[i], q[i]>> \in R
      BY <1>6
    <2> HIDE DEF p, q
    <2>4. m \in Nat
      BY <2>2, ListLen
    <2>5. CASE a[k + 1] = <<>> /\ b[k + 1] = <<>>
      <3>1. f[k + 1] = p /\ g[k + 1] = q
        BY <2>2, <2>5, ConcatEmptySeq DEF IsList
      <3> QED
        BY <2>1, <2>3, <3>1
    <2>6. ASSUME NEW x, NEW y, a[k + 1] = <<x>>, b[k + 1] = <<y>>, <<x, y>> \in R
          PROVE  k + 1 \in S
      <3> DEFINE u == p \o <<x>>
                 v == q \o <<y>>
      <3>1. /\ Len(u) = m + 1 /\ Len(v) = m + 1
            /\ \A i \in 1 .. m : u[i] = p[i] /\ v[i] = q[i]
            /\ u[m + 1] = x /\ v[m + 1] = y
        <4>1. /\ Len(<<x>>) = 1 /\ Len(<<y>>) = 1 /\ <<x>>[1] = x /\ <<y>>[1] = y
              /\ IsList(<<x>>) /\ IsList(<<y>>) /\ 1 \in 1 .. 1
          BY SingleList
        <4>2. /\ Len(u) = Len(p) + 1 /\ \A i \in 1 .. Len(p) : u[i] = p[i]
              /\ u[Len(p) + 1] = <<x>>[1]
          BY <2>2, <4>1, ListConcat
        <4>3. /\ Len(v) = Len(q) + 1 /\ \A i \in 1 .. Len(q) : v[i] = q[i]
              /\ v[Len(q) + 1] = <<y>>[1]
          BY <2>2, <4>1, ListConcat
        <4> HIDE DEF u, v
        <4> QED
          BY <2>3, <4>1, <4>2, <4>3
      <3>2. f[k + 1] = u /\ g[k + 1] = v
        BY <2>2, <2>6
      <3> HIDE DEF u, v
      <3>3. \A i \in 1 .. m + 1 : i \in 1 .. m \/ i = m + 1
        BY <2>4
      <3>4. \A i \in 1 .. m + 1 : <<u[i], v[i]>> \in R
        BY <2>3, <2>6, <3>1, <3>3
      <3> QED
        BY <2>1, <3>1, <3>2, <3>4
    <2> QED
      BY <1>1, <2>1, <2>5, <2>6
  <1>7. n \in S
    <2>1. 0 .. n \subseteq S
      <3> HIDE DEF S
      <3> QED
        BY <1>1, <1>5, <1>6, Climb
    <2> QED
      BY <1>1, <2>1
  <1>8. DOMAIN g[n] = 1 .. Len(g[n])
    BY <1>1, <1>4, ListLen
  <1> QED
    BY <1>3, <1>4, <1>7, <1>8

-----------------------------------------------------------------------------
(* Links, written and read.                                                *)

\* What the parser makes of the link of a node: of one that is whole, and of any.
LinkTold(l, n, carried) ==
    IF carried THEN \E m : Explode(l) = <<m>> /\ ToldByLink(m, n) ELSE Explode(l) = <<>>
ToldIfCarried(m, n, types) == Carried(n, types) => ToldByLink(m, n)
LinkRead(l, n, types) ==
    IF Carried(n, types) \/ Misread(n, types)
    THEN \E m : Explode(l) = <<m>> /\ ToldIfCarried(m, n, types) ELSE Explode(l) = <<>>

LEMMA PortKnown ==
  ASSUME NEW p, IsU16(p)
  PROVE  (p \in Ports <=> p # "0") /\ p # "" /\ U16(p) = p
  BY TextAssumption DEF IsU16, U16

LEMMA SsTold ==
  ASSUME NEW n, NodeOK(n), n.type \in {"ss", "ssr"}, ~Breaks(n)
  PROVE  LinkTold(SsLink(n), n, n.port # "0")
  <1> DEFINE l == SsLink(n)
             name == Default(n.name, n.server, n.port)
             plugin == Q(l, "plugin")
             m == SsConstruct(name, n.server, n.port, n.secret, n.cipher, plugin, "")
  <1>1. /\ l.scheme = "ss" /\ l.shape = "pair" /\ l.user = n.cipher /\ l.pass = n.secret
        /\ l.host = n.server /\ l.port = n.port /\ l.frag = n.name
    BY DEF SsLink, Link
  <1> HIDE DEF l
  <1>2. FirstPart(l) = n.server /\ SecondPart(l) = n.port
    <2>1. ~Has(n.server, {":"})
      BY DEF Breaks, IsIpv6
    <2> QED
      BY <1>1, <2>1 DEF FirstPart, SecondPart, Before
  <1>3. Explode(l) = Given(n.port \in Ports, <<m>>)
    BY <1>1, <1>2 DEF Explode, ExplodeSs, One
  <1> HIDE DEF plugin, name
  <1>4. /\ m.type = "ss" /\ m.server = n.server /\ m.port = n.port /\ m.name = name
        /\ m.user = "" /\ m.tls = FALSE /\ m.scv = ""
    BY DEF SsConstruct, CommonConstruct
  <1>5. m.secret = n.secret /\ m.cipher = n.cipher
    BY DEF SsConstruct, CommonConstruct
  <1> HIDE DEF m
  <1>6. ToldByLink(m, n)
    BY <1>4, <1>5 DEF ToldByLink, name
  <1>7. n.port \in Ports <=> n.port # "0"
    BY PortKnown DEF NodeOK
  <1> QED
    BY <1>3, <1>6, <1>7 DEF LinkTold, Given, l

LEMMA VmessTold ==
  ASSUME NEW n, NodeOK(n), n.type = "vmess"
  PROVE  LinkTold(VmessLinkConstruct(n), n, TRUE)
  <1> DEFINE l == VmessLinkConstruct(n)
             tls == IF n.tls THEN "tls" ELSE ""
             m == VmessConstruct(n.name, n.server, n.port, n.user, n.net, "auto", n.host, tls,
                                 "", "")
  <1>1. l.scheme = "vmess" /\ l.shape = "json"
    BY DEF VmessLinkConstruct, Link
  <1>2. /\ DOMAIN l.q = {"ps", "add", "port", "id", "net", "host", "tls"}
        /\ l.q["ps"] = n.name /\ l.q["add"] = n.server /\ l.q["port"] = n.port
        /\ l.q["id"] = n.user /\ l.q["net"] = n.net /\ l.q["host"] = n.host /\ l.q["tls"] = tls
    BY DEF VmessLinkConstruct, Link
  <1> HIDE DEF l, tls
  <1>3. /\ Q(l, "ps") = n.name /\ Q(l, "add") = n.server /\ Q(l, "port") = n.port
        /\ Q(l, "id") = n.user /\ Q(l, "net") = n.net /\ Q(l, "host") = n.host
        /\ Q(l, "tls") = tls /\ Q(l, "sni") = ""
    BY <1>2 DEF Q
  <1>4. U16(n.port) = n.port
    BY PortKnown DEF NodeOK
  <1>5. ExplodeVmess(l) = <<m>>
    BY <1>1, <1>3, <1>4 DEF ExplodeVmess, Given, One
  <1>6. ExplodeStdVmessNew(l) = <<>>
    BY <1>1 DEF ExplodeStdVmessNew, UrlParses, Given
  <1> HIDE DEF m
  <1>7. Explode(l) = <<m>>
    <2> DEFINE rest == <<ExplodeStdVmess(l), ExplodeShadowrocket(l), ExplodeKitsunebi(l)>>
               all  == <<ExplodeStdVmessNew(l), ExplodeVmess(l), ExplodeStdVmess(l),
                         ExplodeShadowrocket(l), ExplodeKitsunebi(l)>>
    <2>1. Explode(l) = FirstOf(all)
      BY <1>1 DEF Explode
    <2>2. all[1] = <<>> /\ all[2] = <<m>> /\ DOMAIN all = 1 .. 5
      BY <1>5, <1>6
    <2> HIDE DEF all
    <2>3. <<m>> # <<>>
      OBVIOUS
    <2> DEFINE first(i) == all[i] # <<>> /\ \A j \in 1 .. (i - 1) : all[j] = <<>>
    <2>4. \A i \in DOMAIN all : first(i) <=> i = 2
      BY <2>2, <2>3
    <2> HIDE DEF first
    <2>5. (CHOOSE i \in DOMAIN all : first(i)) = 2
      BY <2>2, <2>4
    <2>6. \E i \in DOMAIN all : all[i] # <<>>
      BY <2>2, <2>3
    <2> QED
      BY <2>1, <2>2, <2>5, <2>6 DEF FirstOf, first
  <1>8. /\ m.type = "vmess" /\ m.server = n.server /\ m.port = n.port /\ m.name = n.name
        /\ m.user = Or(n.user, NilUuid)
    BY DEF m, VmessConstruct, CommonConstruct
  <1>9. m.secret = "" /\ m.scv = "" /\ (m.tls <=> tls = "tls")
    BY DEF m, VmessConstruct, CommonConstruct
  <1>10. tls = "tls" <=> n.tls
    BY DEF tls
  <1>11. ToldByLink(m, n)
    BY <1>8, <1>9, <1>10 DEF ToldByLink
  <1> QED
    BY <1>7, <1>11 DEF LinkTold, l

LEMMA TrojanTold ==
  ASSUME NEW n, NodeOK(n), n.type = "trojan", ~Breaks(n)
  PROVE  LinkTold(TrojanLink(n), n, n.port # "0" /\ n.server # "" /\ n.secret # "")
  <1> DEFINE l == TrojanLink(n)
             name == Default(n.name, n.server, n.port)
             allow == IF n.scv = "true" THEN "1" ELSE "0"
             sni == IF HasQ(l, "sni") THEN Q(l, "sni") ELSE Q(l, "peer")
             net == IF Q(l, "ws") = "1" \/ Q(l, "type") = "ws" THEN "ws" ELSE ""
             m == TrojanConstruct(name, n.server, n.port, Encoded(n.secret), net, sni, sni, TRUE,
                                  Flag(allow))
             carried == n.port # "0" /\ n.server # "" /\ n.secret # ""
  <1>1. /\ l.scheme = "trojan" /\ l.shape = "url" /\ l.user = n.secret
        /\ l.host = n.server /\ l.port = n.port /\ l.frag = n.name
    BY DEF TrojanLink, Link
  <1>2. Q(l, "allowInsecure") = allow
    <2>1. "allowInsecure" \in DOMAIN l.q /\ l.q["allowInsecure"] = allow
      BY DEF TrojanLink, Link
    <2> HIDE DEF l, allow
    <2> QED
      BY <2>1 DEF Q
  <1>3. IsU16(n.port) /\ n.port # ""
    BY PortKnown DEF NodeOK
  <1> HIDE DEF l, allow
  <1>4. Explode(l) = Given(carried, <<m>>)
    <2>1. HostParses(n.server) /\ ~Has(n.secret, {":", "/", "?", "#"})
      BY DEF Breaks
    <2>2. UrlParses(l) /\ Or(l.port, "443") = n.port
      BY <1>1, <1>3, <2>1 DEF UrlParses, Or
    <2>3. ~Has(n.secret, Ends) /\ ~Has(n.secret, {":"})
      BY <2>1 DEF Has, Ends
    <2>4. Seen(l) = l
      BY <1>1, <2>3 DEF Seen
    <2>5. User(l) = n.secret /\ Username(l) = Encoded(n.secret)
      BY <1>1, <2>3 DEF User, Username, Before
    <2>6. Explode(l) = ExplodeTrojanUrl(l)
      BY <1>1, <2>4 DEF Explode, ExplodeTrojan
    <2> DEFINE asks == UrlParses(l) /\ User(l) # "" /\ l.host # "" /\ n.port # "0"
    <2>7. ExplodeTrojanUrl(l) = Given(asks, <<m>>)
      BY <1>1, <1>2, <2>2, <2>5 DEF ExplodeTrojanUrl, One
    <2>8. asks <=> carried
      BY <1>1, <2>2, <2>5
    <2> HIDE DEF asks, carried, m
    <2> QED
      BY <2>6, <2>7, <2>8 DEF Given
  <1> HIDE DEF name, net, sni
  <1>5. /\ m.type = "trojan" /\ m.server = n.server /\ m.port = n.port /\ m.name = name
        /\ m.user = ""
    BY DEF TrojanConstruct, CommonConstruct
  <1>6. m.secret = Encoded(n.secret) /\ m.tls = TRUE /\ m.scv = Flag(allow)
    BY DEF TrojanConstruct, CommonConstruct
  <1> HIDE DEF m
  <1>7. Flag(allow) = "true" <=> n.scv = "true"
    BY DEF Flag, allow
  <1>8. ToldByLink(m, n)
    BY <1>5, <1>6, <1>7 DEF ToldByLink, name
  <1> QED
    BY <1>4, <1>8 DEF LinkTold, Given, l

\* What is written for a node whose link is whole: one link, which is read if the node can
\* be carried, or none.
LEMMA WholeTold ==
  ASSUME NEW n, NodeOK(n), NEW types \in LinkTargets, ~Breaks(n)
  PROVE  \/ SingleLink(n, types) = <<>> /\ ~Carried(n, types)
         \/ \E l : SingleLink(n, types) = <<l>> /\ LinkTold(l, n, Carried(n, types))
  <1>1. "SSR" \in types => "SS" \in types
    BY DEF LinkTargets
  <1>2. CASE n.type = "ss"
    <2>1. CASE "SS" \in types
      <3>1. SingleLink(n, types) = <<SsLink(n)>>
        BY <1>2, <2>1 DEF SingleLink
      <3>2. Carried(n, types) <=> n.port # "0"
        BY <1>2, <2>1 DEF Carried
      <3> QED
        BY <1>2, <3>1, <3>2, SsTold DEF LinkTold
    <2>2. CASE "SS" \notin types
      <3>1. SingleLink(n, types) = <<>> /\ ~Carried(n, types)
        BY <1>1, <1>2, <2>2 DEF SingleLink, Carried
      <3> QED
        BY <3>1
    <2> QED
      BY <2>1, <2>2
  <1>3. CASE n.type = "ssr"
    <2>1. CASE "SSR" \in types
      <3>1. SingleLink(n, types) = <<SsrLink(n)>>
        BY <1>3, <2>1 DEF SingleLink
      <3>2. ~Carried(n, types)
        BY <1>3, <2>1 DEF Carried
      <3>3. Explode(SsrLink(n)) = <<>>
        <4> DEFINE l == SsrLink(n)
        <4>1. l.scheme = "ssr"
          BY DEF SsrLink, Link
        <4> HIDE DEF l
        <4>2. Explode(l) = <<>>
          BY <4>1 DEF Explode
        <4> QED
          BY <4>2 DEF l
      <3> QED
        BY <3>1, <3>2, <3>3 DEF LinkTold
    <2>2. CASE "SSR" \notin types /\ "SS" \in types /\ PlainSsr(n, SsCiphers)
      <3>1. SingleLink(n, types) = <<SsLink(n)>>
        BY <1>3, <2>2 DEF SingleLink, Given
      <3>2. Carried(n, types) <=> n.port # "0"
        BY <1>3, <2>2 DEF Carried
      <3> QED
        BY <1>3, <3>1, <3>2, SsTold DEF LinkTold
    <2>3. CASE "SSR" \notin types /\ ~("SS" \in types /\ PlainSsr(n, SsCiphers))
      <3>1. SingleLink(n, types) = <<>> /\ ~Carried(n, types)
        BY <1>3, <2>3 DEF SingleLink, Carried, Given
      <3> QED
        BY <3>1
    <2> QED
      BY <2>1, <2>2, <2>3
  <1>4. CASE n.type = "vmess"
    <2>1. CASE "VMESS" \in types
      <3>1. SingleLink(n, types) = <<VmessLinkConstruct(n)>> /\ Carried(n, types)
        BY <1>4, <2>1 DEF SingleLink, Carried
      <3> QED
        BY <1>4, <3>1, VmessTold DEF LinkTold
    <2>2. CASE "VMESS" \notin types
      <3>1. SingleLink(n, types) = <<>> /\ ~Carried(n, types)
        BY <1>4, <2>2 DEF SingleLink, Carried
      <3> QED
        BY <3>1
    <2> QED
      BY <2>1, <2>2
  <1>5. CASE n.type = "trojan"
    <2>1. CASE "TROJAN" \in types
      <3>1. SingleLink(n, types) = <<TrojanLink(n)>>
        BY <1>5, <2>1 DEF SingleLink
      <3>2. Carried(n, types) <=> n.port # "0" /\ n.server # "" /\ n.secret # ""
        BY <1>5, <2>1 DEF Carried
      <3> QED
        BY <1>5, <3>1, <3>2, TrojanTold DEF LinkTold
    <2>2. CASE "TROJAN" \notin types
      <3>1. SingleLink(n, types) = <<>> /\ ~Carried(n, types)
        BY <1>5, <2>2 DEF SingleLink, Carried
      <3> QED
        BY <3>1
    <2> QED
      BY <2>1, <2>2
  <1>6. CASE n.type \notin {"ss", "ssr", "vmess", "trojan"}
    <2>1. SingleLink(n, types) = <<>> /\ ~Carried(n, types)
      BY <1>6 DEF SingleLink, Carried
    <2> QED
      BY <2>1
  <1> QED
    BY <1>2, <1>3, <1>4, <1>5, <1>6

\* What is written for any node: one link, which is read if it is carried or misread, or none.
LEMMA NodeTold ==
  ASSUME NEW n, NodeOK(n), NEW types \in LinkTargets
  PROVE  \/ SingleLink(n, types) = <<>> /\ ~Carried(n, types) /\ ~Misread(n, types)
         \/ \E l : SingleLink(n, types) = <<l>> /\ LinkRead(l, n, types)
  <1>1. CASE ~Breaks(n)
    <2>1. ~Misread(n, types)
      BY <1>1 DEF Misread
    <2>2. ASSUME NEW l, LinkTold(l, n, Carried(n, types)) PROVE LinkRead(l, n, types)
      BY <2>1, <2>2 DEF LinkTold, LinkRead, ToldIfCarried
    <2> QED
      BY <1>1, <2>1, <2>2, WholeTold
  <1>2. CASE Breaks(n)
    <2>1. ~Carried(n, types)
      BY <1>2 DEF Carried
    <2>2. SingleLink(n, types) = <<>> \/ \E l : SingleLink(n, types) = <<l>>
      BY DEF SingleLink, Given
    <2>3. CASE SingleLink(n, types) = <<>>
      <3> DEFINE f == [i \in DOMAIN <<>> |-> Explode(<<>>[i])]
      <3>1. f = <<>>
        OBVIOUS
      <3> HIDE DEF f
      <3>2. FlattenSeq(f) = <<>>
        BY <3>1, FlatNone
      <3>3. ~Misread(n, types)
        BY <2>3, <3>2 DEF Misread, ReadLinks, f
      <3> QED
        BY <2>1, <2>3, <3>3
    <2>4. ASSUME NEW l, SingleLink(n, types) = <<l>> PROVE LinkRead(l, n, types)
      <3> DEFINE e == Explode(l)
                 f == [i \in DOMAIN <<l>> |-> Explode(<<l>>[i])]
      <3>1. f = <<e>>
        OBVIOUS
      <3>2. e = <<>> \/ \E m : e = <<m>>
        BY ExplodeOK DEF OneNode
      <3> HIDE DEF e, f
      <3>3. FlattenSeq(f) = e
        <4>1. IsList(e)
          BY <3>2, EmptyList, SingleList
        <4>2. FlattenSeq(Append(<<>>, e)) = FlattenSeq(<<>>) \o e
          <5>1. \A i \in DOMAIN <<>> : IsList(<<>>[i])
            OBVIOUS
          <5> QED
            BY <4>1, <5>1, EmptyList, FlatAppend
        <4>3. Append(<<>>, e) = <<e>>
          OBVIOUS
        <4>4. <<>> \o e = e
          BY <4>1 DEF IsList
        <4> QED
          BY <3>1, <4>2, <4>3, <4>4, FlatNone
      <3>4. Misread(n, types) <=> e # <<>>
        BY <1>2, <2>4, <3>3 DEF Misread, ReadLinks, f
      <3>5. \A m : e = <<m>> => e # <<>>
        OBVIOUS
      <3> QED
        BY <2>1, <3>2, <3>4, <3>5 DEF LinkRead, ToldIfCarried, e
    <2> QED
      BY <2>2, <2>3, <2>4
  <1> QED
    BY <1>1, <1>2

LEMMA LinksStep ==
  ASSUME IInv, NEW types \in LinkTargets, ToLinks(types)
  PROVE  LET sent == Those(nodes, LAMBDA n : Carried(n, types) \/ Misread(n, types)) IN
         /\ Len(nodes') = Len(sent)
         /\ \A k \in DOMAIN sent : ToldIfCarried(nodes'[k], sent[k], types)
  <1> DEFINE D == DOMAIN nodes
             a == [i \in D |-> SingleLink(nodes[i], types)]
             read(n) == Carried(n, types) \/ Misread(n, types)
             c == [i \in D |-> Given(read(nodes[i]), <<nodes[i]>>)]
             lines == FlattenSeq(a)
             E == [l \in ToSet(lines) |-> Explode(l)]
             b == [i \in D |-> IF a[i] = <<>> THEN <<>> ELSE Explode(a[i][1])]
             sent == Those(nodes, LAMBDA n : Carried(n, types) \/ Misread(n, types))
  <1>1. IsList(nodes) /\ (\A i \in D : NodeOK(nodes[i]))
    BY DEF IInv, AllOK
  <1>2. Len(nodes) \in Nat /\ D = 1 .. Len(nodes)
    BY <1>1, ListLen
  <1>3. /\ IsList(a) /\ IsList(b) /\ IsList(c)
        /\ Len(a) = Len(nodes) /\ Len(b) = Len(nodes) /\ Len(c) = Len(nodes)
    <2>1. /\ DOMAIN a = 1 .. Len(nodes) /\ a = [i \in DOMAIN a |-> a[i]]
          /\ DOMAIN b = 1 .. Len(nodes) /\ b = [i \in DOMAIN b |-> b[i]]
          /\ DOMAIN c = 1 .. Len(nodes) /\ c = [i \in DOMAIN c |-> c[i]]
      BY <1>2
    <2> HIDE DEF a, b, c
    <2> QED
      BY <1>2, <2>1, ListFun
  <1>4. ASSUME NEW i \in D
        PROVE  \/ a[i] = <<>> /\ ~read(nodes[i])
               \/ \E l : a[i] = <<l>> /\ LinkRead(l, nodes[i], types)
    BY <1>1, <1>4, NodeTold
  <1>5. \A i \in D : IsList(a[i])
    BY <1>4, EmptyList, SingleList
  <1>6. IsList(lines) /\ ToSet(lines) = UNION {ToSet(a[i]) : i \in D}
    <2>1. DOMAIN a = D
      OBVIOUS
    <2> HIDE DEF a, D
    <2> QED
      BY <1>3, <1>5, <2>1, FlatList
  <1>7. ASSUME NEW i \in D
        PROVE  \/ a[i] = <<>> /\ b[i] = <<>>
               \/ \E l \in DOMAIN E : a[i] = <<l>> /\ b[i] = E[l]
    <2>1. CASE a[i] = <<>>
      BY <2>1
    <2>2. ASSUME NEW l, a[i] = <<l>> PROVE l \in DOMAIN E /\ b[i] = E[l]
      <3>1. a[i] # <<>> /\ a[i][1] = l
        BY <2>2
      <3>2. l \in ToSet(lines)
        <4>1. l \in ToSet(a[i])
          BY <2>2, SingleList
        <4> HIDE DEF a, D
        <4> QED
          BY <1>6, <4>1
      <3>3. b[i] = Explode(l)
        <4>1. b[i] = IF a[i] = <<>> THEN <<>> ELSE Explode(a[i][1])
          OBVIOUS
        <4> HIDE DEF a, b
        <4> QED
          BY <3>1, <4>1
      <3>4. E[l] = Explode(l)
        BY <3>2
      <3> QED
        BY <3>2, <3>3, <3>4
    <2> HIDE DEF E, a, b
    <2> QED
      BY <1>4, <2>1, <2>2
  <1>8. ASSUME NEW i \in D
        PROVE  \/ b[i] = <<>> /\ c[i] = <<>>
               \/ \E m, n : b[i] = <<m>> /\ c[i] = <<n>> /\ ToldIfCarried(m, n, types)
    <2>1. CASE a[i] = <<>> /\ ~read(nodes[i])
      <3>1. b[i] = <<>> /\ c[i] = <<>>
        BY <2>1 DEF Given
      <3> QED
        BY <3>1
    <2>2. ASSUME NEW l, a[i] = <<l>>, LinkRead(l, nodes[i], types)
          PROVE  \/ b[i] = <<>> /\ c[i] = <<>>
                 \/ \E m, n : b[i] = <<m>> /\ c[i] = <<n>> /\ ToldIfCarried(m, n, types)
      <3>1. b[i] = Explode(l)
        <4>1. b[i] = IF a[i] = <<>> THEN <<>> ELSE Explode(a[i][1])
          OBVIOUS
        <4>2. a[i] # <<>> /\ a[i][1] = l
          BY <2>2
        <4> HIDE DEF a, b
        <4> QED
          BY <4>1, <4>2
      <3>2. c[i] = IF read(nodes[i]) THEN <<nodes[i]>> ELSE <<>>
        BY DEF Given
      <3> HIDE DEF a, b, c
      <3> QED
        BY <2>2, <3>1, <3>2, Zenon DEF LinkRead
    <2> HIDE DEF a, b, c
    <2> QED
      BY <1>4, <2>1, <2>2
  <1>9. FlattenSeq(c) = sent
    BY DEF Those
  <1>10. nodes' = FlattenSeq(b)
    <2>1. content'.form = "links" /\ content'.lines = lines /\ nodes' = ReadContent(content')
      BY DEF ToLinks, Publish, Content, ProxyToSingle, Each
    <2>2. nodes' = FlattenSeq([k \in DOMAIN lines |-> Explode(lines[k])])
      <3> HIDE DEF lines
      <3> QED
        BY <2>1 DEF ReadContent, ReadLinks
    <2>3. \A k \in DOMAIN lines : lines[k] \in ToSet(lines)
      <3> HIDE DEF lines
      <3> QED
        BY <1>6, ListLen
    <2>4. [k \in DOMAIN lines |-> Explode(lines[k])] = [k \in DOMAIN lines |-> E[lines[k]]]
      <3> HIDE DEF lines
      <3> QED
        BY <2>3
    <2>5. \A l \in DOMAIN E : IsList(E[l])
      <3>1. ASSUME NEW l \in DOMAIN E PROVE IsList(E[l])
        <4>1. l \in UNION {ToSet(a[i]) : i \in D} /\ E[l] = Explode(l)
          BY <1>6
        <4>2. PICK i \in D : l \in ToSet(a[i])
          BY <4>1
        <4> HIDE DEF E, a, lines, D
        <4>3. a[i] = <<l>> /\ LinkRead(l, nodes[i], types)
          BY <1>4, <4>2, SingleList, EmptyList DEF ToSet
        <4> QED
          BY <4>1, <4>3, SingleList, EmptyList DEF LinkRead
      <3> HIDE DEF E
      <3> QED
        BY <3>1
    <2>6. DOMAIN a = D
      OBVIOUS
    <2> HIDE DEF a, b, E, D
    <2>7. FlattenSeq([k \in DOMAIN lines |-> E[lines[k]]]) = FlattenSeq(b)
      <3>1. \A i \in DOMAIN a : \/ a[i] = <<>> /\ b[i] = <<>>
                               \/ \E l \in DOMAIN E : a[i] = <<l>> /\ b[i] = E[l]
        BY <1>7, <2>6
      <3>2. IsList(a) /\ IsList(b) /\ Len(a) = Len(b)
        BY <1>3
      <3> QED
        BY <2>5, <3>1, <3>2, FlatRead
    <2> QED
      BY <2>2, <2>4, <2>7
  <1> DEFINE M == UNION {ToSet(b[i]) : i \in D}
             N == UNION {ToSet(c[i]) : i \in D}
             R == {p \in M \X N : ToldIfCarried(p[1], p[2], types)}
  <1>11. ASSUME NEW i \in D
         PROVE  \/ b[i] = <<>> /\ c[i] = <<>>
                \/ \E m, n : b[i] = <<m>> /\ c[i] = <<n>> /\ <<m, n>> \in R
    <2> HIDE DEF b, c
    <2>1. ASSUME NEW m, NEW n, b[i] = <<m>>, c[i] = <<n>>, ToldIfCarried(m, n, types)
          PROVE  <<m, n>> \in R
      <3>1. m \in M /\ n \in N
        <4>1. m \in ToSet(b[i]) /\ n \in ToSet(c[i])
          BY <2>1, SingleList
        <4> HIDE DEF D
        <4> QED
          BY <4>1
      <3> HIDE DEF M, N
      <3> QED
        BY <2>1, <3>1
    <2> HIDE DEF R
    <2> QED
      BY <1>8, <2>1
  <1>12. /\ Len(FlattenSeq(b)) = Len(FlattenSeq(c))
         /\ \A k \in DOMAIN FlattenSeq(c) : <<FlattenSeq(b)[k], FlattenSeq(c)[k]>> \in R
    <2>1. DOMAIN b = D
      OBVIOUS
    <2> HIDE DEF b, c, R, D
    <2> QED
      BY <1>3, <1>11, <2>1, FlatPaired
  <1>13. \A k \in DOMAIN FlattenSeq(c) : ToldIfCarried(FlattenSeq(b)[k], FlattenSeq(c)[k], types)
    <2> DEFINE x == FlattenSeq(b)
               y == FlattenSeq(c)
    <2> HIDE DEF M, N, x, y
    <2>1. ASSUME NEW k \in DOMAIN y, <<x[k], y[k]>> \in R PROVE ToldIfCarried(x[k], y[k], types)
      BY <2>1
    <2>2. \A k \in DOMAIN y : <<x[k], y[k]>> \in R
      BY <1>12 DEF x, y
    <2> HIDE DEF R
    <2>3. \A k \in DOMAIN y : ToldIfCarried(x[k], y[k], types)
      BY <2>1, <2>2
    <2> QED
      BY <2>3 DEF x, y
  <1> HIDE DEF b, c, sent
  <1>14. Len(nodes') = Len(sent) /\ \A k \in DOMAIN sent : ToldIfCarried(nodes'[k], sent[k], types)
    BY <1>9, <1>10, <1>12, <1>13
  <1> QED
    BY <1>14 DEF sent

\* Whatever subscription is answered as links of whatever type is read back node by node:
\* generator/config/formats/single.rs and parser/explodes say the same of a link whose
\* server and password need no brackets and no escape, and of another no link suffers.
THEOREM LinksArriveWhole == Spec => LinksReadBack
  <1>1. Init => IInv
    BY InitIInv
  <1>2. IInv /\ [Next]_vars => IInv'
    BY StepIInv
  <1>3. IInv /\ [Next]_vars =>
          [\A types \in LinkTargets : ToLinks(types) =>
             LET sent == Those(nodes, LAMBDA n : Carried(n, types) \/ Misread(n, types)) IN
             /\ Len(nodes') = Len(sent)
             /\ \A k \in DOMAIN sent :
                   Carried(sent[k], types) => ToldByLink(nodes'[k], sent[k])]_vars
    BY LinksStep DEF ToldIfCarried
  <1> QED
    BY <1>1, <1>2, <1>3, PTL DEF Spec, LinksReadBack

-----------------------------------------------------------------------------
(* Clash entries, written and read.                                        *)

KeysOf(s) == {s[i][1] : i \in DOMAIN s}

\* t is s with one more item, and the same for an item that is not written when its value
\* is empty.
Keeps(s, t, key) ==
    /\ \A k : k # key => Opt(t, k) = Opt(s, k)
    /\ \A k : k # key => (k \in KeysOf(t) <=> k \in KeysOf(s))
Adds(s, t, key, v) == Opt(t, key) = v /\ key \in KeysOf(t)
AddsIf(s, t, key, v) ==
    /\ Opt(s, key) = "" => Opt(t, key) = v
    /\ key \in KeysOf(t) <=> key \in KeysOf(s) \/ v # ""

\* The keys all types share, and what is asked of the certificate.
Shared(s, type, n, v) ==
    /\ {"type", "server", "port"} \subseteq KeysOf(s)
    /\ Opt(s, "type") = type /\ Opt(s, "server") = n.server /\ Opt(s, "port") = n.port
    /\ Opt(s, "skip-cert-verify") = v
    /\ \A k : k \notin {"type", "server", "port", "skip-cert-verify"} => Opt(s, k) = ""
    /\ \A k : k \notin {"type", "server", "port", "skip-cert-verify"} => k \notin KeysOf(s)

Held(s, type, n, v) ==
    /\ Opt(s, "type") = type /\ Opt(s, "server") = n.server /\ Opt(s, "port") = n.port
    /\ Opt(s, "skip-cert-verify") = v

LEMMA HeldKept ==
  ASSUME NEW s, NEW t, NEW key, Keeps(s, t, key), NEW type, NEW n, NEW v,
         Held(s, type, n, v), key \notin {"type", "server", "port", "skip-cert-verify"}
  PROVE  Held(t, type, n, v)
  BY DEF Keeps, Held

\* A key that is there has a last place.
LEMMA LastPlace ==
  ASSUME NEW n \in Nat, NEW at \in SUBSET (1 .. n), at # {}
  PROVE  \E i \in at : \A j \in at : j <= i
  <1> DEFINE gaps == {n - j : j \in at}
  <1>1. gaps \in SUBSET Nat /\ gaps # {}
    <2>1. \A j \in at : n - j \in Nat
      OBVIOUS
    <2>2. PICK j : j \in at
      OBVIOUS
    <2>3. n - j \in gaps
      BY <2>2
    <2> QED
      BY <2>1, <2>3
  <1>2. PICK m \in gaps : \A g \in gaps : m <= g
    <2> HIDE DEF gaps
    <2> QED
      BY <1>1, Least
  <1>3. PICK i \in at : m = n - i
    BY <1>2
  <1>4. ASSUME NEW j \in at PROVE j <= i
    <2>1. n - i <= n - j
      BY <1>2, <1>3
    <2> QED
      BY <2>1
  <1> QED
    BY <1>4

LEMMA ItemAdds ==
  ASSUME NEW s, IsList(s), NEW key, NEW v
  PROVE  LET t == s \o << <<key, v>> >> IN IsList(t) /\ Keeps(s, t, key) /\ Adds(s, t, key, v)
  <1> DEFINE one == <<key, v>>
             t == s \o <<one>>
             n == Len(s)
  <1>1. n \in Nat /\ DOMAIN s = 1 .. n
    BY ListLen
  <1>2. /\ IsList(t) /\ DOMAIN t = 1 .. (n + 1)
        /\ \A i \in 1 .. n : t[i] = s[i]
        /\ t[n + 1] = one
    <2>1. IsList(<<one>>) /\ Len(<<one>>) = 1 /\ <<one>>[1] = one /\ 1 \in 1 .. 1
      BY SingleList
    <2> HIDE DEF one
    <2>2. /\ IsList(t) /\ Len(t) = Len(s) + Len(<<one>>)
          /\ \A i \in 1 .. Len(s) : t[i] = s[i]
          /\ \A i \in 1 .. Len(<<one>>) : t[Len(s) + i] = <<one>>[i]
      BY <2>1, ListConcat
    <2>3. DOMAIN t = 1 .. Len(t)
      BY <2>2, ListLen
    <2> HIDE DEF t
    <2> QED
      BY <1>1, <2>1, <2>2, <2>3
  <1>3. t[n + 1][1] = key /\ t[n + 1][2] = v
    BY <1>2
  <1> HIDE DEF t, n
  <1>4. KeysOf(t) = KeysOf(s) \cup {key}
    BY <1>1, <1>2, <1>3 DEF KeysOf
  <1>5. ASSUME NEW k PROVE Opt(t, k) = IF k = key THEN v ELSE Opt(s, k)
    <2> DEFINE before == {i \in DOMAIN s : s[i][1] = k}
               at == {i \in DOMAIN t : t[i][1] = k}
               Final(S) == CHOOSE i \in S : \A j \in S : j <= i
    <2>1. Opt(t, k) = IF at = {} THEN "" ELSE t[Final(at)][2]
      BY DEF Opt
    <2>2. Opt(s, k) = IF before = {} THEN "" ELSE s[Final(before)][2]
      BY DEF Opt
    <2>3. CASE k = key
      <3>1. n + 1 \in at /\ \A j \in at : j <= n + 1
        BY <1>1, <1>2, <1>3, <2>3
      <3>2. \A i \in at : i \in Int
        BY <1>1, <1>2
      <3> HIDE DEF at
      <3>3. Final(at) = n + 1
        BY <1>1, <3>1, <3>2
      <3> HIDE DEF Final
      <3> QED
        BY <1>3, <2>1, <2>3, <3>1, <3>3
    <2>4. CASE k # key
      <3>1. at = before
        BY <1>1, <1>2, <1>3, <2>4
      <3>2. CASE before = {}
        BY <2>1, <2>2, <2>4, <3>1, <3>2
      <3>3. CASE before # {}
        <4>1. before \in SUBSET (1 .. n)
          BY <1>1
        <4> HIDE DEF before, at
        <4>2. \E i \in before : \A j \in before : j <= i
          BY <1>1, <3>3, <4>1, LastPlace
        <4>3. Final(before) \in before
          BY <4>2
        <4> HIDE DEF Final
        <4> QED
          BY <1>2, <2>1, <2>2, <2>4, <3>1, <3>3, <4>1, <4>3
      <3> QED
        BY <3>2, <3>3
    <2> QED
      BY <2>3, <2>4
  <1>6. Keeps(s, t, key) /\ Adds(s, t, key, v)
    BY <1>4, <1>5 DEF Adds, Keeps
  <1> QED
    BY <1>2, <1>6 DEF t

LEMMA ItemIfAdds ==
  ASSUME NEW s, IsList(s), NEW key, NEW v
  PROVE  LET t == s \o Item(key, v) IN IsList(t) /\ Keeps(s, t, key) /\ AddsIf(s, t, key, v)
  <1>1. CASE v = ""
    <2>1. s \o Item(key, v) = s
      BY <1>1, ConcatEmptySeq DEF Item, Given, IsList
    <2>2. Keeps(s, s, key) /\ AddsIf(s, s, key, v)
      BY <1>1 DEF AddsIf, Keeps
    <2> QED
      BY <2>1, <2>2
  <1>2. CASE v # ""
    <2> DEFINE t == s \o Item(key, v)
    <2>1. Item(key, v) = << <<key, v>> >>
      BY <1>2 DEF Item, Given
    <2>2. IsList(t) /\ Keeps(s, t, key) /\ Adds(s, t, key, v)
      BY <2>1, ItemAdds
    <2> HIDE DEF t
    <2>3. AddsIf(s, t, key, v)
      BY <1>2, <2>2 DEF Adds, AddsIf
    <2> QED
      BY <2>2, <2>3 DEF t
  <1> QED
    BY <1>1, <1>2

LEMMA CommonShared ==
  ASSUME NEW type, NEW n, NEW v
  PROVE  IsList(Common(type, n, v)) /\ Shared(Common(type, n, v), type, n, v)
  <1> DEFINE p == <<"type", type>>
             q == <<"server", n.server>>
             r == <<"port", n.port>>
             first == <<p, q, r>>
             s == Common(type, n, v)
  <1>1. DOMAIN first = 1 .. 3 /\ first[1] = p /\ first[2] = q /\ first[3] = r
    OBVIOUS
  <1>2. IsList(first)
    <2>1. first \in Seq({p, q, r})
      OBVIOUS
    <2> QED
      BY <2>1, ListOf
  <1>3. p[1] = "type" /\ p[2] = type /\ q[1] = "server" /\ q[2] = n.server
        /\ r[1] = "port" /\ r[2] = n.port
    OBVIOUS
  <1>4. s = first \o Item("skip-cert-verify", v)
    BY DEF Common
  <1> HIDE DEF first, p, q, r, s
  <1>5. \A i \in 1 .. 3 : i = 1 \/ i = 2 \/ i = 3
    OBVIOUS
  <1>6. KeysOf(first) = {"type", "server", "port"}
    BY <1>1, <1>3, <1>5 DEF KeysOf
  <1>7. ASSUME NEW k, NEW i \in 1 .. 3, first[i][1] = k,
               \A j \in 1 .. 3 : first[j][1] = k => j = i
        PROVE  Opt(first, k) = first[i][2]
    <2> DEFINE at == {j \in DOMAIN first : first[j][1] = k}
    <2>1. at = {i}
      BY <1>1, <1>7
    <2>2. (CHOOSE j \in {i} : \A h \in {i} : h <= j) = i
      OBVIOUS
    <2> QED
      BY <2>1, <2>2 DEF Opt
  <1>8. Opt(first, "type") = type /\ Opt(first, "server") = n.server
        /\ Opt(first, "port") = n.port
    BY <1>1, <1>3, <1>5, <1>7
  <1>9. \A k : k \notin {"type", "server", "port"} => Opt(first, k) = ""
    BY <1>1, <1>3, <1>5 DEF Opt
  <1>10. /\ IsList(s) /\ Keeps(first, s, "skip-cert-verify")
         /\ AddsIf(first, s, "skip-cert-verify", v)
    BY <1>2, <1>4, ItemIfAdds
  <1>11. Opt(first, "skip-cert-verify") = ""
    BY <1>9
  <1>12. Shared(s, type, n, v)
    BY <1>6, <1>8, <1>9, <1>10, <1>11 DEF AddsIf, Keeps, Shared
  <1> QED
    BY <1>10, <1>12 DEF s

LEMMA TwoItems ==
  ASSUME NEW s, IsList(s), NEW p, NEW q
  PROVE  s \o <<p, q>> = (s \o <<p>>) \o <<q>>
  <1> DEFINE X == ToSet(s) \cup {p, q}
  <1>1. s \in Seq(X) /\ <<p>> \in Seq(X) /\ <<q>> \in Seq(X)
    <2>1. s \in Seq(ToSet(s)) /\ ToSet(s) \subseteq X
      BY DEF IsList
    <2>2. <<p>> \in Seq({p, q}) /\ <<q>> \in Seq({p, q}) /\ {p, q} \subseteq X
      OBVIOUS
    <2> HIDE DEF X
    <2> QED
      BY <2>1, <2>2
  <1>2. <<p, q>> = <<p>> \o <<q>>
    <2> DEFINE t == <<p>> \o <<q>>
    <2>1. IsList(<<p>>) /\ IsList(<<q>>) /\ Len(<<p>>) = 1 /\ Len(<<q>>) = 1
          /\ <<p>>[1] = p /\ <<q>>[1] = q
      BY SingleList
    <2>2. IsList(t) /\ Len(t) = 2 /\ t[1] = p /\ t[1 + 1] = q
      BY <2>1, ListConcat
    <2> HIDE DEF t
    <2>3. t \in Seq(ToSet(t))
      BY <2>2 DEF IsList
    <2>4. t = <<t[1], t[1 + 1]>>
      BY <2>2, <2>3
    <2> QED
      BY <2>2, <2>4 DEF t
  <1> HIDE DEF X
  <1> QED
    BY <1>1, <1>2, ConcatAssociative

\* What the type an entry is normalised to and the keys it has make of it.
Reads(e, items, name) == e.name = name /\ \A k : Opt(e.items, k) = Opt(items, k)

LEMMA EntryRead ==
  ASSUME NEW items, IsList(items), NEW type \in Types \ {"https"}, Opt(items, "type") = type,
         NEW name
  PROVE  \E e : /\ Reads(e, items, name)
                /\ ParseEntry(Line(name, items)) =
                      Given(/\ Required(type) \subseteq KeysOf(items) \cup {"type"}
                            /\ Opt(items, "port") \in Ports, <<InputOf(type, e)>>)
  <1> DEFINE raw == Line(name, items)
             e == Normalized(raw)
             t == items \o << <<"type", type>> >>
  <1>1. raw.name = name /\ raw.items = items
    BY DEF Line
  <1>2. ClashType(raw) = type
    BY <1>1 DEF ClashType
  <1>3. e.name = name /\ e.items = t
    <2>1. type \notin {"shadowsocks", "shadowsocksr", "socks", "any-tls", "https"}
      BY DEF Types
    <2>2. Given(type = "https", << <<"tls", "true">> >>) = <<>>
      BY <2>1 DEF Given
    <2> DEFINE known == CASE type = "shadowsocks" -> "ss" [] type = "shadowsocksr" -> "ssr"
                          [] type = "socks" -> "socks5" [] type = "any-tls" -> "anytls"
                          [] type = "https" -> "http" [] OTHER -> type
    <2>3. known = type
      BY <2>1
    <2> HIDE DEF known
    <2>4. e = [raw EXCEPT !.items = (items \o << <<"type", known>> >>) \o <<>>]
      BY <1>1, <1>2, <2>2 DEF Normalized, known
    <2>5. t \o <<>> = t
      <3>1. IsList(t)
        BY ItemAdds
      <3> HIDE DEF t
      <3> QED
        BY <3>1, ConcatEmptySeq DEF IsList
    <2>6. e = [raw EXCEPT !.items = t]
      BY <2>3, <2>4, <2>5
    <2> QED
      BY <1>1, <2>6 DEF Line
  <1>4. Keeps(items, t, "type") /\ Adds(items, t, "type", type)
    BY ItemAdds
  <1> HIDE DEF e, t
  <1>5. Reads(e, items, name)
    <2>1. \A k : Opt(t, k) = Opt(items, k)
      BY <1>4 DEF Adds, Keeps
    <2> QED
      BY <1>3, <2>1 DEF Reads
  <1>6. Keys(e) = KeysOf(items) \cup {"type"}
    <2>1. KeysOf(t) = KeysOf(items) \cup {"type"}
      BY <1>4 DEF Adds, Keeps
    <2> QED
      BY <1>3, <2>1 DEF Keys, KeysOf
  <1>7. ClashType(e) = type /\ Opt(e.items, "port") = Opt(items, "port")
    BY <1>5 DEF Reads, ClashType
  <1>8. ParseEntry(raw) =
          Given(/\ Required(type) \subseteq KeysOf(items) \cup {"type"}
                /\ Opt(items, "port") \in Ports, <<InputOf(type, e)>>)
    BY <1>6, <1>7 DEF ParseEntry, ReadablePort, e
  <1> QED
    BY <1>5, <1>8

\* The node of an entry, or none if it is not legible.
EntryTold(items, name, n) ==
    IF Legible(n) THEN \E m : ParseEntry(Line(name, items)) = <<m>> /\ ToldByClash(m, name, n)
    ELSE ParseEntry(Line(name, items)) = <<>>

LEMMA ToldByEntry ==
  ASSUME NEW items, IsList(items), NEW n, NodeOK(n), n.type # "https", NEW name,
         Opt(items, "type") = n.type, Opt(items, "port") = n.port,
         n.port # "0" => (/\ Required(n.type) \subseteq KeysOf(items) \cup {"type"}) <=> Legible(n),
         \A e : Reads(e, items, name) => ToldByClash(InputOf(n.type, e), name, n)
  PROVE  EntryTold(items, name, n)
  <1>1. n.type \in Types \ {"https"} /\ (n.port \in Ports <=> n.port # "0")
    BY PortKnown DEF NodeOK
  <1> DEFINE asks == /\ Required(n.type) \subseteq KeysOf(items) \cup {"type"}
                     /\ Opt(items, "port") \in Ports
  <1>2. PICK e : /\ Reads(e, items, name)
                 /\ ParseEntry(Line(name, items)) = Given(asks, <<InputOf(n.type, e)>>)
    BY <1>1, EntryRead
  <1>3. asks <=> Legible(n)
    BY <1>1 DEF Legible
  <1>4. ToldByClash(InputOf(n.type, e), name, n)
    BY <1>2
  <1> HIDE DEF asks
  <1> QED
    BY <1>2, <1>3, <1>4 DEF EntryTold, Given

LEMMA AskedFlag ==
  ASSUME NEW n, NodeOK(n), ext \in Exts
  PROVE  /\ n.type # "vless" => (Flag(Scv(n, ext)) = "true" <=> Asked(n))
         /\ n.type = "vless" => (Flag(ext.scv) = "true" <=> Asked(n))
  <1>1. n.scv \in Flags /\ ext.scv \in Flags
    BY RequestAssumption DEF NodeOK, Flags
  <1> QED
    BY <1>1 DEF Flags, Flag, Scv, Or, Asked

\* t is s with items of some of these keys, which no parser asks for.
Extends(s, t, keys) ==
    /\ \A k : k \notin keys => Opt(t, k) = Opt(s, k)
    /\ \A k : k \notin keys => (k \in KeysOf(t) <=> k \in KeysOf(s))

LEMMA WsExtends ==
  ASSUME NEW s, IsList(s), NEW c, NEW v
  PROVE  /\ IsList(s \o Given(c, Item("ws-opts", v)))
         /\ Extends(s, s \o Given(c, Item("ws-opts", v)), {"ws-opts"})
  <1> DEFINE t == s \o Given(c, Item("ws-opts", v))
  <1>1. CASE c
    <2>1. IsList(t) /\ Keeps(s, t, "ws-opts") /\ AddsIf(s, t, "ws-opts", v)
      BY <1>1, ItemIfAdds DEF Given
    <2> HIDE DEF t
    <2>2. Extends(s, t, {"ws-opts"})
      BY <2>1 DEF AddsIf, Keeps, Extends
    <2> QED
      BY <2>1, <2>2 DEF t
  <1>2. CASE ~c
    <2>1. t = s
      BY <1>2, ConcatEmptySeq DEF Given, IsList
    <2> HIDE DEF t
    <2>2. Extends(s, t, {"ws-opts"})
      BY <2>1 DEF Extends
    <2> QED
      BY <2>1, <2>2 DEF t
  <1> QED
    BY <1>1, <1>2

LEMMA OptsExtend ==
  ASSUME NEW s, IsList(s), NEW net, NEW v
  PROVE  LET t == s \o Given(net \in DOMAIN OptsKey, Item(OptsKey[net], v)) IN
         IsList(t) /\ Extends(s, t, {"ws-opts", "http-opts", "h2-opts"})
  <1> DEFINE t == s \o Given(net \in DOMAIN OptsKey, Item(OptsKey[net], v))
  <1>1. CASE net \in DOMAIN OptsKey
    <2>1. IsList(t) /\ Keeps(s, t, OptsKey[net]) /\ AddsIf(s, t, OptsKey[net], v)
      BY <1>1, ItemIfAdds DEF Given
    <2>2. OptsKey[net] \in {"ws-opts", "http-opts", "h2-opts"}
      BY <1>1 DEF OptsKey
    <2> DEFINE key == OptsKey[net]
    <2> HIDE DEF t, key
    <2>3. \A k : k \notin {"ws-opts", "http-opts", "h2-opts"} => k # key
      BY <2>2 DEF key
    <2>4. Extends(s, t, {"ws-opts", "http-opts", "h2-opts"})
      BY <2>1, <2>3 DEF AddsIf, Keeps, Extends, key
    <2> QED
      BY <2>1, <2>4 DEF t
  <1>2. CASE net \notin DOMAIN OptsKey
    <2>1. t = s
      BY <1>2, ConcatEmptySeq DEF Given, IsList
    <2> HIDE DEF t
    <2>2. Extends(s, t, {"ws-opts", "http-opts", "h2-opts"})
      BY <2>1 DEF Extends
    <2> QED
      BY <2>1, <2>2 DEF t
  <1> QED
    BY <1>1, <1>2

LEMMA ShadowsocksEntry ==
  ASSUME NEW n, NodeOK(n), n.type = "ss", ext \in Exts, NEW name
  PROVE  EntryTold(OutputShadowsocks(n, ext), name, n)
  <1> DEFINE s0 == Common("ss", n, Scv(n, ext))
             s1 == s0 \o Item("cipher", n.cipher)
             s2 == s1 \o Item("password", n.secret)
             s3 == s2 \o Item("plugin", n.plugin)
  <1>1. OutputShadowsocks(n, ext) = s3
    BY DEF OutputShadowsocks
  <1>2. IsList(s0) /\ Shared(s0, "ss", n, Scv(n, ext))
    BY CommonShared
  <1> HIDE DEF s0
  <1>3. IsList(s1) /\ Keeps(s0, s1, "cipher") /\ AddsIf(s0, s1, "cipher", n.cipher)
    BY <1>2, ItemIfAdds
  <1> HIDE DEF s1
  <1>4. IsList(s2) /\ Keeps(s1, s2, "password") /\ AddsIf(s1, s2, "password", n.secret)
    BY <1>3, ItemIfAdds
  <1> HIDE DEF s2
  <1>5. IsList(s3) /\ Keeps(s2, s3, "plugin") /\ AddsIf(s2, s3, "plugin", n.plugin)
    BY <1>4, ItemIfAdds
  <1> HIDE DEF s3
  <1>6. Held(s3, "ss", n, Scv(n, ext))
    <2>1. Held(s0, "ss", n, Scv(n, ext))
      BY <1>2 DEF Shared, Held
    <2>2. Held(s1, "ss", n, Scv(n, ext))
      BY <1>3, <2>1, HeldKept
    <2>3. Held(s2, "ss", n, Scv(n, ext))
      BY <1>4, <2>2, HeldKept
    <2>4. Held(s3, "ss", n, Scv(n, ext))
      BY <1>5, <2>3, HeldKept
    <2> QED
      BY <2>4
  <1>7. /\ Opt(s3, "cipher") = n.cipher
        /\ Opt(s3, "password") = n.secret
        /\ Opt(s3, "plugin") = n.plugin
    <2>1. Opt(s3, "cipher") = n.cipher
      <3>1. Opt(s0, "cipher") = ""
        BY <1>2 DEF Shared
      <3>2. Opt(s1, "cipher") = n.cipher
        BY <3>1, <1>3 DEF AddsIf
      <3> QED
        BY <3>2, <1>4, <1>5 DEF Keeps
    <2>2. Opt(s3, "password") = n.secret
      <3>1. Opt(s1, "password") = ""
        BY <1>2, <1>3 DEF Keeps, Shared
      <3>2. Opt(s2, "password") = n.secret
        BY <3>1, <1>4 DEF AddsIf
      <3> QED
        BY <3>2, <1>5 DEF Keeps
    <2>3. Opt(s3, "plugin") = n.plugin
      <3>1. Opt(s2, "plugin") = ""
        BY <1>2, <1>3, <1>4 DEF Keeps, Shared
      <3> QED
        BY <3>1, <1>5 DEF AddsIf
    <2> QED
      BY <2>1, <2>2, <2>3
  <1>8. Required("ss") \subseteq KeysOf(s3) \cup {"type"} <=> (n.cipher # "" /\ n.secret # "")
    <2>1. Required("ss") = {"server", "port", "cipher", "password"}
      BY DEF Required
    <2> QED
      BY <2>1, <1>2, <1>3, <1>4, <1>5 DEF AddsIf, Keeps, Shared
  <1>9. ASSUME NEW e, Reads(e, s3, name) PROVE ToldByClash(InputOf("ss", e), name, n)
    <2> DEFINE m == InputOf("ss", e)
    <2>1. /\ m.type = "ss" /\ m.name = e.name
          /\ m.server = Opt(e.items, "server") /\ m.port = Opt(e.items, "port")
          /\ m.scv = Flag(Opt(e.items, "skip-cert-verify"))
          /\ m.tls = FALSE
      BY DEF InputOf, InputShadowsocks, BaseScv, Base, CommonConstruct
    <2>2. /\ m.cipher = Opt(e.items, "cipher")
          /\ m.secret = Opt(e.items, "password")
          /\ m.plugin = Opt(e.items, "plugin")
      BY DEF InputOf, InputShadowsocks, BaseScv, Base, CommonConstruct
    <2> HIDE DEF m
    <2>3. /\ m.name = name /\ m.server = n.server /\ m.port = n.port
          /\ m.cipher = n.cipher
          /\ m.secret = n.secret
          /\ m.plugin = n.plugin
      BY <1>6, <1>7, <1>9, <2>1, <2>2 DEF Reads, Held
    <2>4. m.scv = "true" <=> n.type \notin {"snell", "wireguard"} /\ Asked(n)
      BY <1>6, <1>9, <2>1, AskedFlag DEF Reads, Held
    <2>5. m.tls <=> n.type = "vless" /\ n.tls
      BY <2>1
    <2> QED
      BY <2>1, <2>3, <2>4, <2>5 DEF ToldByClash, m
  <1>10. n.port # "0" => ((Required("ss") \subseteq KeysOf(s3) \cup {"type"}) <=> Legible(n))
    BY <1>8 DEF Legible
  <1> QED
    BY <1>1, <1>5, <1>6, <1>9, <1>10, ToldByEntry DEF Held

LEMMA ShadowsocksREntry ==
  ASSUME NEW n, NodeOK(n), n.type = "ssr", ext \in Exts, NEW name
  PROVE  EntryTold(OutputShadowsocksR(n, ext), name, n)
  <1> DEFINE s0 == Common("ssr", n, Scv(n, ext))
             s1 == s0 \o Item("cipher", n.cipher)
             s2 == s1 \o Item("password", n.secret)
             s3 == s2 \o Item("protocol", n.protocol)
             s4 == s3 \o Item("obfs", n.obfs)
  <1>1. OutputShadowsocksR(n, ext) = s4
    BY DEF OutputShadowsocksR
  <1>2. IsList(s0) /\ Shared(s0, "ssr", n, Scv(n, ext))
    BY CommonShared
  <1> HIDE DEF s0
  <1>3. IsList(s1) /\ Keeps(s0, s1, "cipher") /\ AddsIf(s0, s1, "cipher", n.cipher)
    BY <1>2, ItemIfAdds
  <1> HIDE DEF s1
  <1>4. IsList(s2) /\ Keeps(s1, s2, "password") /\ AddsIf(s1, s2, "password", n.secret)
    BY <1>3, ItemIfAdds
  <1> HIDE DEF s2
  <1>5. IsList(s3) /\ Keeps(s2, s3, "protocol") /\ AddsIf(s2, s3, "protocol", n.protocol)
    BY <1>4, ItemIfAdds
  <1> HIDE DEF s3
  <1>6. IsList(s4) /\ Keeps(s3, s4, "obfs") /\ AddsIf(s3, s4, "obfs", n.obfs)
    BY <1>5, ItemIfAdds
  <1> HIDE DEF s4
  <1>7. Held(s4, "ssr", n, Scv(n, ext))
    <2>1. Held(s0, "ssr", n, Scv(n, ext))
      BY <1>2 DEF Shared, Held
    <2>2. Held(s1, "ssr", n, Scv(n, ext))
      BY <1>3, <2>1, HeldKept
    <2>3. Held(s2, "ssr", n, Scv(n, ext))
      BY <1>4, <2>2, HeldKept
    <2>4. Held(s3, "ssr", n, Scv(n, ext))
      BY <1>5, <2>3, HeldKept
    <2>5. Held(s4, "ssr", n, Scv(n, ext))
      BY <1>6, <2>4, HeldKept
    <2> QED
      BY <2>5
  <1>8. /\ Opt(s4, "cipher") = n.cipher
        /\ Opt(s4, "password") = n.secret
        /\ Opt(s4, "protocol") = n.protocol
        /\ Opt(s4, "obfs") = n.obfs
    <2>1. Opt(s4, "cipher") = n.cipher
      <3>1. Opt(s0, "cipher") = ""
        BY <1>2 DEF Shared
      <3>2. Opt(s1, "cipher") = n.cipher
        BY <3>1, <1>3 DEF AddsIf
      <3> QED
        BY <3>2, <1>4, <1>5, <1>6 DEF Keeps
    <2>2. Opt(s4, "password") = n.secret
      <3>1. Opt(s1, "password") = ""
        BY <1>2, <1>3 DEF Keeps, Shared
      <3>2. Opt(s2, "password") = n.secret
        BY <3>1, <1>4 DEF AddsIf
      <3> QED
        BY <3>2, <1>5, <1>6 DEF Keeps
    <2>3. Opt(s4, "protocol") = n.protocol
      <3>1. Opt(s2, "protocol") = ""
        BY <1>2, <1>3, <1>4 DEF Keeps, Shared
      <3>2. Opt(s3, "protocol") = n.protocol
        BY <3>1, <1>5 DEF AddsIf
      <3> QED
        BY <3>2, <1>6 DEF Keeps
    <2>4. Opt(s4, "obfs") = n.obfs
      <3>1. Opt(s2, "obfs") = ""
        BY <1>2, <1>3, <1>4 DEF Keeps, Shared
      <3>2. Opt(s3, "obfs") = ""
        BY <3>1, <1>5 DEF Keeps
      <3> QED
        BY <3>2, <1>6 DEF AddsIf
    <2> QED
      BY <2>1, <2>2, <2>3, <2>4
  <1>9. Required("ssr") \subseteq KeysOf(s4) \cup {"type"} <=> (n.cipher # "" /\ n.secret # "" /\ n.protocol # "" /\ n.obfs # "")
    <2>1. Required("ssr") = {"server", "port", "cipher", "password", "protocol", "obfs"}
      BY DEF Required
    <2>2. {"server", "port", "type"} \subseteq KeysOf(s4)
      BY <1>2, <1>3, <1>4, <1>5, <1>6 DEF Keeps, Shared
    <2>3. "cipher" \in KeysOf(s4) <=> n.cipher # ""
      <3>1. "cipher" \in KeysOf(s1) <=> n.cipher # ""
        BY <1>2, <1>3 DEF AddsIf, Shared
      <3> QED
        BY <3>1, <1>4, <1>5, <1>6 DEF Keeps
    <2>4. "password" \in KeysOf(s4) <=> n.secret # ""
      <3>1. "password" \in KeysOf(s2) <=> n.secret # ""
        BY <1>2, <1>3, <1>4 DEF AddsIf, Keeps, Shared
      <3> QED
        BY <3>1, <1>5, <1>6 DEF Keeps
    <2>5. "protocol" \in KeysOf(s4) <=> n.protocol # ""
      <3>1. "protocol" \notin KeysOf(s2)
        BY <1>2, <1>3, <1>4 DEF Keeps, Shared
      <3> QED
        BY <3>1, <1>5, <1>6 DEF AddsIf, Keeps
    <2>6. "obfs" \in KeysOf(s4) <=> n.obfs # ""
      <3>1. "obfs" \notin KeysOf(s3)
        BY <1>2, <1>3, <1>4, <1>5 DEF Keeps, Shared
      <3> QED
        BY <3>1, <1>6 DEF AddsIf
    <2> QED
      BY <2>1, <2>2, <2>3, <2>4, <2>5, <2>6
  <1>10. ASSUME NEW e, Reads(e, s4, name) PROVE ToldByClash(InputOf("ssr", e), name, n)
    <2> DEFINE m == InputOf("ssr", e)
    <2>1. /\ m.type = "ssr" /\ m.name = e.name
          /\ m.server = Opt(e.items, "server") /\ m.port = Opt(e.items, "port")
          /\ m.scv = Flag(Opt(e.items, "skip-cert-verify"))
          /\ m.tls = FALSE
      BY DEF InputOf, InputShadowsocksR, BaseScv, Base, CommonConstruct
    <2>2. /\ m.cipher = Opt(e.items, "cipher")
          /\ m.secret = Opt(e.items, "password")
          /\ m.protocol = Opt(e.items, "protocol")
          /\ m.obfs = Opt(e.items, "obfs")
      BY DEF InputOf, InputShadowsocksR, BaseScv, Base, CommonConstruct
    <2> HIDE DEF m
    <2>3. /\ m.name = name /\ m.server = n.server /\ m.port = n.port
          /\ m.cipher = n.cipher
          /\ m.secret = n.secret
          /\ m.protocol = n.protocol
          /\ m.obfs = n.obfs
      BY <1>7, <1>8, <1>10, <2>1, <2>2 DEF Reads, Held
    <2>4. m.scv = "true" <=> n.type \notin {"snell", "wireguard"} /\ Asked(n)
      BY <1>7, <1>10, <2>1, AskedFlag DEF Reads, Held
    <2>5. m.tls <=> n.type = "vless" /\ n.tls
      BY <2>1
    <2> QED
      BY <2>1, <2>3, <2>4, <2>5 DEF ToldByClash, m
  <1>11. n.port # "0" => ((Required("ssr") \subseteq KeysOf(s4) \cup {"type"}) <=> Legible(n))
    BY <1>9 DEF Legible
  <1> QED
    BY <1>1, <1>6, <1>7, <1>10, <1>11, ToldByEntry DEF Held

LEMMA VmessEntry ==
  ASSUME NEW n, NodeOK(n), n.type = "vmess", ext \in Exts, NEW name
  PROVE  EntryTold(OutputVmess(n, ext), name, n)
  <1> DEFINE s0 == Common("vmess", n, Scv(n, ext))
             s1 == s0 \o Item("uuid", n.user)
             s2 == s1 \o Item("cipher", n.cipher)
             s3 == s2 \o Item("network", n.net)
             s4 == s3 \o Given(n.net \in DOMAIN OptsKey, Item(OptsKey[n.net], n.host))
  <1>1. OutputVmess(n, ext) = s4
    BY DEF OutputVmess
  <1>2. IsList(s0) /\ Shared(s0, "vmess", n, Scv(n, ext))
    BY CommonShared
  <1> HIDE DEF s0
  <1>3. IsList(s1) /\ Keeps(s0, s1, "uuid") /\ AddsIf(s0, s1, "uuid", n.user)
    BY <1>2, ItemIfAdds
  <1> HIDE DEF s1
  <1>4. IsList(s2) /\ Keeps(s1, s2, "cipher") /\ AddsIf(s1, s2, "cipher", n.cipher)
    BY <1>3, ItemIfAdds
  <1> HIDE DEF s2
  <1>5. IsList(s3) /\ Keeps(s2, s3, "network") /\ AddsIf(s2, s3, "network", n.net)
    BY <1>4, ItemIfAdds
  <1> HIDE DEF s3
  <1>6. IsList(s4) /\ Extends(s3, s4, {"ws-opts", "http-opts", "h2-opts"})
    BY <1>5, OptsExtend
  <1> HIDE DEF s4
  <1>7. Held(s4, "vmess", n, Scv(n, ext))
    <2>1. Held(s0, "vmess", n, Scv(n, ext))
      BY <1>2 DEF Shared, Held
    <2>2. Held(s1, "vmess", n, Scv(n, ext))
      BY <1>3, <2>1, HeldKept
    <2>3. Held(s2, "vmess", n, Scv(n, ext))
      BY <1>4, <2>2, HeldKept
    <2>4. Held(s3, "vmess", n, Scv(n, ext))
      BY <1>5, <2>3, HeldKept
    <2>5. Held(s4, "vmess", n, Scv(n, ext))
      BY <1>6, <2>4 DEF Extends, Held
    <2> QED
      BY <2>5
  <1>8. /\ Opt(s4, "uuid") = n.user
        /\ Opt(s4, "cipher") = n.cipher
        /\ Opt(s4, "network") = n.net
        /\ Opt(s4, "tls") = ""
    <2>1. Opt(s4, "uuid") = n.user
      <3>1. Opt(s0, "uuid") = ""
        BY <1>2 DEF Shared
      <3>2. Opt(s1, "uuid") = n.user
        BY <3>1, <1>3 DEF AddsIf
      <3> QED
        BY <3>2, <1>4, <1>5, <1>6 DEF Extends, Keeps
    <2>2. Opt(s4, "cipher") = n.cipher
      <3>1. Opt(s1, "cipher") = ""
        BY <1>2, <1>3 DEF Keeps, Shared
      <3>2. Opt(s2, "cipher") = n.cipher
        BY <3>1, <1>4 DEF AddsIf
      <3> QED
        BY <3>2, <1>5, <1>6 DEF Extends, Keeps
    <2>3. Opt(s4, "network") = n.net
      <3>1. Opt(s2, "network") = ""
        BY <1>2, <1>3, <1>4 DEF Keeps, Shared
      <3>2. Opt(s3, "network") = n.net
        BY <3>1, <1>5 DEF AddsIf
      <3> QED
        BY <3>2, <1>6 DEF Extends
    <2>4. Opt(s4, "tls") = ""
      <3>1. Opt(s2, "tls") = ""
        BY <1>2, <1>3, <1>4 DEF Keeps, Shared
      <3> QED
        BY <3>1, <1>5, <1>6 DEF Extends, Keeps
    <2> QED
      BY <2>1, <2>2, <2>3, <2>4
  <1>9. Required("vmess") \subseteq KeysOf(s4) \cup {"type"} <=> (n.user # "" /\ n.cipher # "")
    <2>1. Required("vmess") = {"server", "port", "uuid", "cipher"}
      BY DEF Required
    <2> QED
      BY <2>1, <1>2, <1>3, <1>4, <1>5, <1>6 DEF AddsIf, Extends, Keeps, Shared
  <1>10. ASSUME NEW e, Reads(e, s4, name) PROVE ToldByClash(InputOf("vmess", e), name, n)
    <2> DEFINE m == InputOf("vmess", e)
    <2>1. /\ m.type = "vmess" /\ m.name = e.name
          /\ m.server = Opt(e.items, "server") /\ m.port = Opt(e.items, "port")
          /\ m.scv = Flag(Opt(e.items, "skip-cert-verify"))
          /\ m.tls = (Opt(e.items, "tls") = "true")
      BY DEF InputOf, InputVMess, BaseScv, Base, CommonConstruct
    <2>2. /\ m.user = Opt(e.items, "uuid")
          /\ m.cipher = Opt(e.items, "cipher")
          /\ m.net = Opt(e.items, "network")
      BY DEF InputOf, InputVMess, BaseScv, Base, CommonConstruct
    <2> HIDE DEF m
    <2>3. /\ m.name = name /\ m.server = n.server /\ m.port = n.port
          /\ m.user = n.user
          /\ m.cipher = n.cipher
          /\ m.net = n.net
      BY <1>7, <1>8, <1>10, <2>1, <2>2 DEF Reads, Held
    <2>4. m.scv = "true" <=> n.type \notin {"snell", "wireguard"} /\ Asked(n)
      BY <1>7, <1>10, <2>1, AskedFlag DEF Reads, Held
    <2>5. m.tls <=> n.type = "vless" /\ n.tls
      BY <1>8, <1>10, <2>1 DEF Reads, TextOf
    <2> QED
      BY <2>1, <2>3, <2>4, <2>5 DEF ToldByClash, m
  <1>11. n.port # "0" => ((Required("vmess") \subseteq KeysOf(s4) \cup {"type"}) <=> Legible(n))
    BY <1>9 DEF Legible
  <1> QED
    BY <1>1, <1>6, <1>7, <1>10, <1>11, ToldByEntry DEF Held

LEMMA TrojanEntry ==
  ASSUME NEW n, NodeOK(n), n.type = "trojan", ext \in Exts, NEW name
  PROVE  EntryTold(OutputTrojan(n, ext), name, n)
  <1> DEFINE s0 == Common("trojan", n, Scv(n, ext))
             s1 == s0 \o Item("sni", n.sni)
             s2 == s1 \o Item("password", n.secret)
             s3 == s2 \o Item("network", n.net)
             s4 == s3 \o Given(n.net = "ws", Item("ws-opts", n.host))
  <1>1. OutputTrojan(n, ext) = s4
    BY DEF OutputTrojan
  <1>2. IsList(s0) /\ Shared(s0, "trojan", n, Scv(n, ext))
    BY CommonShared
  <1> HIDE DEF s0
  <1>3. IsList(s1) /\ Keeps(s0, s1, "sni") /\ AddsIf(s0, s1, "sni", n.sni)
    BY <1>2, ItemIfAdds
  <1> HIDE DEF s1
  <1>4. IsList(s2) /\ Keeps(s1, s2, "password") /\ AddsIf(s1, s2, "password", n.secret)
    BY <1>3, ItemIfAdds
  <1> HIDE DEF s2
  <1>5. IsList(s3) /\ Keeps(s2, s3, "network") /\ AddsIf(s2, s3, "network", n.net)
    BY <1>4, ItemIfAdds
  <1> HIDE DEF s3
  <1>6. IsList(s4) /\ Extends(s3, s4, {"ws-opts"})
    BY <1>5, WsExtends
  <1> HIDE DEF s4
  <1>7. Held(s4, "trojan", n, Scv(n, ext))
    <2>1. Held(s0, "trojan", n, Scv(n, ext))
      BY <1>2 DEF Shared, Held
    <2>2. Held(s1, "trojan", n, Scv(n, ext))
      BY <1>3, <2>1, HeldKept
    <2>3. Held(s2, "trojan", n, Scv(n, ext))
      BY <1>4, <2>2, HeldKept
    <2>4. Held(s3, "trojan", n, Scv(n, ext))
      BY <1>5, <2>3, HeldKept
    <2>5. Held(s4, "trojan", n, Scv(n, ext))
      BY <1>6, <2>4 DEF Extends, Held
    <2> QED
      BY <2>5
  <1>8. /\ Opt(s4, "sni") = n.sni
        /\ Opt(s4, "password") = n.secret
        /\ Opt(s4, "network") = n.net
    <2>1. Opt(s4, "sni") = n.sni
      <3>1. Opt(s0, "sni") = ""
        BY <1>2 DEF Shared
      <3>2. Opt(s1, "sni") = n.sni
        BY <3>1, <1>3 DEF AddsIf
      <3> QED
        BY <3>2, <1>4, <1>5, <1>6 DEF Extends, Keeps
    <2>2. Opt(s4, "password") = n.secret
      <3>1. Opt(s1, "password") = ""
        BY <1>2, <1>3 DEF Keeps, Shared
      <3>2. Opt(s2, "password") = n.secret
        BY <3>1, <1>4 DEF AddsIf
      <3> QED
        BY <3>2, <1>5, <1>6 DEF Extends, Keeps
    <2>3. Opt(s4, "network") = n.net
      <3>1. Opt(s2, "network") = ""
        BY <1>2, <1>3, <1>4 DEF Keeps, Shared
      <3>2. Opt(s3, "network") = n.net
        BY <3>1, <1>5 DEF AddsIf
      <3> QED
        BY <3>2, <1>6 DEF Extends
    <2> QED
      BY <2>1, <2>2, <2>3
  <1>9. Required("trojan") \subseteq KeysOf(s4) \cup {"type"} <=> (n.secret # "")
    <2>1. Required("trojan") = {"server", "port", "password"}
      BY DEF Required
    <2> QED
      BY <2>1, <1>2, <1>3, <1>4, <1>5, <1>6 DEF AddsIf, Extends, Keeps, Shared
  <1>10. ASSUME NEW e, Reads(e, s4, name) PROVE ToldByClash(InputOf("trojan", e), name, n)
    <2> DEFINE m == InputOf("trojan", e)
    <2>1. /\ m.type = "trojan" /\ m.name = e.name
          /\ m.server = Opt(e.items, "server") /\ m.port = Opt(e.items, "port")
          /\ m.scv = Flag(Opt(e.items, "skip-cert-verify"))
          /\ m.tls = FALSE
      BY DEF InputOf, InputTrojan, BaseScv, Base, CommonConstruct
    <2>2. /\ m.sni = Opt(e.items, "sni")
          /\ m.secret = Opt(e.items, "password")
          /\ m.net = Opt(e.items, "network")
      BY DEF InputOf, InputTrojan, BaseScv, Base, CommonConstruct
    <2> HIDE DEF m
    <2>3. /\ m.name = name /\ m.server = n.server /\ m.port = n.port
          /\ m.sni = n.sni
          /\ m.secret = n.secret
          /\ m.net = n.net
      BY <1>7, <1>8, <1>10, <2>1, <2>2 DEF Reads, Held
    <2>4. m.scv = "true" <=> n.type \notin {"snell", "wireguard"} /\ Asked(n)
      BY <1>7, <1>10, <2>1, AskedFlag DEF Reads, Held
    <2>5. m.tls <=> n.type = "vless" /\ n.tls
      BY <2>1
    <2> QED
      BY <2>1, <2>3, <2>4, <2>5 DEF ToldByClash, m
  <1>11. n.port # "0" => ((Required("trojan") \subseteq KeysOf(s4) \cup {"type"}) <=> Legible(n))
    BY <1>9 DEF Legible
  <1> QED
    BY <1>1, <1>6, <1>7, <1>10, <1>11, ToldByEntry DEF Held

LEMMA HttpEntry ==
  ASSUME NEW n, NodeOK(n), n.type = "http", ext \in Exts, NEW name
  PROVE  EntryTold(OutputHttp(n, ext), name, n)
  <1> DEFINE s0 == Common("http", n, Scv(n, ext))
             s1 == s0 \o << <<"tls", TextOf(n.type = "https")>> >>
             s2 == s1 \o Item("username", n.user)
             s3 == s2 \o Item("password", n.secret)
  <1>1. OutputHttp(n, ext) = s3
    BY DEF OutputHttp
  <1>2. IsList(s0) /\ Shared(s0, "http", n, Scv(n, ext))
    BY CommonShared
  <1> HIDE DEF s0
  <1>3. IsList(s1) /\ Keeps(s0, s1, "tls") /\ Adds(s0, s1, "tls", TextOf(n.type = "https"))
    BY <1>2, ItemAdds
  <1> HIDE DEF s1
  <1>4. IsList(s2) /\ Keeps(s1, s2, "username") /\ AddsIf(s1, s2, "username", n.user)
    BY <1>3, ItemIfAdds
  <1> HIDE DEF s2
  <1>5. IsList(s3) /\ Keeps(s2, s3, "password") /\ AddsIf(s2, s3, "password", n.secret)
    BY <1>4, ItemIfAdds
  <1> HIDE DEF s3
  <1>6. Held(s3, "http", n, Scv(n, ext))
    <2>1. Held(s0, "http", n, Scv(n, ext))
      BY <1>2 DEF Shared, Held
    <2>2. Held(s1, "http", n, Scv(n, ext))
      BY <1>3, <2>1, HeldKept
    <2>3. Held(s2, "http", n, Scv(n, ext))
      BY <1>4, <2>2, HeldKept
    <2>4. Held(s3, "http", n, Scv(n, ext))
      BY <1>5, <2>3, HeldKept
    <2> QED
      BY <2>4
  <1>7. /\ Opt(s3, "username") = n.user
        /\ Opt(s3, "password") = n.secret
        /\ Opt(s3, "tls") = TextOf(n.type = "https")
    <2>1. Opt(s3, "username") = n.user
      <3>1. Opt(s1, "username") = ""
        BY <1>2, <1>3 DEF Keeps, Shared
      <3>2. Opt(s2, "username") = n.user
        BY <3>1, <1>4 DEF AddsIf
      <3> QED
        BY <3>2, <1>5 DEF Keeps
    <2>2. Opt(s3, "password") = n.secret
      <3>1. Opt(s2, "password") = ""
        BY <1>2, <1>3, <1>4 DEF Keeps, Shared
      <3> QED
        BY <3>1, <1>5 DEF AddsIf
    <2>3. Opt(s3, "tls") = TextOf(n.type = "https")
      <3>1. Opt(s1, "tls") = TextOf(n.type = "https")
        BY <1>3 DEF Adds
      <3> QED
        BY <3>1, <1>4, <1>5 DEF Keeps
    <2> QED
      BY <2>1, <2>2, <2>3
  <1>8. Required("http") \subseteq KeysOf(s3) \cup {"type"} <=> (TRUE)
    <2>1. Required("http") = {"server", "port"}
      BY DEF Required
    <2> QED
      BY <2>1, <1>2, <1>3, <1>4, <1>5 DEF Adds, AddsIf, Keeps, Shared
  <1>9. ASSUME NEW e, Reads(e, s3, name) PROVE ToldByClash(InputOf("http", e), name, n)
    <2> DEFINE m == InputOf("http", e)
    <2>1. Opt(e.items, "tls") = "false"
      BY <1>7, <1>9 DEF Reads, TextOf
    <2>2. /\ m.type = "http" /\ m.name = e.name
          /\ m.server = Opt(e.items, "server") /\ m.port = Opt(e.items, "port")
          /\ m.scv = Flag(Opt(e.items, "skip-cert-verify"))
          /\ m.tls = FALSE
      BY <2>1 DEF InputOf, InputHttp, BaseScv, Base, CommonConstruct
    <2>3. /\ m.user = Opt(e.items, "username")
          /\ m.secret = Opt(e.items, "password")
      BY <2>1 DEF InputOf, InputHttp, BaseScv, Base, CommonConstruct
    <2> HIDE DEF m
    <2>4. /\ m.name = name /\ m.server = n.server /\ m.port = n.port
          /\ m.user = n.user
          /\ m.secret = n.secret
      BY <1>6, <1>7, <1>9, <2>2, <2>3 DEF Reads, Held
    <2>5. m.scv = "true" <=> n.type \notin {"snell", "wireguard"} /\ Asked(n)
      BY <1>6, <1>9, <2>2, AskedFlag DEF Reads, Held
    <2>6. m.tls <=> n.type = "vless" /\ n.tls
      BY <2>2
    <2> QED
      BY <2>2, <2>4, <2>5, <2>6 DEF ToldByClash, m
  <1>10. n.port # "0" => ((Required("http") \subseteq KeysOf(s3) \cup {"type"}) <=> Legible(n))
    BY <1>8 DEF Legible
  <1> QED
    BY <1>1, <1>5, <1>6, <1>9, <1>10, ToldByEntry DEF Held

LEMMA Socks5Entry ==
  ASSUME NEW n, NodeOK(n), n.type = "socks5", ext \in Exts, NEW name
  PROVE  EntryTold(OutputSocks5(n, ext), name, n)
  <1> DEFINE s0 == Common("socks5", n, Scv(n, ext))
             s1 == s0 \o Item("username", n.user)
             s2 == s1 \o Item("password", n.secret)
  <1>1. OutputSocks5(n, ext) = s2
    BY DEF OutputSocks5
  <1>2. IsList(s0) /\ Shared(s0, "socks5", n, Scv(n, ext))
    BY CommonShared
  <1> HIDE DEF s0
  <1>3. IsList(s1) /\ Keeps(s0, s1, "username") /\ AddsIf(s0, s1, "username", n.user)
    BY <1>2, ItemIfAdds
  <1> HIDE DEF s1
  <1>4. IsList(s2) /\ Keeps(s1, s2, "password") /\ AddsIf(s1, s2, "password", n.secret)
    BY <1>3, ItemIfAdds
  <1> HIDE DEF s2
  <1>5. Held(s2, "socks5", n, Scv(n, ext))
    <2>1. Held(s0, "socks5", n, Scv(n, ext))
      BY <1>2 DEF Shared, Held
    <2>2. Held(s1, "socks5", n, Scv(n, ext))
      BY <1>3, <2>1, HeldKept
    <2>3. Held(s2, "socks5", n, Scv(n, ext))
      BY <1>4, <2>2, HeldKept
    <2> QED
      BY <2>3
  <1>6. /\ Opt(s2, "username") = n.user
        /\ Opt(s2, "password") = n.secret
    <2>1. Opt(s2, "username") = n.user
      BY <1>2, <1>3, <1>4 DEF AddsIf, Keeps, Shared
    <2>2. Opt(s2, "password") = n.secret
      BY <1>2, <1>3, <1>4 DEF AddsIf, Keeps, Shared
    <2> QED
      BY <2>1, <2>2
  <1>7. Required("socks5") \subseteq KeysOf(s2) \cup {"type"} <=> (TRUE)
    <2>1. Required("socks5") = {"server", "port"}
      BY DEF Required
    <2> QED
      BY <2>1, <1>2, <1>3, <1>4 DEF AddsIf, Keeps, Shared
  <1>8. ASSUME NEW e, Reads(e, s2, name) PROVE ToldByClash(InputOf("socks5", e), name, n)
    <2> DEFINE m == InputOf("socks5", e)
    <2>1. /\ m.type = "socks5" /\ m.name = e.name
          /\ m.server = Opt(e.items, "server") /\ m.port = Opt(e.items, "port")
          /\ m.scv = Flag(Opt(e.items, "skip-cert-verify"))
          /\ m.tls = FALSE
      BY DEF InputOf, InputSocks5, BaseScv, Base, CommonConstruct
    <2>2. /\ m.user = Opt(e.items, "username")
          /\ m.secret = Opt(e.items, "password")
      BY DEF InputOf, InputSocks5, BaseScv, Base, CommonConstruct
    <2> HIDE DEF m
    <2>3. /\ m.name = name /\ m.server = n.server /\ m.port = n.port
          /\ m.user = n.user
          /\ m.secret = n.secret
      BY <1>5, <1>6, <1>8, <2>1, <2>2 DEF Reads, Held
    <2>4. m.scv = "true" <=> n.type \notin {"snell", "wireguard"} /\ Asked(n)
      BY <1>5, <1>8, <2>1, AskedFlag DEF Reads, Held
    <2>5. m.tls <=> n.type = "vless" /\ n.tls
      BY <2>1
    <2> QED
      BY <2>1, <2>3, <2>4, <2>5 DEF ToldByClash, m
  <1>9. n.port # "0" => ((Required("socks5") \subseteq KeysOf(s2) \cup {"type"}) <=> Legible(n))
    BY <1>7 DEF Legible
  <1> QED
    BY <1>1, <1>4, <1>5, <1>8, <1>9, ToldByEntry DEF Held

LEMMA SnellEntry ==
  ASSUME NEW n, NodeOK(n), n.type = "snell", ext \in Exts, NEW name
  PROVE  EntryTold(OutputSnell(n, ext), name, n)
  <1> DEFINE s0 == Common("snell", n, Scv(n, ext))
             s1 == s0 \o Item("psk", n.secret)
             s2 == s1 \o << <<"version", "1">> >>
             s3 == s2 \o Item("obfs", n.obfs)
  <1>1. OutputSnell(n, ext) = s3
    BY DEF OutputSnell
  <1>2. IsList(s0) /\ Shared(s0, "snell", n, Scv(n, ext))
    BY CommonShared
  <1> HIDE DEF s0
  <1>3. IsList(s1) /\ Keeps(s0, s1, "psk") /\ AddsIf(s0, s1, "psk", n.secret)
    BY <1>2, ItemIfAdds
  <1> HIDE DEF s1
  <1>4. IsList(s2) /\ Keeps(s1, s2, "version") /\ Adds(s1, s2, "version", "1")
    BY <1>3, ItemAdds
  <1> HIDE DEF s2
  <1>5. IsList(s3) /\ Keeps(s2, s3, "obfs") /\ AddsIf(s2, s3, "obfs", n.obfs)
    BY <1>4, ItemIfAdds
  <1> HIDE DEF s3
  <1>6. Held(s3, "snell", n, Scv(n, ext))
    <2>1. Held(s0, "snell", n, Scv(n, ext))
      BY <1>2 DEF Shared, Held
    <2>2. Held(s1, "snell", n, Scv(n, ext))
      BY <1>3, <2>1, HeldKept
    <2>3. Held(s2, "snell", n, Scv(n, ext))
      BY <1>4, <2>2, HeldKept
    <2>4. Held(s3, "snell", n, Scv(n, ext))
      BY <1>5, <2>3, HeldKept
    <2> QED
      BY <2>4
  <1>7. /\ Opt(s3, "psk") = n.secret
        /\ Opt(s3, "obfs") = n.obfs
    <2>1. Opt(s3, "psk") = n.secret
      <3>1. Opt(s0, "psk") = ""
        BY <1>2 DEF Shared
      <3>2. Opt(s1, "psk") = n.secret
        BY <3>1, <1>3 DEF AddsIf
      <3> QED
        BY <3>2, <1>4, <1>5 DEF Keeps
    <2>2. Opt(s3, "obfs") = n.obfs
      <3>1. Opt(s2, "obfs") = ""
        BY <1>2, <1>3, <1>4 DEF Keeps, Shared
      <3> QED
        BY <3>1, <1>5 DEF AddsIf
    <2> QED
      BY <2>1, <2>2
  <1>8. Required("snell") \subseteq KeysOf(s3) \cup {"type"} <=> (n.secret # "")
    <2>1. Required("snell") = {"server", "port", "psk"}
      BY DEF Required
    <2> QED
      BY <2>1, <1>2, <1>3, <1>4, <1>5 DEF Adds, AddsIf, Keeps, Shared
  <1>9. ASSUME NEW e, Reads(e, s3, name) PROVE ToldByClash(InputOf("snell", e), name, n)
    <2> DEFINE m == InputOf("snell", e)
    <2>1. /\ m.type = "snell" /\ m.name = e.name
          /\ m.server = Opt(e.items, "server") /\ m.port = Opt(e.items, "port")
          /\ m.scv = ""
          /\ m.tls = FALSE
      BY DEF InputOf, InputSnell, Base, CommonConstruct
    <2>2. /\ m.secret = Opt(e.items, "psk")
          /\ m.obfs = Opt(e.items, "obfs")
      BY DEF InputOf, InputSnell, Base, CommonConstruct
    <2> HIDE DEF m
    <2>3. /\ m.name = name /\ m.server = n.server /\ m.port = n.port
          /\ m.secret = n.secret
          /\ m.obfs = n.obfs
      BY <1>6, <1>7, <1>9, <2>1, <2>2 DEF Reads, Held
    <2>4. m.scv = "true" <=> n.type \notin {"snell", "wireguard"} /\ Asked(n)
      BY <1>6, <1>9, <2>1, AskedFlag DEF Reads, Held
    <2>5. m.tls <=> n.type = "vless" /\ n.tls
      BY <2>1
    <2> QED
      BY <2>1, <2>3, <2>4, <2>5 DEF ToldByClash, m
  <1>10. n.port # "0" => ((Required("snell") \subseteq KeysOf(s3) \cup {"type"}) <=> Legible(n))
    BY <1>8 DEF Legible
  <1> QED
    BY <1>1, <1>5, <1>6, <1>9, <1>10, ToldByEntry DEF Held

LEMMA WireGuardEntry ==
  ASSUME NEW n, NodeOK(n), n.type = "wireguard", ext \in Exts, NEW name
  PROVE  EntryTold(OutputWireGuard(n, ext), name, n)
  <1> DEFINE s0 == Common("wireguard", n, Scv(n, ext))
             s1 == s0 \o Item("private-key", n.secret)
             s2 == s1 \o Item("public-key", n.user)
  <1>1. OutputWireGuard(n, ext) = s2
    BY DEF OutputWireGuard
  <1>2. IsList(s0) /\ Shared(s0, "wireguard", n, Scv(n, ext))
    BY CommonShared
  <1> HIDE DEF s0
  <1>3. IsList(s1) /\ Keeps(s0, s1, "private-key") /\ AddsIf(s0, s1, "private-key", n.secret)
    BY <1>2, ItemIfAdds
  <1> HIDE DEF s1
  <1>4. IsList(s2) /\ Keeps(s1, s2, "public-key") /\ AddsIf(s1, s2, "public-key", n.user)
    BY <1>3, ItemIfAdds
  <1> HIDE DEF s2
  <1>5. Held(s2, "wireguard", n, Scv(n, ext))
    <2>1. Held(s0, "wireguard", n, Scv(n, ext))
      BY <1>2 DEF Shared, Held
    <2>2. Held(s1, "wireguard", n, Scv(n, ext))
      BY <1>3, <2>1, HeldKept
    <2>3. Held(s2, "wireguard", n, Scv(n, ext))
      BY <1>4, <2>2, HeldKept
    <2> QED
      BY <2>3
  <1>6. /\ Opt(s2, "private-key") = n.secret
        /\ Opt(s2, "public-key") = n.user
    <2>1. Opt(s2, "private-key") = n.secret
      BY <1>2, <1>3, <1>4 DEF AddsIf, Keeps, Shared
    <2>2. Opt(s2, "public-key") = n.user
      BY <1>2, <1>3, <1>4 DEF AddsIf, Keeps, Shared
    <2> QED
      BY <2>1, <2>2
  <1>7. Required("wireguard") \subseteq KeysOf(s2) \cup {"type"} <=> (n.secret # "" /\ n.user # "")
    <2>1. Required("wireguard") = {"server", "port", "private-key", "public-key"}
      BY DEF Required
    <2> QED
      BY <2>1, <1>2, <1>3, <1>4 DEF AddsIf, Keeps, Shared
  <1>8. ASSUME NEW e, Reads(e, s2, name) PROVE ToldByClash(InputOf("wireguard", e), name, n)
    <2> DEFINE m == InputOf("wireguard", e)
    <2>1. /\ m.type = "wireguard" /\ m.name = e.name
          /\ m.server = Opt(e.items, "server") /\ m.port = Opt(e.items, "port")
          /\ m.scv = ""
          /\ m.tls = FALSE
      BY DEF InputOf, InputWireGuard, Base, CommonConstruct
    <2>2. /\ m.secret = Opt(e.items, "private-key")
          /\ m.user = Opt(e.items, "public-key")
      BY DEF InputOf, InputWireGuard, Base, CommonConstruct
    <2> HIDE DEF m
    <2>3. /\ m.name = name /\ m.server = n.server /\ m.port = n.port
          /\ m.secret = n.secret
          /\ m.user = n.user
      BY <1>5, <1>6, <1>8, <2>1, <2>2 DEF Reads, Held
    <2>4. m.scv = "true" <=> n.type \notin {"snell", "wireguard"} /\ Asked(n)
      BY <1>5, <1>8, <2>1, AskedFlag DEF Reads, Held
    <2>5. m.tls <=> n.type = "vless" /\ n.tls
      BY <2>1
    <2> QED
      BY <2>1, <2>3, <2>4, <2>5 DEF ToldByClash, m
  <1>9. n.port # "0" => ((Required("wireguard") \subseteq KeysOf(s2) \cup {"type"}) <=> Legible(n))
    BY <1>7 DEF Legible
  <1> QED
    BY <1>1, <1>4, <1>5, <1>8, <1>9, ToldByEntry DEF Held

LEMMA HysteriaEntry ==
  ASSUME NEW n, NodeOK(n), n.type = "hysteria", ext \in Exts, NEW name
  PROVE  EntryTold(OutputHysteria(n, ext), name, n)
  <1> DEFINE s0 == Common("hysteria", n, Scv(n, ext))
             s1 == s0 \o Item("sni", n.sni)
             s2 == s1 \o Item("obfs-protocol", n.obfs)
             s3 == s2 \o Item("auth-str", n.secret)
             s4 == s3 \o Item("obfs", n.obfs)
  <1>1. OutputHysteria(n, ext) = s4
    BY DEF OutputHysteria
  <1>2. IsList(s0) /\ Shared(s0, "hysteria", n, Scv(n, ext))
    BY CommonShared
  <1> HIDE DEF s0
  <1>3. IsList(s1) /\ Keeps(s0, s1, "sni") /\ AddsIf(s0, s1, "sni", n.sni)
    BY <1>2, ItemIfAdds
  <1> HIDE DEF s1
  <1>4. IsList(s2) /\ Keeps(s1, s2, "obfs-protocol") /\ AddsIf(s1, s2, "obfs-protocol", n.obfs)
    BY <1>3, ItemIfAdds
  <1> HIDE DEF s2
  <1>5. IsList(s3) /\ Keeps(s2, s3, "auth-str") /\ AddsIf(s2, s3, "auth-str", n.secret)
    BY <1>4, ItemIfAdds
  <1> HIDE DEF s3
  <1>6. IsList(s4) /\ Keeps(s3, s4, "obfs") /\ AddsIf(s3, s4, "obfs", n.obfs)
    BY <1>5, ItemIfAdds
  <1> HIDE DEF s4
  <1>7. Held(s4, "hysteria", n, Scv(n, ext))
    <2>1. Held(s0, "hysteria", n, Scv(n, ext))
      BY <1>2 DEF Shared, Held
    <2>2. Held(s1, "hysteria", n, Scv(n, ext))
      BY <1>3, <2>1, HeldKept
    <2>3. Held(s2, "hysteria", n, Scv(n, ext))
      BY <1>4, <2>2, HeldKept
    <2>4. Held(s3, "hysteria", n, Scv(n, ext))
      BY <1>5, <2>3, HeldKept
    <2>5. Held(s4, "hysteria", n, Scv(n, ext))
      BY <1>6, <2>4, HeldKept
    <2> QED
      BY <2>5
  <1>8. /\ Opt(s4, "sni") = n.sni
        /\ Opt(s4, "auth-str") = n.secret
        /\ Opt(s4, "obfs") = n.obfs
    <2>1. Opt(s4, "sni") = n.sni
      <3>1. Opt(s0, "sni") = ""
        BY <1>2 DEF Shared
      <3>2. Opt(s1, "sni") = n.sni
        BY <3>1, <1>3 DEF AddsIf
      <3> QED
        BY <3>2, <1>4, <1>5, <1>6 DEF Keeps
    <2>2. Opt(s4, "auth-str") = n.secret
      <3>1. Opt(s2, "auth-str") = ""
        BY <1>2, <1>3, <1>4 DEF Keeps, Shared
      <3>2. Opt(s3, "auth-str") = n.secret
        BY <3>1, <1>5 DEF AddsIf
      <3> QED
        BY <3>2, <1>6 DEF Keeps
    <2>3. Opt(s4, "obfs") = n.obfs
      <3>1. Opt(s2, "obfs") = ""
        BY <1>2, <1>3, <1>4 DEF Keeps, Shared
      <3>2. Opt(s3, "obfs") = ""
        BY <3>1, <1>5 DEF Keeps
      <3> QED
        BY <3>2, <1>6 DEF AddsIf
    <2> QED
      BY <2>1, <2>2, <2>3
  <1>9. Required("hysteria") \subseteq KeysOf(s4) \cup {"type"} <=> (TRUE)
    <2>1. Required("hysteria") = {"server", "port"}
      BY DEF Required
    <2> QED
      BY <2>1, <1>2, <1>3, <1>4, <1>5, <1>6 DEF AddsIf, Keeps, Shared
  <1>10. ASSUME NEW e, Reads(e, s4, name) PROVE ToldByClash(InputOf("hysteria", e), name, n)
    <2> DEFINE m == InputOf("hysteria", e)
    <2>1. /\ m.type = "hysteria" /\ m.name = e.name
          /\ m.server = Opt(e.items, "server") /\ m.port = Opt(e.items, "port")
          /\ m.scv = Flag(Opt(e.items, "skip-cert-verify"))
          /\ m.tls = FALSE
      BY DEF InputOf, InputHysteria, BaseScv, Base, CommonConstruct
    <2>2. /\ m.sni = Opt(e.items, "sni")
          /\ m.secret = Opt(e.items, "auth-str")
          /\ m.obfs = Opt(e.items, "obfs")
      BY DEF InputOf, InputHysteria, BaseScv, Base, CommonConstruct
    <2> HIDE DEF m
    <2>3. /\ m.name = name /\ m.server = n.server /\ m.port = n.port
          /\ m.sni = n.sni
          /\ m.secret = n.secret
          /\ m.obfs = n.obfs
      BY <1>7, <1>8, <1>10, <2>1, <2>2 DEF Reads, Held
    <2>4. m.scv = "true" <=> n.type \notin {"snell", "wireguard"} /\ Asked(n)
      BY <1>7, <1>10, <2>1, AskedFlag DEF Reads, Held
    <2>5. m.tls <=> n.type = "vless" /\ n.tls
      BY <2>1
    <2> QED
      BY <2>1, <2>3, <2>4, <2>5 DEF ToldByClash, m
  <1>11. n.port # "0" => ((Required("hysteria") \subseteq KeysOf(s4) \cup {"type"}) <=> Legible(n))
    BY <1>9 DEF Legible
  <1> QED
    BY <1>1, <1>6, <1>7, <1>10, <1>11, ToldByEntry DEF Held

LEMMA Hysteria2Entry ==
  ASSUME NEW n, NodeOK(n), n.type = "hysteria2", ext \in Exts, NEW name
  PROVE  EntryTold(OutputHysteria2(n, ext), name, n)
  <1> DEFINE s0 == Common("hysteria2", n, Scv(n, ext))
             s1 == s0 \o Item("sni", n.sni)
             s2 == s1 \o Item("password", n.secret)
             s3 == s2 \o Item("obfs", n.obfs)
  <1>1. OutputHysteria2(n, ext) = s3
    BY DEF OutputHysteria2
  <1>2. IsList(s0) /\ Shared(s0, "hysteria2", n, Scv(n, ext))
    BY CommonShared
  <1> HIDE DEF s0
  <1>3. IsList(s1) /\ Keeps(s0, s1, "sni") /\ AddsIf(s0, s1, "sni", n.sni)
    BY <1>2, ItemIfAdds
  <1> HIDE DEF s1
  <1>4. IsList(s2) /\ Keeps(s1, s2, "password") /\ AddsIf(s1, s2, "password", n.secret)
    BY <1>3, ItemIfAdds
  <1> HIDE DEF s2
  <1>5. IsList(s3) /\ Keeps(s2, s3, "obfs") /\ AddsIf(s2, s3, "obfs", n.obfs)
    BY <1>4, ItemIfAdds
  <1> HIDE DEF s3
  <1>6. Held(s3, "hysteria2", n, Scv(n, ext))
    <2>1. Held(s0, "hysteria2", n, Scv(n, ext))
      BY <1>2 DEF Shared, Held
    <2>2. Held(s1, "hysteria2", n, Scv(n, ext))
      BY <1>3, <2>1, HeldKept
    <2>3. Held(s2, "hysteria2", n, Scv(n, ext))
      BY <1>4, <2>2, HeldKept
    <2>4. Held(s3, "hysteria2", n, Scv(n, ext))
      BY <1>5, <2>3, HeldKept
    <2> QED
      BY <2>4
  <1>7. /\ Opt(s3, "sni") = n.sni
        /\ Opt(s3, "password") = n.secret
        /\ Opt(s3, "obfs") = n.obfs
    <2>1. Opt(s3, "sni") = n.sni
      <3>1. Opt(s0, "sni") = ""
        BY <1>2 DEF Shared
      <3>2. Opt(s1, "sni") = n.sni
        BY <3>1, <1>3 DEF AddsIf
      <3> QED
        BY <3>2, <1>4, <1>5 DEF Keeps
    <2>2. Opt(s3, "password") = n.secret
      <3>1. Opt(s1, "password") = ""
        BY <1>2, <1>3 DEF Keeps, Shared
      <3>2. Opt(s2, "password") = n.secret
        BY <3>1, <1>4 DEF AddsIf
      <3> QED
        BY <3>2, <1>5 DEF Keeps
    <2>3. Opt(s3, "obfs") = n.obfs
      <3>1. Opt(s2, "obfs") = ""
        BY <1>2, <1>3, <1>4 DEF Keeps, Shared
      <3> QED
        BY <3>1, <1>5 DEF AddsIf
    <2> QED
      BY <2>1, <2>2, <2>3
  <1>8. Required("hysteria2") \subseteq KeysOf(s3) \cup {"type"} <=> (n.secret # "")
    <2>1. Required("hysteria2") = {"server", "port", "password"}
      BY DEF Required
    <2> QED
      BY <2>1, <1>2, <1>3, <1>4, <1>5 DEF AddsIf, Keeps, Shared
  <1>9. ASSUME NEW e, Reads(e, s3, name) PROVE ToldByClash(InputOf("hysteria2", e), name, n)
    <2> DEFINE m == InputOf("hysteria2", e)
    <2>1. /\ m.type = "hysteria2" /\ m.name = e.name
          /\ m.server = Opt(e.items, "server") /\ m.port = Opt(e.items, "port")
          /\ m.scv = Flag(Opt(e.items, "skip-cert-verify"))
          /\ m.tls = FALSE
      BY DEF InputOf, InputHysteria2, BaseScv, Base, CommonConstruct
    <2>2. /\ m.sni = Opt(e.items, "sni")
          /\ m.secret = Opt(e.items, "password")
          /\ m.obfs = Opt(e.items, "obfs")
      BY DEF InputOf, InputHysteria2, BaseScv, Base, CommonConstruct
    <2> HIDE DEF m
    <2>3. /\ m.name = name /\ m.server = n.server /\ m.port = n.port
          /\ m.sni = n.sni
          /\ m.secret = n.secret
          /\ m.obfs = n.obfs
      BY <1>6, <1>7, <1>9, <2>1, <2>2 DEF Reads, Held
    <2>4. m.scv = "true" <=> n.type \notin {"snell", "wireguard"} /\ Asked(n)
      BY <1>6, <1>9, <2>1, AskedFlag DEF Reads, Held
    <2>5. m.tls <=> n.type = "vless" /\ n.tls
      BY <2>1
    <2> QED
      BY <2>1, <2>3, <2>4, <2>5 DEF ToldByClash, m
  <1>10. n.port # "0" => ((Required("hysteria2") \subseteq KeysOf(s3) \cup {"type"}) <=> Legible(n))
    BY <1>8 DEF Legible
  <1> QED
    BY <1>1, <1>5, <1>6, <1>9, <1>10, ToldByEntry DEF Held

LEMMA VLessEntry ==
  ASSUME NEW n, NodeOK(n), n.type = "vless", ext \in Exts, NEW name
  PROVE  EntryTold(OutputVLess(n, ext), name, n)
  <1> DEFINE s0 == Common("vless", n, ext.scv)
             s1 == s0 \o << <<"uuid", n.user>> >>
             s2 == s1 \o << <<"tls", TextOf(n.tls)>> >>
             s3 == s2 \o Item("network", n.net)
             s4 == s3 \o Item("servername", n.sni)
             s5 == s4 \o Given(n.net \in DOMAIN OptsKey, Item(OptsKey[n.net], n.host))
  <1>1. OutputVLess(n, ext) = s5
    <2>1. IsList(s0)
      BY CommonShared
    <2> HIDE DEF s0
    <2> DEFINE p == <<"uuid", n.user>>
               q == <<"tls", TextOf(n.tls)>>
    <2>2. s0 \o << <<"uuid", n.user>>, <<"tls", TextOf(n.tls)>> >> = s2
      <3>1. s2 = (s0 \o <<p>>) \o <<q>>
        OBVIOUS
      <3> HIDE DEF p, q, s2
      <3>2. s0 \o <<p, q>> = (s0 \o <<p>>) \o <<q>>
        BY <2>1, TwoItems
      <3> QED
        BY <3>1, <3>2 DEF p, q
    <2> QED
      BY <2>2 DEF OutputVLess, s0
  <1>2. IsList(s0) /\ Shared(s0, "vless", n, ext.scv)
    BY CommonShared
  <1> HIDE DEF s0
  <1>3. IsList(s1) /\ Keeps(s0, s1, "uuid") /\ Adds(s0, s1, "uuid", n.user)
    BY <1>2, ItemAdds
  <1> HIDE DEF s1
  <1>4. IsList(s2) /\ Keeps(s1, s2, "tls") /\ Adds(s1, s2, "tls", TextOf(n.tls))
    BY <1>3, ItemAdds
  <1> HIDE DEF s2
  <1>5. IsList(s3) /\ Keeps(s2, s3, "network") /\ AddsIf(s2, s3, "network", n.net)
    BY <1>4, ItemIfAdds
  <1> HIDE DEF s3
  <1>6. IsList(s4) /\ Keeps(s3, s4, "servername") /\ AddsIf(s3, s4, "servername", n.sni)
    BY <1>5, ItemIfAdds
  <1> HIDE DEF s4
  <1>7. IsList(s5) /\ Extends(s4, s5, {"ws-opts", "http-opts", "h2-opts"})
    BY <1>6, OptsExtend
  <1> HIDE DEF s5
  <1>8. Held(s5, "vless", n, ext.scv)
    <2>1. Held(s0, "vless", n, ext.scv)
      BY <1>2 DEF Shared, Held
    <2>2. Held(s1, "vless", n, ext.scv)
      BY <1>3, <2>1, HeldKept
    <2>3. Held(s2, "vless", n, ext.scv)
      BY <1>4, <2>2, HeldKept
    <2>4. Held(s3, "vless", n, ext.scv)
      BY <1>5, <2>3, HeldKept
    <2>5. Held(s4, "vless", n, ext.scv)
      BY <1>6, <2>4, HeldKept
    <2>6. Held(s5, "vless", n, ext.scv)
      BY <1>7, <2>5 DEF Extends, Held
    <2> QED
      BY <2>6
  <1>9. /\ Opt(s5, "uuid") = n.user
        /\ Opt(s5, "network") = n.net
        /\ Opt(s5, "servername") = n.sni
        /\ Opt(s5, "tls") = TextOf(n.tls)
    <2>1. Opt(s5, "uuid") = n.user
      <3>1. Opt(s1, "uuid") = n.user
        BY <1>3 DEF Adds
      <3> QED
        BY <3>1, <1>4, <1>5, <1>6, <1>7 DEF Extends, Keeps
    <2>2. Opt(s5, "network") = n.net
      <3>1. Opt(s2, "network") = ""
        BY <1>2, <1>3, <1>4 DEF Keeps, Shared
      <3>2. Opt(s3, "network") = n.net
        BY <3>1, <1>5 DEF AddsIf
      <3> QED
        BY <3>2, <1>6, <1>7 DEF Extends, Keeps
    <2>3. Opt(s5, "servername") = n.sni
      <3>1. Opt(s2, "servername") = ""
        BY <1>2, <1>3, <1>4 DEF Keeps, Shared
      <3>2. Opt(s3, "servername") = ""
        BY <3>1, <1>5 DEF Keeps
      <3>3. Opt(s4, "servername") = n.sni
        BY <3>2, <1>6 DEF AddsIf
      <3> QED
        BY <3>3, <1>7 DEF Extends
    <2>4. Opt(s5, "tls") = TextOf(n.tls)
      <3>1. Opt(s2, "tls") = TextOf(n.tls)
        BY <1>4 DEF Adds
      <3> QED
        BY <3>1, <1>5, <1>6, <1>7 DEF Extends, Keeps
    <2> QED
      BY <2>1, <2>2, <2>3, <2>4
  <1>10. Required("vless") \subseteq KeysOf(s5) \cup {"type"} <=> (TRUE)
    <2>1. Required("vless") = {"server", "port", "uuid"}
      BY DEF Required
    <2> QED
      BY <2>1, <1>2, <1>3, <1>4, <1>5, <1>6, <1>7 DEF Adds, AddsIf, Extends, Keeps, Shared
  <1>11. ASSUME NEW e, Reads(e, s5, name) PROVE ToldByClash(InputOf("vless", e), name, n)
    <2> DEFINE m == InputOf("vless", e)
    <2>1. /\ m.type = "vless" /\ m.name = e.name
          /\ m.server = Opt(e.items, "server") /\ m.port = Opt(e.items, "port")
          /\ m.scv = Flag(Opt(e.items, "skip-cert-verify"))
          /\ m.tls = (Opt(e.items, "tls") = "true")
      BY DEF InputOf, InputVLess, BaseScv, Base, CommonConstruct
    <2>2. /\ m.user = Opt(e.items, "uuid")
          /\ m.net = Opt(e.items, "network")
          /\ m.sni = Opt(e.items, "servername")
      BY DEF InputOf, InputVLess, BaseScv, Base, CommonConstruct
    <2> HIDE DEF m
    <2>3. /\ m.name = name /\ m.server = n.server /\ m.port = n.port
          /\ m.user = n.user
          /\ m.net = n.net
          /\ m.sni = n.sni
      BY <1>8, <1>9, <1>11, <2>1, <2>2 DEF Reads, Held
    <2>4. m.scv = "true" <=> n.type \notin {"snell", "wireguard"} /\ Asked(n)
      BY <1>8, <1>11, <2>1, AskedFlag DEF Reads, Held
    <2>5. m.tls <=> n.type = "vless" /\ n.tls
      BY <1>9, <1>11, <2>1 DEF Reads, TextOf
    <2> QED
      BY <2>1, <2>3, <2>4, <2>5 DEF ToldByClash, m
  <1>12. n.port # "0" => ((Required("vless") \subseteq KeysOf(s5) \cup {"type"}) <=> Legible(n))
    BY <1>10 DEF Legible
  <1> QED
    BY <1>1, <1>7, <1>8, <1>11, <1>12, ToldByEntry DEF Held

LEMMA AnyTLSEntry ==
  ASSUME NEW n, NodeOK(n), n.type = "anytls", ext \in Exts, NEW name
  PROVE  EntryTold(OutputAnyTLS(n, ext), name, n)
  <1> DEFINE s0 == Common("anytls", n, Scv(n, ext))
             s1 == s0 \o << <<"password", n.secret>> >>
             s2 == s1 \o Item("sni", n.sni)
  <1>1. OutputAnyTLS(n, ext) = s2
    BY DEF OutputAnyTLS
  <1>2. IsList(s0) /\ Shared(s0, "anytls", n, Scv(n, ext))
    BY CommonShared
  <1> HIDE DEF s0
  <1>3. IsList(s1) /\ Keeps(s0, s1, "password") /\ Adds(s0, s1, "password", n.secret)
    BY <1>2, ItemAdds
  <1> HIDE DEF s1
  <1>4. IsList(s2) /\ Keeps(s1, s2, "sni") /\ AddsIf(s1, s2, "sni", n.sni)
    BY <1>3, ItemIfAdds
  <1> HIDE DEF s2
  <1>5. Held(s2, "anytls", n, Scv(n, ext))
    <2>1. Held(s0, "anytls", n, Scv(n, ext))
      BY <1>2 DEF Shared, Held
    <2>2. Held(s1, "anytls", n, Scv(n, ext))
      BY <1>3, <2>1, HeldKept
    <2>3. Held(s2, "anytls", n, Scv(n, ext))
      BY <1>4, <2>2, HeldKept
    <2> QED
      BY <2>3
  <1>6. /\ Opt(s2, "password") = n.secret
        /\ Opt(s2, "sni") = n.sni
    <2>1. Opt(s2, "password") = n.secret
      BY <1>2, <1>3, <1>4 DEF Adds, AddsIf, Keeps, Shared
    <2>2. Opt(s2, "sni") = n.sni
      BY <1>2, <1>3, <1>4 DEF Adds, AddsIf, Keeps, Shared
    <2> QED
      BY <2>1, <2>2
  <1>7. Required("anytls") \subseteq KeysOf(s2) \cup {"type"} <=> (TRUE)
    <2>1. Required("anytls") = {"server", "port", "password"}
      BY DEF Required
    <2> QED
      BY <2>1, <1>2, <1>3, <1>4 DEF Adds, AddsIf, Keeps, Shared
  <1>8. ASSUME NEW e, Reads(e, s2, name) PROVE ToldByClash(InputOf("anytls", e), name, n)
    <2> DEFINE m == InputOf("anytls", e)
    <2>1. /\ m.type = "anytls" /\ m.name = e.name
          /\ m.server = Opt(e.items, "server") /\ m.port = Opt(e.items, "port")
          /\ m.scv = Flag(Opt(e.items, "skip-cert-verify"))
          /\ m.tls = FALSE
      BY DEF InputOf, InputAnyTLS, BaseScv, Base, CommonConstruct
    <2>2. /\ m.secret = Opt(e.items, "password")
          /\ m.sni = Opt(e.items, "sni")
      BY DEF InputOf, InputAnyTLS, BaseScv, Base, CommonConstruct
    <2> HIDE DEF m
    <2>3. /\ m.name = name /\ m.server = n.server /\ m.port = n.port
          /\ m.secret = n.secret
          /\ m.sni = n.sni
      BY <1>5, <1>6, <1>8, <2>1, <2>2 DEF Reads, Held
    <2>4. m.scv = "true" <=> n.type \notin {"snell", "wireguard"} /\ Asked(n)
      BY <1>5, <1>8, <2>1, AskedFlag DEF Reads, Held
    <2>5. m.tls <=> n.type = "vless" /\ n.tls
      BY <2>1
    <2> QED
      BY <2>1, <2>3, <2>4, <2>5 DEF ToldByClash, m
  <1>9. n.port # "0" => ((Required("anytls") \subseteq KeysOf(s2) \cup {"type"}) <=> Legible(n))
    BY <1>7 DEF Legible
  <1> QED
    BY <1>1, <1>4, <1>5, <1>8, <1>9, ToldByEntry DEF Held

\* The entry of a node of any type that is written.
LEMMA AnyEntry ==
  ASSUME NEW n, NodeOK(n), n.type # "https", ext \in Exts, NEW name
  PROVE  EntryTold(ClashItems(n, ext), name, n)
  <1>1. \/ n.type = "ss" \/ n.type = "ssr" \/ n.type = "vmess" \/ n.type = "trojan"
        \/ n.type = "http" \/ n.type = "socks5" \/ n.type = "snell" \/ n.type = "wireguard"
        \/ n.type = "hysteria" \/ n.type = "vless" \/ n.type = "hysteria2" \/ n.type = "anytls"
    BY DEF NodeOK, Types
  <1>2. CASE n.type = "ss"
    BY <1>2, ShadowsocksEntry DEF ClashItems
  <1>3. CASE n.type = "ssr"
    BY <1>3, ShadowsocksREntry DEF ClashItems
  <1>4. CASE n.type = "vmess"
    BY <1>4, VmessEntry DEF ClashItems
  <1>5. CASE n.type = "trojan"
    BY <1>5, TrojanEntry DEF ClashItems
  <1>6. CASE n.type = "http"
    BY <1>6, HttpEntry DEF ClashItems
  <1>7. CASE n.type = "socks5"
    BY <1>7, Socks5Entry DEF ClashItems
  <1>8. CASE n.type = "snell"
    BY <1>8, SnellEntry DEF ClashItems
  <1>9. CASE n.type = "wireguard"
    BY <1>9, WireGuardEntry DEF ClashItems
  <1>10. CASE n.type = "hysteria"
    BY <1>10, HysteriaEntry DEF ClashItems
  <1>11. CASE n.type = "vless"
    BY <1>11, VLessEntry DEF ClashItems
  <1>12. CASE n.type = "hysteria2"
    BY <1>12, Hysteria2Entry DEF ClashItems
  <1>13. CASE n.type = "anytls"
    BY <1>13, AnyTLSEntry DEF ClashItems
  <1> QED
    BY <1>1, <1>2, <1>3, <1>4, <1>5, <1>6, <1>7, <1>8, <1>9, <1>10, <1>11, <1>12, <1>13

\* What is picked from a list in two ways stands side by side, and may be picked again.
PicksTwice(ns, keep, line) ==
    LET put == FlattenSeq([i \in DOMAIN ns |-> Given(i \in keep, <<ns[i]>>)])
        lines == FlattenSeq([i \in DOMAIN ns |-> Given(i \in keep, <<line[i]>>)])
        pairs == FlattenSeq([i \in DOMAIN ns |->
                   Given(i \in keep, <<[name |-> line[i].name, node |-> ns[i]]>>)])
    IN  /\ IsList(lines) /\ IsList(pairs) /\ Len(lines) = Len(put)
        /\ pairs = [k \in DOMAIN put |-> [name |-> lines[k].name, node |-> put[k]]]

LEMMA PickedTwice ==
  ASSUME NEW ns, IsList(ns), NEW keep, NEW line
  PROVE  PicksTwice(ns, keep, line)
  <1> DEFINE D == DOMAIN ns
             a == [i \in D |-> Given(i \in keep, <<ns[i]>>)]
             b == [i \in D |-> Given(i \in keep, <<line[i]>>)]
             c == [i \in D |-> Given(i \in keep, <<[name |-> line[i].name, node |-> ns[i]]>>)]
             put == FlattenSeq(a)
             lines == FlattenSeq(b)
             pairs == FlattenSeq(c)
             row(i) == [name |-> line[i].name, node |-> ns[i]]
             onNode == {<<row(i), ns[i]>> : i \in D}
             onLine == {<<row(i), line[i]>> : i \in D}
  <1>1. Len(ns) \in Nat /\ D = 1 .. Len(ns)
    BY ListLen
  <1>2. /\ DOMAIN a = 1 .. Len(ns) /\ a = [i \in DOMAIN a |-> a[i]]
        /\ DOMAIN b = 1 .. Len(ns) /\ b = [i \in DOMAIN b |-> b[i]]
        /\ DOMAIN c = 1 .. Len(ns) /\ c = [i \in DOMAIN c |-> c[i]]
    BY <1>1
  <1>3. \A i \in D : /\ a[i] = IF i \in keep THEN <<ns[i]>> ELSE <<>>
                     /\ b[i] = IF i \in keep THEN <<line[i]>> ELSE <<>>
                     /\ c[i] = IF i \in keep THEN <<row(i)>> ELSE <<>>
    BY DEF Given
  <1>4. \A i \in D : <<row(i), ns[i]>> \in onNode /\ <<row(i), line[i]>> \in onLine
    OBVIOUS
  <1>5. ASSUME NEW p, NEW q, <<p, q>> \in onNode PROVE p = [name |-> p.name, node |-> q]
    <2>1. PICK i \in D : p = row(i) /\ q = ns[i]
      BY <1>5
    <2> QED
      BY <2>1
  <1>6. ASSUME NEW p, NEW q, <<p, q>> \in onLine PROVE p.name = q.name
    <2>1. PICK i \in D : p = row(i) /\ q = line[i]
      BY <1>6
    <2> QED
      BY <2>1
  <1> HIDE DEF a, b, c, row, onNode, onLine
  <1>7. /\ IsList(a) /\ IsList(b) /\ IsList(c)
        /\ Len(a) = Len(ns) /\ Len(b) = Len(ns) /\ Len(c) = Len(ns)
    BY <1>1, <1>2, ListFun
  <1>8. \A i \in D : IsList(b[i]) /\ IsList(c[i])
    BY <1>3, EmptyList, SingleList
  <1>9. IsList(lines) /\ IsList(pairs)
    BY <1>1, <1>2, <1>7, <1>8, FlatList
  <1>10. /\ Len(pairs) = Len(put)
         /\ \A k \in DOMAIN put : <<pairs[k], put[k]>> \in onNode
    <2>1. \A i \in DOMAIN c : \/ c[i] = <<>> /\ a[i] = <<>>
                              \/ \E x, y : c[i] = <<x>> /\ a[i] = <<y>> /\ <<x, y>> \in onNode
      BY <1>1, <1>2, <1>3, <1>4
    <2> QED
      BY <1>7, <2>1, FlatPaired
  <1>11. /\ Len(pairs) = Len(lines)
         /\ \A k \in DOMAIN lines : <<pairs[k], lines[k]>> \in onLine
    <2>1. \A i \in DOMAIN c : \/ c[i] = <<>> /\ b[i] = <<>>
                              \/ \E x, y : c[i] = <<x>> /\ b[i] = <<y>> /\ <<x, y>> \in onLine
      BY <1>1, <1>2, <1>3, <1>4
    <2> QED
      BY <1>7, <2>1, FlatPaired
  <1>12. IsList(put)
    <2>1. \A i \in D : IsList(a[i])
      <3>1. ASSUME NEW i \in D, i \in keep PROVE IsList(a[i])
        BY <1>3, <3>1, SingleList
      <3>2. ASSUME NEW i \in D, i \notin keep PROVE IsList(a[i])
        BY <1>3, <3>2, EmptyList
      <3> HIDE DEF D
      <3> QED
        BY <3>1, <3>2
    <2> QED
      BY <1>1, <1>2, <1>7, <2>1, FlatList
  <1> HIDE DEF put, lines, pairs
  <1>13. DOMAIN put = DOMAIN pairs /\ DOMAIN lines = DOMAIN pairs
    BY <1>9, <1>10, <1>11, <1>12, ListLen
  <1>14. \A k \in DOMAIN put : pairs[k] = [name |-> lines[k].name, node |-> put[k]]
    <2>1. ASSUME NEW k \in DOMAIN put
          PROVE  pairs[k] = [name |-> lines[k].name, node |-> put[k]]
      <3>1. <<pairs[k], put[k]>> \in onNode /\ <<pairs[k], lines[k]>> \in onLine
        BY <1>10, <1>11, <1>13
      <3>2. pairs[k] = [name |-> pairs[k].name, node |-> put[k]]
        BY <1>5, <3>1
      <3>3. pairs[k].name = lines[k].name
        BY <1>6, <3>1
      <3> QED
        BY <3>2, <3>3
    <2> QED
      BY <2>1
  <1>15. pairs = [k \in DOMAIN pairs |-> pairs[k]]
    BY <1>9 DEF IsList
  <1>16. pairs = [k \in DOMAIN put |-> [name |-> lines[k].name, node |-> put[k]]]
    BY <1>13, <1>14, <1>15
  <1> QED
    BY <1>9, <1>10, <1>11, <1>16 DEF PicksTwice, put, lines, pairs, a, b, c, row

\* A Clash configuration, written and read.
LEMMA ClashStep ==
  ASSUME IInv, NEW clash_r \in BOOLEAN, ToClash(clash_r)
  PROVE  LET put == Those(nodes, LAMBDA n : ~ShouldSkip(n, clash_r, ext))
             entries == [i \in DOMAIN put |-> [name |-> content'.lines[i].name, node |-> put[i]]]
             sent == Those(entries, LAMBDA e : Legible(e.node)) IN
         /\ Len(content'.lines) = Len(put) /\ Len(nodes') = Len(sent)
         /\ \A k \in DOMAIN sent : ToldByClash(nodes'[k], sent[k].name, sent[k].node)
  <1> DEFINE D == DOMAIN nodes
             keep == {i \in D : ~ShouldSkip(nodes[i], clash_r, ext)}
             names == Names(nodes, ext)
             Noted(noted) == [i \in 0 .. Len(names) |->
                 IF i = 0 THEN <<>> ELSE Append(noted[i - 1], ProcessRemark(names[i], noted[i - 1]))]
             given == (CHOOSE noted : noted = Noted(noted))[Len(names)]
             line == [i \in D |-> Line(given[i], ClashItems(nodes[i], ext))]
             row(i) == [name |-> line[i].name, node |-> nodes[i]]
             put == Those(nodes, LAMBDA n : ~ShouldSkip(n, clash_r, ext))
             a == [i \in D |-> Given(i \in keep, <<line[i]>>)]
             z == [i \in D |-> Given(i \in keep, <<row(i)>>)]
             b == [i \in D |-> IF i \in keep THEN ParseEntry(line[i]) ELSE <<>>]
             c == [i \in D |-> IF i \in keep /\ Legible(nodes[i]) THEN <<row(i)>> ELSE <<>>]
             lines == FlattenSeq(a)
             pairs == FlattenSeq(z)
             E == [l \in ToSet(lines) |-> ParseEntry(l)]
             F == [p \in ToSet(pairs) |-> Given(Legible(p.node), <<p>>)]
  <1>1. IsList(nodes) /\ (\A i \in D : NodeOK(nodes[i])) /\ ext \in Exts
    BY DEF IInv, AllOK, TypeOK
  <1>2. Len(nodes) \in Nat /\ D = 1 .. Len(nodes)
    BY <1>1, ListLen
  <1>3. content'.lines = lines /\ nodes' = ExplodeClash(lines)
    <2> DEFINE f == [i \in D |-> Given(~ShouldSkip(nodes[i], clash_r, ext),
                                       <<Line(given[i], ClashItems(nodes[i], ext))>>)]
    <2>1. ProxyToClash(nodes, clash_r, ext).lines = FlattenSeq(f)
      BY DEF ProxyToClash, Plain
    <2>2. f = a
      <3> HIDE DEF given
      <3> QED
        BY DEF Given
    <2>3. /\ content'.form = "clash" /\ nodes' = ReadContent(content')
          /\ content'.lines = ProxyToClash(nodes, clash_r, ext).lines
      BY DEF ToClash, PublishWhole, Publish, Content
    <2> HIDE DEF f, a
    <2>4. content'.lines = lines
      BY <2>1, <2>2, <2>3
    <2> QED
      BY <2>3, <2>4 DEF ReadContent
  <1>4. put = FlattenSeq([i \in D |-> Given(i \in keep, <<nodes[i]>>)])
    <2>1. [i \in D |-> Given(i \in keep, <<nodes[i]>>)]
            = [i \in D |-> Given(~ShouldSkip(nodes[i], clash_r, ext), <<nodes[i]>>)]
      BY DEF Given
    <2> QED
      BY <2>1 DEF Those
  <1> HIDE DEF given
  <1>5. \A i \in D : line[i] = Line(given[i], ClashItems(nodes[i], ext)) /\ line[i].name = given[i]
    BY DEF Line
  <1>6. \A i \in keep : EntryTold(ClashItems(nodes[i], ext), given[i], nodes[i])
    <2>1. \A i \in keep : i \in D /\ nodes[i].type # "https"
      BY DEF ShouldSkip
    <2> HIDE DEF keep, D
    <2> QED
      BY <1>1, <2>1, AnyEntry
  <1> HIDE DEF line
  <1>7. /\ IsList(lines) /\ IsList(pairs) /\ Len(lines) = Len(put)
        /\ pairs = [k \in DOMAIN put |-> [name |-> lines[k].name, node |-> put[k]]]
    <2> HIDE DEF keep, put
    <2>1. PicksTwice(nodes, keep, line)
      BY <1>1, PickedTwice
    <2> QED
      BY <1>4, <2>1 DEF PicksTwice
  <1> HIDE DEF put
  <1>8. /\ IsList(a) /\ IsList(b) /\ IsList(c) /\ IsList(z) /\ Len(a) = Len(nodes)
        /\ Len(b) = Len(nodes) /\ Len(c) = Len(nodes) /\ Len(z) = Len(nodes)
    <2>1. /\ DOMAIN a = 1 .. Len(nodes) /\ a = [i \in DOMAIN a |-> a[i]]
          /\ DOMAIN b = 1 .. Len(nodes) /\ b = [i \in DOMAIN b |-> b[i]]
          /\ DOMAIN c = 1 .. Len(nodes) /\ c = [i \in DOMAIN c |-> c[i]]
          /\ DOMAIN z = 1 .. Len(nodes) /\ z = [i \in DOMAIN z |-> z[i]]
      BY <1>2
    <2> HIDE DEF a, b, c, z
    <2> QED
      BY <1>2, <2>1, ListFun
  <1>9. \A i \in D : /\ a[i] = IF i \in keep THEN <<line[i]>> ELSE <<>>
                     /\ z[i] = IF i \in keep THEN <<row(i)>> ELSE <<>>
                     /\ b[i] = IF i \in keep THEN ParseEntry(line[i]) ELSE <<>>
                     /\ c[i] = IF i \in keep /\ Legible(nodes[i]) THEN <<row(i)>> ELSE <<>>
    BY DEF Given
  <1>10. \A i \in D : row(i).node = nodes[i] /\ row(i).name = given[i]
    BY <1>5
  <1>11. \A i \in D : keep \subseteq D
    OBVIOUS
  <1> HIDE DEF a, b, c, z, row, keep, D
  <1>12. \A i \in D : i \in keep => line[i] \in ToSet(lines) /\ row(i) \in ToSet(pairs)
    <2>1. DOMAIN a = D /\ DOMAIN z = D
      BY <1>2, <1>8, ListLen
    <2>2. ASSUME NEW i \in D, i \in keep PROVE line[i] \in ToSet(a[i]) /\ row(i) \in ToSet(z[i])
      BY <1>9, <2>2, SingleList
    <2>3. \A i \in D : IsList(a[i]) /\ IsList(z[i])
      BY <1>9, EmptyList, SingleList
    <2>4. /\ ToSet(lines) = UNION {ToSet(a[i]) : i \in D}
          /\ ToSet(pairs) = UNION {ToSet(z[i]) : i \in D}
      BY <1>8, <2>1, <2>3, FlatList
    <2> QED
      BY <2>2, <2>4
  <1>13. nodes' = FlattenSeq(b)
    <2>1. \A k \in DOMAIN lines : lines[k] \in ToSet(lines)
      <3> HIDE DEF lines
      <3> QED
        BY <1>7, ListLen
    <2>2. nodes' = FlattenSeq([k \in DOMAIN lines |-> E[lines[k]]])
      <3>1. nodes' = FlattenSeq([k \in DOMAIN lines |-> ParseEntry(lines[k])])
        BY <1>3 DEF ExplodeClash
      <3>2. [k \in DOMAIN lines |-> ParseEntry(lines[k])] = [k \in DOMAIN lines |-> E[lines[k]]]
        <4> HIDE DEF lines
        <4> QED
          BY <2>1
      <3> QED
        BY <3>1, <3>2
    <2>3. ASSUME NEW raw PROVE IsList(ParseEntry(raw))
      <3>1. ParseEntry(raw) = <<>> \/ \E x : ParseEntry(raw) = <<x>>
        BY DEF ParseEntry, Given
      <3> QED
        BY <3>1, EmptyList, SingleList
    <2>4. \A l \in DOMAIN E : IsList(E[l])
      BY <2>3
    <2>5. \A i \in D : i \in keep => line[i] \in DOMAIN E /\ E[line[i]] = ParseEntry(line[i])
      BY <1>12
    <2> HIDE DEF E
    <2>6. \A i \in D : \/ a[i] = <<>> /\ b[i] = <<>>
                       \/ \E l \in DOMAIN E : a[i] = <<l>> /\ b[i] = E[l]
      BY <1>9, <2>5
    <2>7. DOMAIN a = D
      BY <1>2, <1>8, ListLen
    <2>8. FlattenSeq([k \in DOMAIN lines |-> E[lines[k]]]) = FlattenSeq(b)
      <3>1. IsList(a) /\ IsList(b) /\ Len(a) = Len(b)
        BY <1>8
      <3>2. \A i \in DOMAIN a : \/ a[i] = <<>> /\ b[i] = <<>>
                               \/ \E l \in DOMAIN E : a[i] = <<l>> /\ b[i] = E[l]
        BY <2>6, <2>7
      <3> QED
        BY <2>4, <3>1, <3>2, FlatRead
    <2> QED
      BY <2>2, <2>8
  <1> DEFINE sent == Those(pairs, LAMBDA e : Legible(e.node))
  <1>14. sent = FlattenSeq(c)
    <2>1. \A k \in DOMAIN pairs : pairs[k] \in ToSet(pairs)
      <3> HIDE DEF pairs
      <3> QED
        BY <1>7, ListLen
    <2>2. sent = FlattenSeq([k \in DOMAIN pairs |-> F[pairs[k]]])
      <3>1. sent = FlattenSeq([k \in DOMAIN pairs |-> Given(Legible(pairs[k].node), <<pairs[k]>>)])
        BY DEF Those
      <3>2. [k \in DOMAIN pairs |-> Given(Legible(pairs[k].node), <<pairs[k]>>)]
              = [k \in DOMAIN pairs |-> F[pairs[k]]]
        <4> HIDE DEF pairs
        <4> QED
          BY <2>1
      <3> QED
        BY <3>1, <3>2
    <2>3. \A p \in DOMAIN F : IsList(F[p])
      <3>1. \A p \in DOMAIN F : F[p] = <<>> \/ F[p] = <<p>>
        BY DEF Given
      <3> HIDE DEF F
      <3> QED
        BY <3>1, EmptyList, SingleList
    <2>4. \A i \in D : i \in keep =>
            /\ row(i) \in DOMAIN F
            /\ F[row(i)] = IF Legible(nodes[i]) THEN <<row(i)>> ELSE <<>>
      BY <1>10, <1>12 DEF Given
    <2> HIDE DEF F
    <2>5. \A i \in D : \/ z[i] = <<>> /\ c[i] = <<>>
                       \/ \E p \in DOMAIN F : z[i] = <<p>> /\ c[i] = F[p]
      BY <1>9, <2>4
    <2>6. DOMAIN z = D
      BY <1>2, <1>8, ListLen
    <2>7. FlattenSeq([k \in DOMAIN pairs |-> F[pairs[k]]]) = FlattenSeq(c)
      <3>1. IsList(z) /\ IsList(c) /\ Len(z) = Len(c)
        BY <1>8
      <3>2. \A i \in DOMAIN z : \/ z[i] = <<>> /\ c[i] = <<>>
                               \/ \E p \in DOMAIN F : z[i] = <<p>> /\ c[i] = F[p]
        BY <2>5, <2>6
      <3> QED
        BY <2>3, <3>1, <3>2, FlatRead
    <2> QED
      BY <2>2, <2>7
  <1> DEFINE Told(m, r) == ToldByClash(m, r.name, r.node)
             M == UNION {ToSet(b[i]) : i \in D}
             N == UNION {ToSet(c[i]) : i \in D}
             R == {p \in M \X N : Told(p[1], p[2])}
  <1>15. ASSUME NEW i \in D
         PROVE  \/ b[i] = <<>> /\ c[i] = <<>>
                \/ \E m, r : b[i] = <<m>> /\ c[i] = <<r>> /\ Told(m, r)
    <2>1. CASE i \notin keep
      BY <1>9, <2>1
    <2>2. CASE i \in keep /\ ~Legible(nodes[i])
      <3>1. b[i] = ParseEntry(line[i]) /\ c[i] = <<>>
        BY <1>9, <2>2
      <3>2. ParseEntry(line[i]) = <<>>
        BY <1>5, <1>6, <2>2 DEF EntryTold
      <3> QED
        BY <3>1, <3>2
    <2>3. CASE i \in keep /\ Legible(nodes[i])
      <3>1. b[i] = ParseEntry(line[i]) /\ c[i] = <<row(i)>>
        BY <1>9, <2>3
      <3>2. \E m : ParseEntry(line[i]) = <<m>> /\ ToldByClash(m, given[i], nodes[i])
        BY <1>5, <1>6, <2>3 DEF EntryTold
      <3>3. PICK m : ParseEntry(line[i]) = <<m>> /\ ToldByClash(m, given[i], nodes[i])
        BY <3>2
      <3>4. Told(m, row(i))
        BY <1>10, <3>3
      <3> HIDE DEF Told
      <3> QED
        BY <3>1, <3>3, <3>4
    <2> QED
      BY <2>1, <2>2, <2>3
  <1> HIDE DEF Told
  <1>16. \A i \in D : \/ b[i] = <<>> /\ c[i] = <<>>
                      \/ \E m, r : b[i] = <<m>> /\ c[i] = <<r>> /\ <<m, r>> \in R
    <2>1. ASSUME NEW i \in D, NEW m, NEW r, b[i] = <<m>>, c[i] = <<r>>, Told(m, r)
          PROVE  <<m, r>> \in R
      <3>1. m \in M /\ r \in N
        BY <2>1, SingleList
      <3> HIDE DEF M, N
      <3> QED
        BY <2>1, <3>1
    <2> HIDE DEF R
    <2> QED
      BY <1>15, <2>1
  <1>17. /\ Len(FlattenSeq(b)) = Len(FlattenSeq(c))
         /\ \A k \in DOMAIN FlattenSeq(c) : <<FlattenSeq(b)[k], FlattenSeq(c)[k]>> \in R
    <2>1. DOMAIN b = D
      BY <1>2, <1>8, ListLen
    <2> HIDE DEF R
    <2> QED
      BY <1>8, <1>16, <2>1, FlatPaired
  <1>18. \A p, q : <<p, q>> \in R => Told(p, q)
    <2> HIDE DEF M, N
    <2> QED
      OBVIOUS
  <1> HIDE DEF R, M, N, sent, pairs, lines
  <1>19. \A k \in DOMAIN sent : Told(nodes'[k], sent[k])
    BY <1>13, <1>14, <1>17, <1>18
  <1>20. /\ Len(content'.lines) = Len(put) /\ Len(nodes') = Len(sent)
         /\ \A k \in DOMAIN sent : ToldByClash(nodes'[k], sent[k].name, sent[k].node)
    BY <1>3, <1>7, <1>13, <1>14, <1>17, <1>19 DEF Told
  <1>21. pairs = [k \in DOMAIN put |-> [name |-> content'.lines[k].name, node |-> put[k]]]
    BY <1>3, <1>7
  <1> QED
    BY <1>20, <1>21 DEF sent, put

\* Whatever subscription is answered as a Clash configuration, Clash's own parser reads back
\* every entry it can read, whole: generator/config/formats/clash/output_proxy_types and
\* parser/yaml/clash say the same of an entry.
THEOREM ClashArrivesWhole == Spec => ClashReadBack
  <1>1. Init => IInv
    BY InitIInv
  <1>2. IInv /\ [Next]_vars => IInv'
    BY StepIInv
  <1>3. IInv /\ [Next]_vars =>
          [\A clash_r \in BOOLEAN : ToClash(clash_r) =>
             LET put == Those(nodes, LAMBDA n : ~ShouldSkip(n, clash_r, ext))
                 entries == [i \in DOMAIN put |-> [name |-> content'.lines[i].name, node |-> put[i]]]
                 sent == Those(entries, LAMBDA e : Legible(e.node)) IN
             /\ Len(content'.lines) = Len(put) /\ Len(nodes') = Len(sent)
             /\ \A k \in DOMAIN sent : ToldByClash(nodes'[k], sent[k].name, sent[k].node)]_vars
    BY ClashStep
  <1> QED
    BY <1>1, <1>2, <1>3, PTL DEF Spec, ClashReadBack

-----------------------------------------------------------------------------
(* The rules for the servers themselves.                                   *)

\* One more ruleset, and all of them, for Clash and for sing-box.
Written(target, acc, rs, r) ==
  IF target = "clash" THEN ClashRuleset(acc, rs, r) ELSE SingBoxRuleset(acc, rs, r)
RuleStep(target, list, r, m, f) ==
  [i \in 0 .. m |-> IF i = 0 THEN Start(Empty) ELSE Written(target, f[i - 1], list[i], r)]
RuleRuns(target, list, r, m) == \E f : f = RuleStep(target, list, r, m, f)

LEMMA RulesSolved ==
  ASSUME NEW target, NEW list, NEW r, NEW n \in Nat
  PROVE  RuleRuns(target, list, r, n)
  <1> DEFINE S == {m \in 0 .. n : RuleRuns(target, list, r, m)}
  <1>1. 0 \in S
    <2> DEFINE g == [i \in 0 .. 0 |-> Start(Empty)]
    <2>1. g = RuleStep(target, list, r, 0, g)
      BY DEF RuleStep
    <2> QED
      BY <2>1 DEF RuleRuns
  <1>2. ASSUME NEW k \in 0 .. n, k \in S, k < n PROVE k + 1 \in S
    <2>1. PICK f : f = RuleStep(target, list, r, k, f)
      BY <1>2 DEF RuleRuns
    <2>2. \A i \in 0 .. k :
            f[i] = IF i = 0 THEN Start(Empty) ELSE Written(target, f[i - 1], list[i], r)
      BY <2>1, Zenon DEF RuleStep
    <2> DEFINE g == [i \in 0 .. (k + 1) |->
                        IF i <= k THEN f[i] ELSE Written(target, f[k], list[k + 1], r)]
    <2>3. \A i \in 0 .. (k + 1) :
            g[i] = IF i = 0 THEN Start(Empty) ELSE Written(target, g[i - 1], list[i], r)
      BY <2>2
    <2>4. g = RuleStep(target, list, r, k + 1, g)
      BY <2>3 DEF RuleStep
    <2> QED
      BY <1>2, <2>4 DEF RuleRuns
  <1>3. 0 .. n \subseteq S
    <2> HIDE DEF S
    <2> QED
      BY <1>1, <1>2, Climb
  <1> QED
    BY <1>3

LEMMA ConvertedList ==
  ASSUME NEW rs, IsList(rs.rules)
  PROVE  IsList(ConvertRuleset(rs))
  BY ListLen, ListFun DEF ConvertRuleset

LEMMA GroupedList ==
  ASSUME NEW rules, IsList(rules), NEW group, NEW b
  PROVE  IsList(Grouped(rules, group, b)) /\ Len(Grouped(rules, group, b)) = Len(rules)
  BY ListLen, ListFun DEF Grouped

LEMMA ClashRulesetGood ==
  ASSUME NEW acc, AccGood(acc), NEW rs, IsList(rs.rules), NEW r, r.max \in Nat
  PROVE  AccGood(ClashRuleset(acc, rs, r)) /\ Longer(acc, ClashRuleset(acc, rs, r))
  <1> DEFINE one == Grouped(<<AsMatch(rs.rules[1])>>, rs.group, FALSE)
             list == ConvertRuleset(rs)
             f == [i \in DOMAIN list |-> Given(OfType(list[i], ClashTypes), <<list[i]>>)]
             known == FlattenSeq(f)
             all == Grouped(known, rs.group, FALSE)
             failed == [acc EXCEPT !.panic = TRUE]
  <1>1. IsList(one)
    BY SingleList, GroupedList
  <1>2. IsList(all)
    <2>1. IsList(list)
      BY ConvertedList
    <2> HIDE DEF list
    <2>2. \A i \in DOMAIN list : f[i] = <<>> \/ \E x : f[i] = <<x>>
      BY DEF Given
    <2>3. DOMAIN f = DOMAIN list /\ f = [i \in DOMAIN f |-> f[i]]
      OBVIOUS
    <2> HIDE DEF f
    <2>4. IsList(known)
      BY <2>1, <2>2, <2>3, GivenFlat
    <2> HIDE DEF known
    <2> QED
      BY <2>4, GroupedList
  <1>3. ClashRuleset(acc, rs, r) = IF Full(acc, r) \/ rs.rules = <<>> THEN acc
                                   ELSE IF rs.marked THEN Counted(acc, one, r)
                                   ELSE IF Panics(rs) THEN failed
                                   ELSE Counted(acc, all, r)
    BY DEF ClashRuleset, Those
  <1>4. /\ AccGood(acc) /\ Longer(acc, acc)
        /\ AccGood(failed) /\ Longer(acc, failed)
    BY ListLen DEF AccGood, Longer
  <1> HIDE DEF one, all, failed
  <1>5. /\ AccGood(Counted(acc, one, r)) /\ Longer(acc, Counted(acc, one, r))
        /\ AccGood(Counted(acc, all, r)) /\ Longer(acc, Counted(acc, all, r))
    BY <1>1, <1>2, CountedGood
  <1> QED
    BY <1>3, <1>4, <1>5

LEMMA SingBoxRulesetGood ==
  ASSUME NEW acc, AccGood(acc), NEW rs, IsList(rs.rules), NEW r, r.max \in Nat
  PROVE  AccGood(SingBoxRuleset(acc, rs, r)) /\ Longer(acc, SingBoxRuleset(acc, rs, r))
  <1> DEFINE rule == rs.rules[1]
             one == Given(Len(rule) >= 2, <<SingBoxRule(rule, rs.group)>>)
             list == ConvertRuleset(rs)
             f == [i \in DOMAIN list |->
                     Given(Len(list[i]) >= 2 /\ list[i][1] \in SingBoxTypes, <<list[i]>>)]
             known == FlattenSeq(f)
             all == [i \in DOMAIN known |-> SingBoxRule(known[i], rs.group)]
             failed == [acc EXCEPT !.panic = TRUE]
             final == [acc EXCEPT !.final = rs.group]
  <1>1. IsList(one)
    BY SingleList, GivenList
  <1>2. IsList(all)
    <2>1. IsList(list)
      BY ConvertedList
    <2> HIDE DEF list
    <2>2. \A i \in DOMAIN list : f[i] = <<>> \/ \E x : f[i] = <<x>>
      BY DEF Given
    <2>3. DOMAIN f = DOMAIN list /\ f = [i \in DOMAIN f |-> f[i]]
      OBVIOUS
    <2> HIDE DEF f
    <2>4. IsList(known)
      BY <2>1, <2>2, <2>3, GivenFlat
    <2> HIDE DEF known
    <2> QED
      BY <2>4, ListLen, ListFun
  <1>3. SingBoxRuleset(acc, rs, r) = IF Full(acc, r) \/ rs.rules = <<>> THEN acc
                                     ELSE IF rs.marked
                                          THEN IF OfType(rule, {"FINAL", "MATCH"}) THEN final
                                               ELSE Counted(acc, one, r)
                                     ELSE IF Panics(rs) THEN failed
                                     ELSE Counted(acc, all, r)
    BY DEF SingBoxRuleset, Those
  <1>4. /\ AccGood(acc) /\ Longer(acc, acc)
        /\ AccGood(failed) /\ Longer(acc, failed)
        /\ AccGood(final) /\ Longer(acc, final)
    BY ListLen DEF AccGood, Longer
  <1> HIDE DEF one, all, failed, final
  <1>5. /\ AccGood(Counted(acc, one, r)) /\ Longer(acc, Counted(acc, one, r))
        /\ AccGood(Counted(acc, all, r)) /\ Longer(acc, Counted(acc, all, r))
    BY <1>1, <1>2, CountedGood
  <1> QED
    BY <1>3, <1>4, <1>5

\* A list of one, and the test it may pass.
LEMMA OneKept ==
  ASSUME NEW x, NEW c
  PROVE  FlattenSeq([i \in DOMAIN <<x>> |-> Given(c, <<(<<x>>)[i]>>)]) = Given(c, <<x>>)
  <1> DEFINE f == [i \in DOMAIN <<x>> |-> Given(c, <<(<<x>>)[i]>>)]
             one == Given(c, <<x>>)
             none == <<>>
  <1>1. f = Append(<<>>, one)
    <2> DEFINE Made(y) == Given(c, <<y>>)
    <2>1. f = [i \in DOMAIN <<x>> |-> Made((<<x>>)[i])]
      OBVIOUS
    <2>2. one = Made(x)
      OBVIOUS
    <2> HIDE DEF Made, f, one
    <2> QED
      BY <2>1, <2>2
  <1>2. IsList(one) /\ none \o one = one
    <2>1. IsList(one)
      BY SingleList, GivenList
    <2> HIDE DEF one
    <2> QED
      BY <2>1, ConcatEmptySeq DEF IsList
  <1> HIDE DEF f, one
  <1>3. FlattenSeq(Append(none, one)) = FlattenSeq(none) \o one
    <2>1. DOMAIN none = {}
      OBVIOUS
    <2>2. IsList(none) /\ \A i \in DOMAIN none : IsList(none[i])
      BY <2>1, EmptyList
    <2> HIDE DEF none
    <2> QED
      BY <1>2, <2>2, FlatAppend
  <1> QED
    BY <1>1, <1>2, <1>3, FlatNone DEF f, one

\* The rule of an address.
LEMMA NetworkKeys ==
  ASSUME NEW type, NEW v
  PROVE  /\ KeyOf(TransformRule(<<type, v, "no-resolve">>, "DIRECT", FALSE)) = <<v, "DIRECT">>
         /\ KeyOf(SingBoxRule(<<type, v, "no-resolve">>, "DIRECT")) = <<v, "DIRECT">>
  <1> DEFINE rule == <<type, v, "no-resolve">>
             head == <<type, v, "DIRECT">>
             tail == SubSeq(rule, 3, 3)
  <1>1. Len(rule) = 3 /\ rule[1] = type /\ rule[2] = v
    OBVIOUS
  <1>2. TransformRule(rule, "DIRECT", FALSE) = head \o tail
    BY <1>1 DEF TransformRule, Given
  <1>3. IsList(head) /\ Len(head) = 3 /\ head[2] = v /\ head[3] = "DIRECT"
    <2>1. head \in Seq({type, v, "DIRECT"})
      OBVIOUS
    <2> QED
      BY <2>1, ListOf
  <1>4. IsList(tail)
    <2>1. rule \in Seq({type, v, "no-resolve"})
      OBVIOUS
    <2>2. tail \in Seq({type, v, "no-resolve"})
      BY <2>1, <1>1, SubSeqProperties
    <2> HIDE DEF tail
    <2> QED
      BY <2>2, ListOf
  <1> HIDE DEF head, tail
  <1> DEFINE whole == head \o tail
  <1>5. Len(whole) >= 3 /\ whole[2] = v /\ whole[3] = "DIRECT"
    <2>1. Len(tail) \in Nat
      BY <1>4, ListLen
    <2>2. Len(whole) = Len(head) + Len(tail) /\ \A i \in 1 .. Len(head) : whole[i] = head[i]
      <3>1. IsList(head) /\ IsList(tail)
        BY <1>3, <1>4
      <3> QED
        BY <3>1, ListConcat
    <2> HIDE DEF whole
    <2> QED
      BY <1>3, <2>1, <2>2
  <1> HIDE DEF whole
  <1>6. Len(whole) # 2
    BY <1>5
  <1>7. KeyOf(whole) = <<v, "DIRECT">>
    BY <1>5, <1>6 DEF KeyOf
  <1>8. KeyOf(SingBoxRule(rule, "DIRECT")) = <<v, "DIRECT">>
    BY <1>1 DEF SingBoxRule, KeyOf
  <1> QED
    BY <1>2, <1>7, <1>8 DEF whole

\* The rule of a server has the server's key and sends it directly.
LEMMA DirectKeys ==
  ASSUME NEW n
  PROVE  /\ KeyOf(TransformRule(DirectRule(n.server), "DIRECT", FALSE)) = DirectKey(n)
         /\ KeyOf(SingBoxRule(DirectRule(n.server), "DIRECT")) = DirectKey(n)
  <1>1. CASE IsIpv6(n.server)
    <2> DEFINE v == n.server \o "/128"
    <2>1. DirectRule(n.server) = <<"IP-CIDR6", v, "no-resolve">> /\ DirectKey(n) = <<v, "DIRECT">>
      BY <1>1 DEF DirectRule, DirectKey
    <2> HIDE DEF v
    <2> QED
      BY <2>1, NetworkKeys
  <1>2. CASE ~IsIpv6(n.server) /\ IsIpv4(n.server)
    <2> DEFINE v == n.server \o "/32"
    <2>1. DirectRule(n.server) = <<"IP-CIDR", v, "no-resolve">> /\ DirectKey(n) = <<v, "DIRECT">>
      BY <1>2 DEF DirectRule, DirectKey
    <2> HIDE DEF v
    <2> QED
      BY <2>1, NetworkKeys
  <1>3. CASE ~IsIpv6(n.server) /\ ~IsIpv4(n.server)
    <2> DEFINE rule == <<"DOMAIN", n.server>>
    <2>1. DirectRule(n.server) = rule /\ DirectKey(n) = <<n.server, "DIRECT">>
      BY <1>3 DEF DirectRule, DirectKey
    <2>2. Len(rule) = 2 /\ rule[1] = "DOMAIN" /\ rule[2] = n.server
      OBVIOUS
    <2>3. TransformRule(rule, "DIRECT", FALSE) = <<"DOMAIN", n.server, "DIRECT">>
      <3> DEFINE head == <<"DOMAIN", n.server, "DIRECT">>
      <3>1. TransformRule(rule, "DIRECT", FALSE) = head \o <<>>
        BY <2>2 DEF TransformRule, Given
      <3>2. head \in Seq({"DOMAIN", n.server, "DIRECT"})
        OBVIOUS
      <3> HIDE DEF head
      <3>3. head \o <<>> = head
        BY <3>2, ConcatEmptySeq
      <3> QED
        BY <3>1, <3>3 DEF head
    <2>4. KeyOf(<<"DOMAIN", n.server, "DIRECT">>) = <<n.server, "DIRECT">>
      BY DEF KeyOf
    <2>5. KeyOf(SingBoxRule(rule, "DIRECT")) = <<n.server, "DIRECT">>
      BY <2>2 DEF SingBoxRule, KeyOf
    <2> QED
      BY <2>1, <2>3, <2>4, <2>5
  <1> QED
    BY <1>1, <1>2, <1>3

\* While there is room, it is written behind the others.
LEMMA OneCounted ==
  ASSUME NEW acc, AccGood(acc), NEW r, r.max \in Nat, r.max = 0 \/ acc.total < r.max, NEW x
  PROVE  /\ Counted(acc, <<x>>, r).rules = acc.rules \o <<x>>
         /\ Counted(acc, <<x>>, r).total = acc.total + 1
         /\ Counted(acc, <<x>>, r).panic = acc.panic
  <1> DEFINE one == <<x>>
             room == r.max - acc.total
             added == IF r.max > 0 /\ Len(one) > room THEN SubSeq(one, 1, room) ELSE one
             new == [acc EXCEPT !.rules = acc.rules \o added, !.total = acc.total + Len(added)]
  <1>1. Len(one) = 1
    BY SingleList
  <1>2. added = one
    <2> HIDE DEF one
    <2> QED
      BY <1>1 DEF AccGood
  <1>3. Counted(acc, one, r) = new
    BY DEF Counted
  <1> HIDE DEF added, one
  <1>4. new.rules = acc.rules \o added /\ new.total = acc.total + Len(added) /\ new.panic = acc.panic
    BY DEF AccGood
  <1> HIDE DEF new
  <1>5. Counted(acc, one, r).rules = acc.rules \o one
    BY <1>2, <1>3, <1>4
  <1>6. Counted(acc, one, r).total = acc.total + 1
    BY <1>1, <1>2, <1>3, <1>4
  <1> QED
    BY <1>3, <1>4, <1>5, <1>6 DEF one

LEMMA NoneCounted ==
  ASSUME NEW acc, AccGood(acc), NEW r, r.max \in Nat, r.max = 0 \/ acc.total < r.max
  PROVE  /\ Counted(acc, <<>>, r).rules = acc.rules
         /\ Counted(acc, <<>>, r).total = acc.total
         /\ Counted(acc, <<>>, r).panic = acc.panic
  <1> DEFINE none == <<>>
             room == r.max - acc.total
             added == IF r.max > 0 /\ Len(none) > room THEN SubSeq(none, 1, room) ELSE none
             new == [acc EXCEPT !.rules = acc.rules \o added, !.total = acc.total + Len(added)]
  <1>1. Len(none) = 0
    OBVIOUS
  <1>2. added = none
    <2> HIDE DEF none
    <2> QED
      BY <1>1 DEF AccGood
  <1>3. Counted(acc, none, r) = new
    BY DEF Counted
  <1>4. acc.rules \o none = acc.rules
    <2>1. IsList(acc.rules)
      BY DEF AccGood
    <2> DEFINE old == acc.rules
    <2> HIDE DEF old
    <2>2. old \o <<>> = old
      BY <2>1, ConcatEmptySeq DEF IsList, old
    <2> QED
      BY <2>2 DEF old
  <1> HIDE DEF added, none
  <1>5. new.rules = acc.rules \o added /\ new.total = acc.total + Len(added) /\ new.panic = acc.panic
    BY DEF AccGood
  <1> HIDE DEF new
  <1>6. Counted(acc, none, r).rules = acc.rules /\ Counted(acc, none, r).panic = acc.panic
    BY <1>2, <1>3, <1>4, <1>5
  <1>7. Counted(acc, none, r).total = acc.total
    BY <1>1, <1>2, <1>3, <1>5 DEF AccGood
  <1> QED
    BY <1>6, <1>7 DEF none

\* The rule of a server was written, or was of a type the format does not have.
OneMore(acc, new, n) ==
  /\ \E x : new.rules = acc.rules \o <<x>> /\ KeyOf(x) = DirectKey(n)
  /\ new.total = acc.total + 1 /\ new.panic = FALSE
NoMore(acc, new) == new.rules = acc.rules /\ new.total = acc.total /\ new.panic = FALSE

LEMMA DirectWritten ==
  ASSUME NEW target, NEW acc, AccGood(acc), acc.panic = FALSE,
         NEW r, r.max \in Nat, r.max = 0 \/ acc.total < r.max, NEW n
  PROVE  \/ OneMore(acc, Written(target, acc, DirectRuleset(n.server), r), n)
         \/ ~Ruled(n, target) /\ NoMore(acc, Written(target, acc, DirectRuleset(n.server), r))
  <1> DEFINE rs == DirectRuleset(n.server)
             rule == DirectRule(n.server)
             clash == TransformRule(rule, "DIRECT", FALSE)
             sing == SingBoxRule(rule, "DIRECT")
             fits(x) == Len(x) >= 2 /\ x[1] \in SingBoxTypes
  <1>1. /\ rs.rules = <<rule>> /\ rs.marked = FALSE /\ rs.type = "surge" /\ rs.group = "DIRECT"
    BY DEF DirectRuleset
  <1>2. Full(acc, r) = FALSE
    BY DEF Full, AccGood
  <1>3. ~Panics(rs) /\ ConvertRuleset(rs) = <<rule>> /\ rs.rules # <<>>
    BY <1>1 DEF Panics, ConvertRuleset
  <1>4. /\ rule[1] \in ClashTypes /\ Len(rule) >= 2
        /\ ~IsIpv6(n.server) => rule[1] \in BasicTypes
    BY DEF DirectRule, BasicTypes, ClashTypes
  <1>5. OfType(rule, ClashTypes) /\ (fits(rule) \/ IsIpv6(n.server))
    BY <1>4, TypesAssumption DEF OfType, SingBoxTypes
  <1> HIDE DEF rs, rule
  <1>6. ClashRuleset(acc, rs, r) = Counted(acc, <<clash>>, r)
    <2>1. Those(<<rule>>, LAMBDA x : OfType(x, ClashTypes)) = <<rule>>
      <3> DEFINE f == [i \in DOMAIN <<rule>> |->
                         Given(OfType((<<rule>>)[i], ClashTypes), <<(<<rule>>)[i]>>)]
                 g == [i \in DOMAIN <<rule>> |-> Given(OfType(rule, ClashTypes), <<(<<rule>>)[i]>>)]
      <3>1. f = g
        OBVIOUS
      <3>2. FlattenSeq(g) = <<rule>>
        <4> DEFINE c == OfType(rule, ClashTypes)
        <4> HIDE DEF c
        <4>1. FlattenSeq([i \in DOMAIN <<rule>> |-> Given(c, <<(<<rule>>)[i]>>)])
                = Given(c, <<rule>>)
          BY OneKept
        <4> QED
          BY <1>5, <4>1 DEF c, Given
      <3> QED
        BY <3>1, <3>2 DEF Those
    <2>2. Grouped(<<rule>>, "DIRECT", FALSE) = <<clash>>
      <3> DEFINE Made(x) == TransformRule(x, "DIRECT", FALSE)
                 made == [i \in DOMAIN <<rule>> |-> Made((<<rule>>)[i])]
      <3>1. Grouped(<<rule>>, "DIRECT", FALSE) = made
        BY DEF Grouped
      <3>2. made = <<Made(rule)>>
        <4> HIDE DEF Made
        <4> QED
          OBVIOUS
      <3> QED
        BY <3>1, <3>2
    <2> QED
      BY <1>1, <1>2, <1>3, <2>1, <2>2 DEF ClashRuleset
  <1> DEFINE known == Given(fits(rule), <<rule>>)
             all == [i \in DOMAIN known |-> SingBoxRule(known[i], "DIRECT")]
  <1>7. SingBoxRuleset(acc, rs, r) = Counted(acc, all, r)
    <2>1. Those(<<rule>>, LAMBDA x : Len(x) >= 2 /\ x[1] \in SingBoxTypes) = known
      <3> DEFINE f == [i \in DOMAIN <<rule>> |-> Given(fits((<<rule>>)[i]), <<(<<rule>>)[i]>>)]
                 g == [i \in DOMAIN <<rule>> |-> Given(fits(rule), <<(<<rule>>)[i]>>)]
      <3>1. f = g
        <4> HIDE DEF fits
        <4> QED
          OBVIOUS
      <3>2. FlattenSeq(g) = known
        <4> HIDE DEF fits
        <4> QED
          BY OneKept
      <3> QED
        BY <3>1, <3>2 DEF Those
    <2> HIDE DEF known
    <2> QED
      BY <1>1, <1>2, <1>3, <2>1 DEF SingBoxRuleset
  <1>8. IF fits(rule) THEN all = <<sing>> ELSE all = <<>>
    <2>1. CASE fits(rule)
      <3>1. known = <<rule>>
        BY <2>1 DEF Given
      <3> HIDE DEF known
      <3> QED
        BY <2>1, <3>1
    <2>2. CASE ~fits(rule)
      <3>1. known = <<>>
        BY <2>2 DEF Given
      <3> HIDE DEF known
      <3> QED
        BY <2>2, <3>1
    <2> QED
      BY <2>1, <2>2
  <1>9. KeyOf(clash) = DirectKey(n) /\ KeyOf(sing) = DirectKey(n)
    BY DirectKeys DEF rule
  <1> HIDE DEF clash, sing, all, fits
  <1>10. OneMore(acc, Counted(acc, <<clash>>, r), n) /\ OneMore(acc, Counted(acc, <<sing>>, r), n)
         /\ NoMore(acc, Counted(acc, <<>>, r))
    <2>1. ASSUME NEW x, KeyOf(x) = DirectKey(n) PROVE OneMore(acc, Counted(acc, <<x>>, r), n)
      <3> DEFINE new == Counted(acc, <<x>>, r)
      <3>1. new.rules = acc.rules \o <<x>> /\ new.total = acc.total + 1 /\ new.panic = acc.panic
        BY OneCounted
      <3> HIDE DEF new
      <3> QED
        BY <2>1, <3>1 DEF OneMore, new
    <2>2. NoMore(acc, Counted(acc, <<>>, r))
      BY NoneCounted DEF NoMore
    <2> QED
      BY <1>9, <2>1, <2>2
  <1>11. CASE target = "clash"
    <2>1. Written(target, acc, rs, r) = Counted(acc, <<clash>>, r)
      BY <1>6, <1>11 DEF Written
    <2> QED
      BY <1>10, <2>1 DEF rs
  <1>12. CASE target # "clash"
    <2>1. Written(target, acc, rs, r) = Counted(acc, all, r)
      BY <1>7, <1>12 DEF Written
    <2>2. fits(rule) \/ ~Ruled(n, target)
      BY <1>5, <1>12 DEF Ruled
    <2> QED
      BY <1>8, <1>10, <2>1, <2>2 DEF rs
  <1> QED
    BY <1>11, <1>12

\* The rules for all servers that get one, in front of those of the rulesets.
Serves(rules, i, ns) == \E j \in DOMAIN ns : KeyOf(rules[i]) = DirectKey(ns[j])
Reached(rules, p, n) == \E k \in 1 .. p : KeyOf(rules[k]) = DirectKey(n)
ServersFirst(target, rules, ns) ==
  \E p \in 0 .. Len(rules) :
    /\ \A i \in 1 .. p : Serves(rules, i, ns)
    /\ \A j \in DOMAIN ns : Ruled(ns[j], target) => Reached(rules, p, ns[j])
\* The list of rulesets has one for each server in front.
ServersListed(list, ns) ==
  /\ RulesetsOK(list) /\ Len(list) >= Len(ns)
  /\ \A k \in 1 .. Len(ns) : list[k] = DirectRuleset(ns[(Len(ns) - k) + 1].server)

LEMMA DirectListed ==
  ASSUME NEW ns, IsList(ns), NEW r \in Exts, r.direct
  PROVE  ServersListed(RulesetsOf(ns, r), ns)
  <1> DEFINE own == [i \in DOMAIN ns |-> DirectRuleset(ns[i].server)]
             first == [i \in 1 .. Len(ns) |-> own[(Len(ns) - i) + 1]]
             list == first \o r.rulesets
  <1>1. Len(ns) \in Nat /\ DOMAIN ns = 1 .. Len(ns)
    BY ListLen
  <1>2. Reverse(own) = first
    <2>1. DOMAIN own = 1 .. Len(ns) /\ own = [i \in DOMAIN own |-> own[i]]
      BY <1>1
    <2> HIDE DEF own
    <2>2. Len(own) = Len(ns)
      BY <1>1, <2>1, ListFun
    <2> QED
      BY <2>2 DEF Reverse
  <1>3. RulesetsOf(ns, r) = list
    BY <1>2 DEF RulesetsOf, Given
  <1>4. \A k \in 1 .. Len(ns) : first[k] = DirectRuleset(ns[(Len(ns) - k) + 1].server)
    <2>1. \A k \in 1 .. Len(ns) : (Len(ns) - k) + 1 \in DOMAIN ns
      BY <1>1
    <2> QED
      BY <2>1
  <1>5. IsList(first) /\ Len(first) = Len(ns)
    <2>1. DOMAIN first = 1 .. Len(ns) /\ first = [i \in DOMAIN first |-> first[i]]
      OBVIOUS
    <2> HIDE DEF first
    <2> QED
      BY <1>1, <2>1, ListFun
  <1> HIDE DEF first
  <1>6. IsList(r.rulesets) /\ Len(r.rulesets) \in Nat
    BY RequestAssumption, ListLen
  <1>7. Len(list) = Len(first) + Len(r.rulesets) /\ \A i \in 1 .. Len(first) : list[i] = first[i]
    BY <1>5, <1>6, ListConcat
  <1>8. RulesetsOK(list)
    BY <1>3, RulesetsOfOK
  <1> HIDE DEF list
  <1> QED
    BY <1>1, <1>3, <1>4, <1>5, <1>6, <1>7, <1>8 DEF ServersListed

LEMMA OneBehind ==
  ASSUME NEW s, IsList(s), NEW x, NEW t, t = s \o <<x>>
  PROVE  /\ Len(t) = Len(s) + 1 /\ t[Len(s) + 1] = x
         /\ \A i \in 1 .. Len(s) : t[i] = s[i]
  <1> DEFINE one == <<x>>
  <1>1. IsList(one) /\ Len(one) = 1 /\ one[1] = x
    BY SingleList
  <1>2. t = s \o one
    OBVIOUS
  <1> HIDE DEF one
  <1>3. /\ Len(t) = Len(s) + Len(one)
        /\ \A i \in 1 .. Len(s) : t[i] = s[i]
        /\ \A i \in 1 .. Len(one) : t[Len(s) + i] = one[i]
    BY <1>1, <1>2, ListConcat
  <1> QED
    BY <1>1, <1>3

LEMMA ServersWritten ==
  ASSUME NEW ns, IsList(ns), NEW list, ServersListed(list, ns), NEW target,
         NEW r, r.max \in Nat, r.max = 0 \/ Len(ns) <= r.max,
         NEW f, f = RuleStep(target, list, r, Len(list), f)
  PROVE  AccGood(f[Len(list)]) /\ ServersFirst(target, f[Len(list)].rules, ns)
  <1> DEFINE n == Len(list)
             m == Len(ns)
  <1>1. n \in Nat /\ DOMAIN list = 1 .. n /\ m \in Nat /\ m <= n
    BY ListLen DEF ServersListed, RulesetsOK
  <1>2. \A i \in 0 .. n :
          f[i] = IF i = 0 THEN Start(Empty) ELSE Written(target, f[i - 1], list[i], r)
    BY Zenon DEF RuleStep
  <1>3. f[0] = Start(Empty)
    BY <1>1, <1>2
  <1>4. ASSUME NEW k \in 0 .. n, k < n
        PROVE  f[k + 1] = Written(target, f[k], list[k + 1], r) /\ k + 1 \in 1 .. n
    <2>1. k + 1 \in 1 .. n /\ k + 1 \in 0 .. n /\ k + 1 # 0 /\ (k + 1) - 1 = k
      BY <1>1, <1>4
    <2> QED
      BY <1>2, <2>1
  <1>5. ASSUME NEW k \in 0 .. n, k < n, AccGood(f[k])
        PROVE  AccGood(f[k + 1]) /\ Longer(f[k], f[k + 1])
    <2>1. IsList(list[k + 1].rules)
      BY <1>1, <1>4, <1>5 DEF ServersListed, RulesetsOK
    <2> QED
      BY <1>4, <1>5, <2>1, ClashRulesetGood, SingBoxRulesetGood DEF Written
  <1> DEFINE Good0 == {i \in 0 .. n : AccGood(f[i])}
  <1>6. \A i \in 0 .. n : AccGood(f[i])
    <2>1. 0 \in Good0
      <3>1. AccGood(Start(Empty))
        BY EmptyGood, EmptyList DEF AccGood, Start
      <3> QED
        BY <1>1, <1>3, <3>1
    <2>2. ASSUME NEW k \in 0 .. n, k \in Good0, k < n PROVE k + 1 \in Good0
      <3>1. k + 1 \in 0 .. n
        BY <1>1, <2>2
      <3> QED
        BY <1>5, <2>2, <3>1
    <2>3. 0 .. n \subseteq Good0
      <3> HIDE DEF Good0
      <3> QED
        BY <1>1, <2>1, <2>2, Climb
    <2> QED
      BY <2>3
  \* While the servers' own lists are written.
  <1> DEFINE node(k) == ns[(m - k) + 1]
             Steady(i) == f[i].panic = FALSE /\ f[i].total \in 0 .. i
             OnlyServers(i) == \A k \in 1 .. Len(f[i].rules) : Serves(f[i].rules, k, ns)
             AllReached(i) == \A h \in 1 .. i :
                Ruled(node(h), target) => Reached(f[i].rules, Len(f[i].rules), node(h))
             Served == {i \in 0 .. m : Steady(i) /\ OnlyServers(i) /\ AllReached(i)}
  <1>7. m \in Served
    <2>1. 0 \in Served
      <3>1. f[0].panic = FALSE /\ f[0].total = 0 /\ f[0].rules = <<>>
        <4> DEFINE start == Start(Empty)
        <4>1. start.panic = FALSE /\ start.total = 0 /\ start.rules = <<>>
          BY DEF Start
        <4> HIDE DEF start
        <4> QED
          BY <1>3, <4>1 DEF start
      <3>2. Len(f[0].rules) = 0
        BY <3>1
      <3>3. OnlyServers(0) /\ AllReached(0)
        BY <3>2
      <3> HIDE DEF OnlyServers, AllReached
      <3> QED
        BY <1>1, <3>1, <3>3
    <2>2. ASSUME NEW k \in 0 .. m, k \in Served, k < m PROVE k + 1 \in Served
      <3>1. /\ k \in 0 .. n /\ k < n /\ k + 1 \in 1 .. m /\ k + 1 \in 0 .. m
            /\ (m - (k + 1)) + 1 \in 1 .. m
        BY <1>1, <2>2
      <3>2. list[k + 1] = DirectRuleset(node(k + 1).server)
        BY <3>1 DEF ServersListed
      <3>3. Steady(k) /\ OnlyServers(k) /\ AllReached(k)
        BY <2>2
      <3> DEFINE new == f[k + 1]
                 acc == f[k]
                 server == node(k + 1)
                 c == Len(acc.rules)
      <3>4. /\ AccGood(acc) /\ acc.panic = FALSE /\ acc.total \in 0 .. k
            /\ IsList(acc.rules) /\ c \in Nat
        BY <1>6, <3>1, <3>3, ListLen DEF AccGood
      <3>5. r.max = 0 \/ acc.total < r.max
        <4> HIDE DEF acc
        <4> QED
          BY <1>1, <2>2, <3>4
      <3>6. new = Written(target, acc, DirectRuleset(server.server), r)
        BY <1>4, <3>1, <3>2
      <3>7. \E j \in DOMAIN ns : server = ns[j]
        <4>1. DOMAIN ns = 1 .. m
          BY ListLen
        <4> QED
          BY <3>1, <4>1
      <3> HIDE DEF server, acc, new, Steady, OnlyServers, AllReached, Served
      <3>8. OneMore(acc, new, server) \/ (~Ruled(server, target) /\ NoMore(acc, new))
        BY <3>4, <3>5, <3>6, DirectWritten
      <3>9. CASE OneMore(acc, new, server)
        <4>1. PICK x : new.rules = acc.rules \o <<x>> /\ KeyOf(x) = DirectKey(server)
          BY <3>9 DEF OneMore
        <4>2. /\ Len(new.rules) = c + 1 /\ new.rules[c + 1] = x
              /\ \A i \in 1 .. c : new.rules[i] = acc.rules[i]
          <5> DEFINE old == acc.rules
                     whole == new.rules
          <5>1. IsList(old) /\ whole = old \o <<x>>
            BY <3>4, <4>1
          <5> HIDE DEF old, whole
          <5>2. /\ Len(whole) = Len(old) + 1 /\ whole[Len(old) + 1] = x
                /\ \A i \in 1 .. Len(old) : whole[i] = old[i]
            BY <5>1, OneBehind
          <5> QED
            BY <5>2 DEF old, whole
        <4> HIDE DEF c
        <4>3. Steady(k + 1)
          BY <3>1, <3>4, <3>9 DEF Steady, OneMore, new
        <4>4. OnlyServers(k + 1)
          <5>1. ASSUME NEW i \in 1 .. c PROVE Serves(new.rules, i, ns)
            <6>1. Serves(acc.rules, i, ns)
              BY <3>3 DEF OnlyServers, acc, c
            <6> QED
              BY <4>2, <6>1 DEF Serves
          <5>2. Serves(new.rules, c + 1, ns)
            BY <3>7, <4>1, <4>2 DEF Serves
          <5>3. \A i \in 1 .. (c + 1) : i \in 1 .. c \/ i = c + 1
            BY <3>4
          <5>4. \A i \in 1 .. Len(new.rules) : Serves(new.rules, i, ns)
            BY <4>2, <5>1, <5>2, <5>3
          <5> QED
            BY <5>4 DEF OnlyServers, new
        <4>5. AllReached(k + 1)
          <5>1. ASSUME NEW h \in 1 .. k, Ruled(node(h), target)
                PROVE  Reached(new.rules, c + 1, node(h))
            <6>1. Reached(acc.rules, c, node(h))
              BY <3>3, <5>1 DEF AllReached, acc, c
            <6>2. 1 .. c \subseteq 1 .. (c + 1)
              BY <3>4
            <6> HIDE DEF node
            <6> QED
              BY <4>2, <6>1, <6>2 DEF Reached
          <5>2. Reached(new.rules, c + 1, server)
            <6>1. c + 1 \in 1 .. (c + 1)
              BY <3>4
            <6> QED
              BY <4>1, <4>2, <6>1 DEF Reached
          <5>3. \A h \in 1 .. (k + 1) : h \in 1 .. k \/ h = k + 1
            BY <1>1
          <5> HIDE DEF node
          <5>4. \A h \in 1 .. (k + 1) : Ruled(node(h), target) => Reached(new.rules, c + 1, node(h))
            BY <5>1, <5>2, <5>3 DEF server
          <5> QED
            BY <4>2, <5>4 DEF AllReached, new
        <4> QED
          BY <3>1, <4>3, <4>4, <4>5 DEF Served
      <3>10. CASE ~Ruled(server, target) /\ NoMore(acc, new)
        <4>1. new.rules = acc.rules /\ new.total = acc.total /\ new.panic = FALSE
          BY <3>10 DEF NoMore
        <4>2. Steady(k + 1)
          BY <3>1, <3>4, <4>1 DEF Steady, new
        <4>3. OnlyServers(k + 1)
          BY <3>3, <4>1 DEF OnlyServers, acc, new
        <4>4. AllReached(k + 1)
          <5>1. \A h \in 1 .. (k + 1) : h \in 1 .. k \/ h = k + 1
            BY <1>1
          <5> HIDE DEF node
          <5> QED
            BY <3>3, <3>10, <4>1, <5>1 DEF AllReached, acc, new, server
        <4> QED
          BY <3>1, <4>2, <4>3, <4>4 DEF Served
      <3> QED
        BY <3>8, <3>9, <3>10
    <2>3. 0 .. m \subseteq Served
      <3> HIDE DEF Served
      <3> QED
        BY <1>1, <2>1, <2>2, Climb
    <2> QED
      BY <1>1, <2>3
  \* And behind them the others.
  <1>8. ServersFirst(target, f[m].rules, ns)
    <2> DEFINE c == Len(f[m].rules)
    <2>1. c \in 0 .. c
      <3>1. IsList(f[m].rules)
        BY <1>1, <1>6 DEF AccGood
      <3> QED
        BY <3>1, ListLen
    <2>2. \A i \in 1 .. c : Serves(f[m].rules, i, ns)
      BY <1>7
    <2>3. ASSUME NEW j \in DOMAIN ns, Ruled(ns[j], target) PROVE Reached(f[m].rules, c, ns[j])
      <3>1. DOMAIN ns = 1 .. m
        BY ListLen
      <3>2. (m - j) + 1 \in 1 .. m /\ (m - ((m - j) + 1)) + 1 = j
        BY <1>1, <3>1
      <3>3. \A h \in 1 .. m : Ruled(node(h), target) => Reached(f[m].rules, c, node(h))
        BY <1>7
      <3>4. node((m - j) + 1) = ns[j]
        BY <3>2
      <3> HIDE DEF node, c
      <3> QED
        BY <2>3, <3>2, <3>3, <3>4
    <2> HIDE DEF c
    <2> QED
      BY <2>1, <2>2, <2>3 DEF ServersFirst, c
  <1> DEFINE Kept == {i \in 0 .. n : i >= m => ServersFirst(target, f[i].rules, ns)}
  <1>9. n \in Kept
    <2>1. 0 \in Kept
      <3>1. 0 >= m => m = 0
        BY <1>1
      <3> QED
        BY <1>1, <1>8, <3>1
    <2>2. ASSUME NEW k \in 0 .. n, k \in Kept, k < n PROVE k + 1 \in Kept
      <3>1. k + 1 \in 0 .. n /\ (k + 1 >= m => k + 1 = m \/ k >= m)
        BY <1>1, <2>2
      <3>2. CASE k >= m
        <4> DEFINE old == f[k].rules
                   new == f[k + 1].rules
        <4>1. ServersFirst(target, old, ns)
          BY <2>2, <3>2
        <4>2. Longer(f[k], f[k + 1]) /\ IsList(old) /\ IsList(new)
          BY <1>5, <1>6, <2>2, <3>1 DEF AccGood
        <4>3. Len(old) \in Nat /\ Len(new) \in Nat
          BY <4>2, ListLen
        <4>4. Len(old) <= Len(new) /\ \A i \in 1 .. Len(old) : new[i] = old[i]
          BY <4>2, <4>3 DEF Longer
        <4> HIDE DEF old, new
        <4>5. PICK p \in 0 .. Len(old) :
                /\ \A i \in 1 .. p : Serves(old, i, ns)
                /\ \A j \in DOMAIN ns : Ruled(ns[j], target) => Reached(old, p, ns[j])
          BY <4>1 DEF ServersFirst
        <4>6. p \in 0 .. Len(new) /\ 1 .. p \subseteq 1 .. Len(old)
          BY <4>3, <4>4
        <4>7. \A i \in 1 .. p : new[i] = old[i]
          BY <4>4, <4>6
        <4>8. \A i \in 1 .. p : Serves(new, i, ns)
          BY <4>5, <4>7 DEF Serves
        <4>9. \A j \in DOMAIN ns : Ruled(ns[j], target) => Reached(new, p, ns[j])
          BY <4>5, <4>7 DEF Reached
        <4>10. ServersFirst(target, new, ns)
          BY <4>6, <4>8, <4>9 DEF ServersFirst
        <4> QED
          BY <3>1, <4>10 DEF new
      <3>3. CASE k + 1 = m
        BY <1>8, <3>1, <3>3
      <3>4. CASE ~(k + 1 >= m)
        BY <3>1, <3>4
      <3> QED
        BY <3>1, <3>2, <3>3, <3>4
    <2>3. 0 .. n \subseteq Kept
      <3> HIDE DEF Kept
      <3> QED
        BY <1>1, <2>1, <2>2, Climb
    <2> QED
      BY <1>1, <2>3
  <1>10. ServersFirst(target, f[n].rules, ns)
    BY <1>1, <1>9
  <1> QED
    BY <1>1, <1>6, <1>10

\* They are there, behind nothing but what no ruleset wrote.
ServersSpared(target, rules, ns) ==
  \A j \in DOMAIN ns : Ruled(ns[j], target) => \E k \in DOMAIN rules :
    /\ KeyOf(rules[k]) = DirectKey(ns[j])
    /\ \A i \in 1 .. (k - 1) :
         \/ rules[i] \in Fixed
         \/ \E m \in DOMAIN ns : KeyOf(rules[i]) = DirectKey(ns[m])

LEMMA InFront ==
  ASSUME NEW ns, IsList(ns), NEW first, IsList(first), ToSet(first) \subseteq Fixed,
         NEW mid, IsList(mid), NEW target, ServersFirst(target, mid, ns), NEW rest, IsList(rest),
         NEW rules, rules = (first \o mid) \o rest
  PROVE  ServersSpared(target, rules, ns)
  <1> DEFINE a == Len(first)
             b == Len(mid)
             half == first \o mid
  <1>1. a \in Nat /\ b \in Nat /\ Len(rest) \in Nat
    BY ListLen
  <1>2. /\ IsList(half) /\ Len(half) = a + b
        /\ \A i \in 1 .. a : half[i] = first[i]
        /\ \A i \in 1 .. b : half[a + i] = mid[i]
    BY ListConcat
  <1>3. rules = half \o rest
    OBVIOUS
  <1> HIDE DEF half, a, b
  <1>4. /\ IsList(rules) /\ Len(rules) = (a + b) + Len(rest)
        /\ \A i \in 1 .. (a + b) : rules[i] = half[i]
    <2>1. /\ IsList(half \o rest) /\ Len(half \o rest) = Len(half) + Len(rest)
          /\ \A i \in 1 .. Len(half) : (half \o rest)[i] = half[i]
      BY <1>2, ListConcat
    <2>2. /\ IsList(rules) /\ Len(rules) = Len(half) + Len(rest)
          /\ \A i \in 1 .. Len(half) : rules[i] = half[i]
      BY <1>3, <2>1
    <2> QED
      BY <1>2, <2>2
  <1>5. \A i \in 1 .. a : rules[i] = first[i]
    BY <1>1, <1>2, <1>4
  <1>6. \A i \in 1 .. b : rules[a + i] = mid[i]
    <2>1. \A i \in 1 .. b : a + i \in 1 .. (a + b)
      BY <1>1
    <2> QED
      BY <1>2, <1>4, <2>1
  <1>7. \A i \in 1 .. a : rules[i] \in Fixed
    <2>1. \A i \in 1 .. a : first[i] \in ToSet(first)
      BY ListLen DEF a
    <2> QED
      BY <1>5, <2>1
  <1>8. DOMAIN rules = 1 .. ((a + b) + Len(rest))
    BY <1>4, ListLen
  <1>9. PICK p \in 0 .. b :
          /\ \A i \in 1 .. p : Serves(mid, i, ns)
          /\ \A j \in DOMAIN ns : Ruled(ns[j], target) => Reached(mid, p, ns[j])
    BY DEF ServersFirst, b
  <1>10. ASSUME NEW j \in DOMAIN ns, Ruled(ns[j], target)
         PROVE  \E k \in DOMAIN rules :
                  /\ KeyOf(rules[k]) = DirectKey(ns[j])
                  /\ \A i \in 1 .. (k - 1) :
                       \/ rules[i] \in Fixed
                       \/ \E l \in DOMAIN ns : KeyOf(rules[i]) = DirectKey(ns[l])
    <2>1. PICK q \in 1 .. p : KeyOf(mid[q]) = DirectKey(ns[j])
      BY <1>9, <1>10 DEF Reached
    <2> DEFINE k == a + q
    <2>2. q \in 1 .. b /\ k \in DOMAIN rules
      BY <1>1, <1>8, <2>1
    <2>3. KeyOf(rules[k]) = DirectKey(ns[j])
      BY <1>6, <2>1, <2>2
    <2>4. ASSUME NEW i \in 1 .. (k - 1)
          PROVE  \/ rules[i] \in Fixed
                 \/ \E l \in DOMAIN ns : KeyOf(rules[i]) = DirectKey(ns[l])
      <3>1. CASE i \in 1 .. a
        BY <1>7, <3>1
      <3>2. CASE i \notin 1 .. a
        <4> DEFINE h == i - a
        <4>1. h \in 1 .. p /\ h \in 1 .. b /\ a + h = i
          BY <1>1, <2>1, <3>2
        <4>2. rules[i] = mid[h] /\ Serves(mid, h, ns)
          BY <1>6, <1>9, <4>1
        <4> QED
          BY <4>2 DEF Serves
      <3> QED
        BY <3>1, <3>2
    <2> HIDE DEF k
    <2> QED
      BY <2>2, <2>3, <2>4
  <1> QED
    BY <1>10 DEF ServersSpared

\* What the rulesets of a request become.
LEMMA ClashServers ==
  ASSUME NEW ns, IsList(ns), NEW r \in Exts, r.direct, r.max = 0 \/ Len(ns) <= r.max, NEW base
  PROVE  \E mid : /\ IsList(mid) /\ ServersFirst("clash", mid, ns)
                  /\ RulesetToClash(base, RulesetsOf(ns, r), r).rules
                       = Given(~r.overwrite, base) \o mid
  <1> DEFINE list == RulesetsOf(ns, r)
             n == Len(list)
             Step(f) == [i \in 0 .. n |->
                IF i = 0 THEN Start(Empty) ELSE ClashRuleset(f[i - 1], list[i], r)]
             upto == CHOOSE f : f = Step(f)
             acc == upto[n]
  <1>1. ServersListed(list, ns) /\ n \in Nat
    BY DirectListed, ListLen DEF ServersListed, RulesetsOK
  <1>2. RulesetToClash(base, list, r) = [acc EXCEPT !.rules = Given(~r.overwrite, base) \o acc.rules]
    BY DEF RulesetToClash
  <1> HIDE DEF list
  <1>3. \A f : RuleStep("clash", list, r, n, f) = Step(f)
    BY DEF RuleStep, Written
  <1>4. upto = Step(upto)
    <2>1. \E f : f = Step(f)
      <3>1. PICK f : f = RuleStep("clash", list, r, n, f)
        BY <1>1, RulesSolved DEF RuleRuns
      <3> HIDE DEF Step
      <3> QED
        BY <1>3, <3>1
    <2> HIDE DEF Step
    <2> QED
      BY <2>1, Zenon
  <1> HIDE DEF upto
  <1>5. upto = RuleStep("clash", list, r, n, upto)
    <2> HIDE DEF Step
    <2> QED
      BY <1>3, <1>4
  <1>6. AccGood(acc) /\ ServersFirst("clash", acc.rules, ns)
    <2>1. r.max \in Nat
      BY RequestAssumption
    <2> QED
      BY <1>1, <1>5, <2>1, ServersWritten
  <1> HIDE DEF acc
  <1>7. RulesetToClash(base, list, r).rules = Given(~r.overwrite, base) \o acc.rules
    BY <1>2, <1>6 DEF AccGood
  <1> DEFINE mid == acc.rules
  <1>8. IsList(mid) /\ ServersFirst("clash", mid, ns)
        /\ RulesetToClash(base, list, r).rules = Given(~r.overwrite, base) \o mid
    BY <1>6, <1>7 DEF AccGood
  <1> HIDE DEF mid
  <1> QED
    BY <1>8 DEF list

LEMMA SingBoxServers ==
  ASSUME NEW ns, IsList(ns), NEW r \in Exts, r.direct, r.max = 0 \/ Len(ns) <= r.max, NEW base
  PROVE  \E mid : /\ IsList(mid) /\ ServersFirst("singbox", mid, ns)
                  /\ RulesetToSingBox(base, RulesetsOf(ns, r), r).rules
                       = ((Given(~r.overwrite, base) \o Given(r.modes, ClashModes))
                          \o << <<"protocol", "dns", "dns-out">> >>) \o mid
  <1> DEFINE list == RulesetsOf(ns, r)
             n == Len(list)
             Step(f) == [i \in 0 .. n |->
                IF i = 0 THEN Start(Empty) ELSE SingBoxRuleset(f[i - 1], list[i], r)]
             upto == CHOOSE f : f = Step(f)
             acc == upto[n]
             first == (Given(~r.overwrite, base) \o Given(r.modes, ClashModes))
                      \o << <<"protocol", "dns", "dns-out">> >>
  <1>1. ServersListed(list, ns) /\ n \in Nat
    BY DirectListed, ListLen DEF ServersListed, RulesetsOK
  <1>2. RulesetToSingBox(base, list, r) = [acc EXCEPT !.rules = first \o acc.rules]
    BY DEF RulesetToSingBox
  <1> HIDE DEF list, first
  <1>3. \A f : RuleStep("singbox", list, r, n, f) = Step(f)
    BY DEF RuleStep, Written
  <1>4. upto = Step(upto)
    <2>1. \E f : f = Step(f)
      <3>1. PICK f : f = RuleStep("singbox", list, r, n, f)
        BY <1>1, RulesSolved DEF RuleRuns
      <3> HIDE DEF Step
      <3> QED
        BY <1>3, <3>1
    <2> HIDE DEF Step
    <2> QED
      BY <2>1, Zenon
  <1> HIDE DEF upto
  <1>5. upto = RuleStep("singbox", list, r, n, upto)
    <2> HIDE DEF Step
    <2> QED
      BY <1>3, <1>4
  <1>6. AccGood(acc) /\ ServersFirst("singbox", acc.rules, ns)
    <2>1. r.max \in Nat
      BY RequestAssumption
    <2> QED
      BY <1>1, <1>5, <2>1, ServersWritten
  <1> HIDE DEF acc
  <1>7. RulesetToSingBox(base, list, r).rules = first \o acc.rules
    BY <1>2, <1>6 DEF AccGood
  <1> DEFINE mid == acc.rules
  <1>8. IsList(mid) /\ ServersFirst("singbox", mid, ns) /\ RulesetToSingBox(base, list, r).rules = first \o mid
    BY <1>6, <1>7 DEF AccGood
  <1> HIDE DEF mid
  <1> QED
    BY <1>8 DEF list, first

\* A Clash configuration, and one of sing-box, spare the servers.
LEMMA ClashSpares ==
  ASSUME IInv, NEW clash_r \in BOOLEAN, ToClash(clash_r), ~ext.nodelist, ext.direct,
         ext.max = 0 \/ Len(nodes) <= ext.max
  PROVE  ServersSpared("clash", content'.rules, nodes)
  <1> DEFINE base == BaseConf["clash"]
             first == Given(~ext.overwrite, base)
             acc == RulesetToClash(base, RulesetsOf(nodes, ext), ext)
             none == <<>>
  <1>1. IsList(nodes) /\ ext \in Exts
    BY DEF IInv, AllOK, TypeOK
  <1>2. content'.rules = acc.rules
    <2>1. ProxyToClash(nodes, clash_r, ext).rules = acc.rules
      BY DEF ProxyToClash, Plain
    <2>2. content'.rules = ProxyToClash(nodes, clash_r, ext).rules
      BY DEF ToClash, PublishWhole, Publish, Content
    <2> QED
      BY <2>1, <2>2
  <1>3. IsList(first) /\ ToSet(first) \subseteq Fixed
    <2>1. IsList(base)
      BY BaseAssumption
    <2>2. ToSet(base) \subseteq Fixed
      BY DEF Fixed
    <2> HIDE DEF base
    <2> QED
      BY <2>1, <2>2, GivenList
  <1>4. PICK mid : IsList(mid) /\ ServersFirst("clash", mid, nodes) /\ acc.rules = first \o mid
    BY <1>1, ClashServers
  <1> HIDE DEF first, acc
  <1>5. IsList(none) /\ content'.rules = (first \o mid) \o none
    <2>1. IsList(first \o mid)
      BY <1>3, <1>4, ListConcat
    <2> DEFINE half == first \o mid
    <2>2. content'.rules = half
      BY <1>2, <1>4
    <2> HIDE DEF half
    <2>3. half \o <<>> = half
      BY <2>1, ConcatEmptySeq DEF IsList, half
    <2> QED
      BY <2>2, <2>3, EmptyList DEF half
  <1> HIDE DEF none
  <1> QED
    BY <1>1, <1>3, <1>4, <1>5, InFront

LEMMA SingBoxSpares ==
  ASSUME IInv, ToSingBox, ~ext.nodelist, ext.direct, ext.max = 0 \/ Len(nodes) <= ext.max
  PROVE  ServersSpared("singbox", content'.rules, nodes)
  <1> DEFINE base == BaseConf["singbox"]
             dns == <<"protocol", "dns", "dns-out">>
             own == Given(~ext.overwrite, base)
             modes == Given(ext.modes, ClashModes)
             first == (own \o modes) \o <<dns>>
             acc == RulesetToSingBox(base, RulesetsOf(nodes, ext), ext)
             rest == Given(acc.final # "", << <<"final", acc.final>> >>)
  <1>1. IsList(nodes) /\ ext \in Exts
    BY DEF IInv, AllOK, TypeOK
  <1>2. content'.rules = acc.rules \o rest
    <2>1. ProxyToSingBox(nodes, ext).rules = acc.rules \o rest
      BY DEF ProxyToSingBox
    <2>2. content'.rules = ProxyToSingBox(nodes, ext).rules
      BY DEF ToSingBox, PublishWhole, Publish, Content
    <2> QED
      BY <2>1, <2>2
  <1>3. IsList(first) /\ ToSet(first) \subseteq Fixed
    <2>1. IsList(own) /\ ToSet(own) \subseteq Fixed
      <3>1. IsList(base)
        BY BaseAssumption
      <3>2. ToSet(base) \subseteq Fixed
        BY DEF Fixed
      <3> HIDE DEF base
      <3> QED
        BY <3>1, <3>2, GivenList
    <2>2. IsList(modes) /\ ToSet(modes) \subseteq Fixed
      <3>1. IsList(ClashModes)
        <4> DEFINE X == {<<"clash_mode", "Global", "GLOBAL">>, <<"clash_mode", "Direct", "DIRECT">>}
        <4>1. ClashModes \in Seq(X)
          BY DEF ClashModes
        <4> HIDE DEF X
        <4> QED
          BY <4>1, ListOf
      <3>2. ToSet(ClashModes) \subseteq Fixed
        BY DEF Fixed
      <3> QED
        BY <3>1, <3>2, GivenList
    <2>3. IsList(<<dns>>) /\ ToSet(<<dns>>) = {dns} /\ dns \in Fixed
      BY SingleList DEF Fixed
    <2> HIDE DEF own, modes, dns
    <2>4. IsList(own \o modes) /\ ToSet(own \o modes) \subseteq Fixed
      BY <2>1, <2>2, ListConcat, ConcatSet
    <2> DEFINE half == own \o modes
               one == <<dns>>
    <2> HIDE DEF half, one
    <2>5. IsList(half \o one) /\ ToSet(half \o one) = ToSet(half) \cup ToSet(one)
      BY <2>3, <2>4, ListConcat, ConcatSet DEF half, one
    <2> QED
      BY <2>3, <2>4, <2>5 DEF half, one
  <1>4. IsList(rest)
    BY SingleList, GivenList
  <1>5. PICK mid : IsList(mid) /\ ServersFirst("singbox", mid, nodes) /\ acc.rules = first \o mid
    <2>1. \E mid : /\ IsList(mid) /\ ServersFirst("singbox", mid, nodes)
                   /\ RulesetToSingBox(base, RulesetsOf(nodes, ext), ext).rules
                        = ((Given(~ext.overwrite, base) \o Given(ext.modes, ClashModes))
                           \o << <<"protocol", "dns", "dns-out">> >>) \o mid
      <3>1. ext.max = 0 \/ Len(nodes) <= ext.max
        OBVIOUS
      <3> HIDE DEF base
      <3> QED
        BY <1>1, <3>1, SingBoxServers
    <2> QED
      BY <2>1
  <1> HIDE DEF first, acc, rest
  <1> QED
    BY <1>1, <1>2, <1>3, <1>4, <1>5, InFront

LEMMA DirectStep ==
  ASSUME IInv, [Next]_vars
  PROVE  [WithPolicy(content') /\ content'.form \in {"clash", "singbox"} /\ ext.direct
          /\ (ext.max = 0 \/ Len(nodes) <= ext.max) => ServersSpared(content'.form, content'.rules, nodes)]_vars
  <1>1. ASSUME NEW clash_r \in BOOLEAN, ToClash(clash_r), WithPolicy(content'), ext.direct,
               ext.max = 0 \/ Len(nodes) <= ext.max
        PROVE  ServersSpared(content'.form, content'.rules, nodes)
    <2>1. content'.form = "clash"
      BY <1>1 DEF ToClash, PublishWhole, Publish, Content
    <2> QED
      BY <1>1, <2>1, ClashSpares DEF WithPolicy
  <1>2. ASSUME ToSingBox, WithPolicy(content'), ext.direct, ext.max = 0 \/ Len(nodes) <= ext.max
        PROVE  ServersSpared(content'.form, content'.rules, nodes)
    <2>1. content'.form = "singbox"
      BY <1>2 DEF ToSingBox, PublishWhole, Publish, Content
    <2> QED
      BY <1>2, <2>1, SingBoxSpares DEF WithPolicy
  <1>3. ASSUME NEW ver \in {2, 3, 4, Surfboard}, ToSurge(ver)
        PROVE  content'.form \notin {"clash", "singbox"}
    BY <1>3 DEF ToSurge, PublishWhole, Publish, Content
  <1>4. CASE ToLoon \/ ToQuan \/ ToQuanX \/ ToMellow
    <2>1. content'.form \notin {"clash", "singbox"}
      BY <1>4 DEF ToLoon, ToQuan, ToQuanX, ToMellow, PublishWhole, Publish, Content
    <2> QED
      BY <2>1
  <1>5. ASSUME NEW types \in LinkTargets, ToLinks(types)
        PROVE  content'.form \notin {"clash", "singbox"}
    BY <1>5 DEF ToLinks, Publish, Content
  <1>6. CASE ToSsd \/ ToSsSub
    <2>1. content'.form \notin {"clash", "singbox"}
      BY <1>6 DEF ToSsd, ToSsSub, Publish, Content
    <2> QED
      BY <2>1
  <1> QED
    BY <1>1, <1>2, <1>3, <1>4, <1>5, <1>6 DEF Next

\* For any nodes, rulesets and requests that put the servers first: in a text of Clash or
\* sing-box no rule of a ruleset stands before the one that sends a server directly
\* (prepend_proxy_direct_ruleset(), and the order ruleset_to_clash_str() and
\* ruleset_to_sing_box() keep).
THEOREM ServersStayDirect == Spec => DirectFirst
  <1>1. Init => IInv
    BY InitIInv
  <1>2. IInv /\ [Next]_vars => IInv'
    BY StepIInv
  <1>3. IInv /\ [Next]_vars =>
          [WithPolicy(content') /\ content'.form \in {"clash", "singbox"} /\ ext.direct
           /\ (ext.max = 0 \/ Len(nodes) <= ext.max) =>
             \A j \in DOMAIN nodes : Ruled(nodes[j], content'.form) =>
               \E k \in DOMAIN content'.rules :
                 /\ KeyOf(content'.rules[k]) = DirectKey(nodes[j])
                 /\ \A i \in 1 .. (k - 1) :
                      \/ content'.rules[i] \in Fixed
                      \/ \E m \in DOMAIN nodes :
                           KeyOf(content'.rules[i]) = DirectKey(nodes[m])]_vars
    BY DirectStep DEF ServersSpared
  <1> QED
    BY <1>1, <1>2, <1>3, PTL DEF Spec, DirectFirst
=============================================================================
