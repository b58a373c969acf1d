-------------------------- MODULE ConnectionProofs ---------------------------
(***************************************************************************)
(* What module Connection promises, for any number of connections, any     *)
(* messages, base of the numbers and limits: parsing a message yields the  *)
(* request it stands for and nothing else, and what is carried out and     *)
(* answered is that request.                                               *)
(***************************************************************************)
EXTENDS Connection, Integers, QueueLemmas, NaturalsInduction

Digits == 0 .. Base - 1

-----------------------------------------------------------------------------
(* Numbers and their digits.                                                *)

\* Quotient and remainder of a division by a number other than 0 and 1.
LEMMA DivisionStep ==
  ASSUME NEW n \in Nat, NEW b \in Nat \ {0, 1}
  PROVE  /\ n \div b \in Nat
         /\ n % b \in 0 .. b - 1
         /\ n = b * (n \div b) + (n % b)
         /\ n >= b => n \div b \in 1 .. n - 1
<1>1. /\ n \div b \in Int
      /\ n % b \in 0 .. b - 1
      /\ n = b * (n \div b) + (n % b)
  OBVIOUS
<1>2. PICK q \in Int, r \in Int : q = n \div b /\ r = n % b
  BY <1>1
<1>3. q >= 0
  <2> SUFFICES ASSUME q <= -1 PROVE FALSE
    BY <1>2
  <2>1. b * q <= b * (-1)
    BY <1>2
  <2> QED BY <1>1, <1>2, <2>1
<1>4. ASSUME n >= b PROVE q \in 1 .. n - 1
  <2>1. q # 0
    BY <1>1, <1>2, <1>4
  <2>2. 2 * q <= b * q
    BY <1>2, <1>3
  <2> QED BY <1>1, <1>2, <1>3, <2>1, <2>2
<1> QED BY <1>1, <1>2, <1>3, <1>4

\* std::to_string: the digits of the number without its last, and the last.  The
\* recursive definition has a solution, which is put together from functions
\* that follow it k calls deep.
LEMMA ToStringStep ==
  ASSUME NEW n \in Nat
  PROVE  to_string[n] = IF n < Base THEN <<n>>
                        ELSE Append(to_string[n \div Base], n % Base)
<1> DEFINE Def(f, k) == IF k < Base THEN <<k>> ELSE Append(f[k \div Base], k % Base)
           Body(f) == [k \in Nat |-> Def(f, k)]
           Deeper(f, i) == Body(f)
           Deep == CHOOSE g : g = [i \in Nat |-> IF i = 0 THEN <<>> ELSE Deeper(g[i - 1], i)]
<1>1. Deep = [i \in Nat |-> IF i = 0 THEN <<>> ELSE Deeper(Deep[i - 1], i)]
  <2>1. NatInductiveDefHypothesis(Deep, <<>>, Deeper)
    BY DEF NatInductiveDefHypothesis
  <2> HIDE DEF Deep, Deeper
  <2>2. NatInductiveDefConclusion(Deep, <<>>, Deeper)
    BY <2>1, NatInductiveDef
  <2> QED BY <2>2 DEF NatInductiveDefConclusion
<1> HIDE DEF Deep
<1>2. \A i \in Nat \ {0} : Deep[i] = Body(Deep[i - 1])
  BY <1>1
<1>3. ASSUME NEW k \in Nat, k >= Base PROVE k \div Base \in 1 .. k - 1
  BY <1>3, NumbersAssumption, DivisionStep
<1> DEFINE Same(k) == \A i, j \in Nat : i > k /\ j > k => Deep[i][k] = Deep[j][k]
           T == {k \in Nat : ~Same(k)}
<1>4. T = {}
  <2> SUFFICES ASSUME T # {} PROVE FALSE
    OBVIOUS
  <2>1. T \in SUBSET Nat
    OBVIOUS
  <2>2. PICK m \in T : \A k \in T : m <= k
    <3> HIDE DEF T
    <3> QED BY <2>1, LeastElement
  <2>3. PICK i, j \in Nat : i > m /\ j > m /\ Deep[i][m] # Deep[j][m]
    BY <2>2
  <2>4. Deep[i][m] = Def(Deep[i - 1], m) /\ Deep[j][m] = Def(Deep[j - 1], m)
    <3>1. i \in Nat \ {0} /\ j \in Nat \ {0} /\ m \in Nat
      BY <2>2, <2>3
    <3>2. \A f : Body(f)[m] = Def(f, m)
      BY <3>1
    <3> HIDE DEF Body, Def
    <3> QED BY <1>2, <3>1, <3>2
  <2>5. m >= Base
    BY <2>2, <2>3, <2>4, NumbersAssumption
  <2>6. m \div Base \in 1 .. m - 1
    BY <1>3, <2>2, <2>5
  <2>7. Same(m \div Base)
    <3> HIDE DEF Same
    <3> QED BY <2>2, <2>6
  <2>8. i - 1 \in Nat /\ i - 1 > m \div Base /\ j - 1 \in Nat /\ j - 1 > m \div Base
    BY <2>3, <2>6
  <2>9. Deep[i - 1][m \div Base] = Deep[j - 1][m \div Base]
    BY <2>7, <2>8
  <2> QED BY <2>3, <2>4, <2>9
<1> DEFINE G == [k \in Nat |-> Deep[k + 1][k]]
<1>5. G = Body(G)
  <2> SUFFICES ASSUME NEW k \in Nat PROVE Deep[k + 1][k] = Def(G, k)
    OBVIOUS
  <2>1. Deep[k + 1][k] = Def(Deep[k], k)
    <3>1. k + 1 \in Nat \ {0} /\ (k + 1) - 1 = k
      OBVIOUS
    <3> HIDE DEF Def
    <3> QED BY <1>2, <3>1
  <2>2. ASSUME k >= Base PROVE Deep[k][k \div Base] = G[k \div Base]
    <3>1. PICK q : q = k \div Base
      OBVIOUS
    <3>2. q \in 1 .. k - 1
      BY <1>3, <2>2, <3>1
    <3>3. Same(q)
      <4> HIDE DEF Same
      <4> QED BY <1>4, <3>2
    <3>4. k > q /\ q + 1 > q /\ q \in Nat /\ q + 1 \in Nat
      BY <3>2
    <3> QED BY <3>1, <3>3, <3>4
  <2> HIDE DEF G
  <2>3. k < Base \/ k >= Base
    BY NumbersAssumption
  <2> QED BY <2>1, <2>2, <2>3
<1>6. to_string = CHOOSE f : f = Body(f)
  BY DEF to_string
<1> HIDE DEF G, Body
<1>7. to_string = Body(to_string)
  BY <1>5, <1>6
<1>8. to_string[n] = Def(to_string, n)
  BY <1>7 DEF Body
<1> QED BY <1>8

\* The value of a sequence of digits is what a loop over them computes.
LEMMA ValueLoop ==
  ASSUME NEW s \in Seq(Digits)
  PROVE  \E v \in [0 .. Len(s) -> Nat] :
           /\ v[0] = 0
           /\ \A k \in 1 .. Len(s) : v[k] = Base * v[k - 1] + s[k]
           /\ ValueOf(s) = v[Len(s)]
<1> DEFINE Step(w, k) == Base * w + s[k]
           v == CHOOSE g : g = [i \in 0 .. Len(s) |->
                                  IF i = 0 THEN 0 ELSE Step(g[i - 1], i)]
<1>1. ValueOf(s) = v[Len(s)]
  BY DEF ValueOf
<1>2. FiniteNatInductiveDefHypothesis(v, 0, Step, 0, Len(s))
  BY DEF FiniteNatInductiveDefHypothesis
<1> HIDE DEF v
<1>3. Len(s) \in Nat
  OBVIOUS
<1>4. FiniteNatInductiveDefConclusion(v, 0, Step, 0, Len(s))
  <2> HIDE DEF Step
  <2> QED BY <1>2, <1>3, FiniteNatInductiveDef
<1>5. \A w \in Nat, k \in 1 .. Len(s) : Step(w, k) \in Nat
  <2> SUFFICES ASSUME NEW w \in Nat, NEW k \in 1 .. Len(s) PROVE Step(w, k) \in Nat
    OBVIOUS
  <2>1. Base \in Nat
    BY NumbersAssumption
  <2>2. s[k] \in Nat
    BY <2>1 DEF Digits
  <2>3. \A b, x, y \in Nat : b * x + y \in Nat
    OBVIOUS
  <2> QED BY <2>1, <2>2, <2>3
<1>6. v = [i \in 0 .. Len(s) |-> IF i = 0 THEN 0 ELSE Step(v[i - 1], i)]
  BY <1>4 DEF FiniteNatInductiveDefConclusion
<1>7. v \in [0 .. Len(s) -> Nat]
  <2> DEFINE T == {k \in 0 .. Len(s) : v[k] \notin Nat}
  <2> SUFFICES ASSUME T # {} PROVE FALSE
    BY <1>6
  <2>1. T \in SUBSET Nat
    OBVIOUS
  <2>2. PICK m \in T : \A k \in T : m <= k
    <3> HIDE DEF T
    <3> QED BY <2>1, LeastElement
  <2> HIDE DEF Step
  <2>3. m \in 1 .. Len(s) /\ m - 1 \in 0 .. Len(s) /\ v[m] = Step(v[m - 1], m)
    BY <1>3, <1>6, <2>2
  <2>4. v[m - 1] \in Nat
    BY <2>2, <2>3
  <2> QED BY <1>5, <2>2, <2>3, <2>4
<1>8. v[0] = 0 /\ \A k \in 1 .. Len(s) : v[k] = Base * v[k - 1] + s[k]
  BY <1>3, <1>6
<1> QED BY <1>1, <1>7, <1>8

\* One more digit.
LEMMA ValueAppend ==
  ASSUME NEW s \in Seq(Digits), NEW d \in Digits
  PROVE  /\ ValueOf(s) \in Nat
         /\ ValueOf(Append(s, d)) = Base * ValueOf(s) + d
<1>1. PICK v \in [0 .. Len(s) -> Nat] :
        /\ v[0] = 0
        /\ \A k \in 1 .. Len(s) : v[k] = Base * v[k - 1] + s[k]
        /\ ValueOf(s) = v[Len(s)]
  BY ValueLoop
<1>2. PICK t : t = Append(s, d)
  OBVIOUS
<1>3. /\ t \in Seq(Digits)
      /\ Len(t) = Len(s) + 1
      /\ \A k \in 1 .. Len(s) : s[k] = t[k]
      /\ t[Len(s) + 1] = d
  BY <1>2
<1>4. PICK w \in [0 .. Len(t) -> Nat] :
        /\ w[0] = 0
        /\ \A k \in 1 .. Len(t) : w[k] = Base * w[k - 1] + t[k]
        /\ ValueOf(t) = w[Len(t)]
  BY <1>3, ValueLoop
<1>5. PICK n \in Nat : n = Len(s)
  OBVIOUS
<1>6. /\ \A k \in 1 .. n : s[k] = t[k]
      /\ v[0] = 0 /\ \A k \in 1 .. n : v[k] = Base * v[k - 1] + s[k]
      /\ w[0] = 0 /\ \A k \in 1 .. n : w[k] = Base * w[k - 1] + t[k]
  BY <1>1, <1>3, <1>4, <1>5
<1>7. v[n] = w[n]
  <2> DEFINE T == {k \in 0 .. n : v[k] # w[k]}
  <2> SUFFICES ASSUME n \in T PROVE FALSE
    OBVIOUS
  <2>1. T \in SUBSET Nat
    OBVIOUS
  <2>2. PICK m \in T : \A k \in T : m <= k
    <3> HIDE DEF T
    <3> QED BY <2>1, LeastElement
  <2>3. m \in 1 .. n /\ m - 1 \in 0 .. n /\ m - 1 \notin T
    BY <1>6, <2>2
  <2>4. v[m - 1] = w[m - 1]
    BY <2>3
  <2>5. v[m] = w[m]
    BY <1>6, <2>3, <2>4
  <2> QED BY <2>2, <2>5
<1>8. Len(s) + 1 \in 1 .. Len(t) /\ (Len(s) + 1) - 1 = Len(s)
  BY <1>3, <1>5
<1>9. w[Len(s) + 1] = Base * w[Len(s)] + d
  BY <1>3, <1>4, <1>8
<1> QED BY <1>1, <1>2, <1>3, <1>4, <1>5, <1>7, <1>9

\* A number has digits, without a leading zero, and they stand for it.
LEMMA ToString ==
  ASSUME NEW n \in Nat
  PROVE  /\ to_string[n] \in Seq(Digits)
         /\ Len(to_string[n]) >= 1
         /\ Len(to_string[n]) = 1 \/ to_string[n][1] # 0
         /\ ValueOf(to_string[n]) = n
<1> DEFINE P(k) == /\ to_string[k] \in Seq(Digits)
                   /\ Len(to_string[k]) >= 1
                   /\ k >= Base => to_string[k][1] # 0
                   /\ k < Base => to_string[k] = <<k>>
                   /\ ValueOf(to_string[k]) = k
           T == {k \in Nat : ~P(k)}
<1>0. Base \in Nat \ {0, 1}
  BY NumbersAssumption
<1>1. ASSUME NEW k \in Nat, k < Base PROVE P(k)
  <2>1. to_string[k] = <<k>>
    BY <1>1, ToStringStep
  <2>2. <<>> \in Seq(Digits) /\ k \in Digits /\ <<k>> = Append(<<>>, k)
    BY <1>0, <1>1 DEF Digits
  <2>3. PICK v \in [0 .. Len(<<>>) -> Nat] : v[0] = 0 /\ ValueOf(<<>>) = v[Len(<<>>)]
    BY <2>2, ValueLoop
  <2>4. ValueOf(<<>>) = 0
    BY <2>3
  <2>5. ValueOf(<<k>>) = Base * 0 + k
    BY <2>2, <2>4, ValueAppend
  <2>6. ValueOf(<<k>>) = k
    BY <1>0, <2>5
  <2>7. <<k>> \in Seq(Digits) /\ Len(<<k>>) = 1
    BY <2>2
  <2> QED BY <1>0, <1>1, <2>1, <2>6, <2>7
<1>2. ASSUME NEW k \in Nat, k >= Base, P(k \div Base) PROVE P(k)
  <2>1. PICK s, q, d : s = to_string[k \div Base] /\ q = k \div Base /\ d = k % Base
    OBVIOUS
  <2>2. q \in 1 .. k - 1 /\ d \in Digits /\ k = Base * q + d
    BY <1>0, <1>2, <2>1, DivisionStep DEF Digits
  <2>3. to_string[k] = Append(s, d)
    <3>1. ~(k < Base)
      BY <1>0, <1>2
    <3> QED BY <2>1, <3>1, ToStringStep
  <2>4. s \in Seq(Digits) /\ Len(s) >= 1 /\ ValueOf(s) = q
    BY <1>2, <2>1
  <2>5. s[1] # 0
    <3>1. CASE q >= Base
      BY <1>2, <2>1, <3>1
    <3>2. CASE q < Base
      BY <1>2, <2>1, <2>2, <3>2
    <3> QED BY <1>0, <2>2, <3>1, <3>2
  <2>6. ValueOf(Append(s, d)) = k
    BY <2>2, <2>4, ValueAppend
  <2>7. /\ Append(s, d) \in Seq(Digits)
        /\ Len(Append(s, d)) >= 1
        /\ Append(s, d)[1] = s[1]
    BY <2>2, <2>4
  <2> QED BY <1>0, <1>2, <2>3, <2>5, <2>6, <2>7
<1>3. T = {}
  <2> SUFFICES ASSUME T # {} PROVE FALSE
    OBVIOUS
  <2>1. T \in SUBSET Nat
    OBVIOUS
  <2>2. PICK m \in T : \A k \in T : m <= k
    <3> HIDE DEF T
    <3> QED BY <2>1, LeastElement
  <2>3. m \in Nat /\ ~P(m)
    OBVIOUS
  <2> HIDE DEF P
  <2>4. m >= Base
    BY <1>0, <1>1, <2>3
  <2>5. m \div Base \in 1 .. m - 1
    BY <1>0, <2>3, <2>4, DivisionStep
  <2>6. m \div Base \notin T
    BY <2>2, <2>3, <2>5
  <2>7. P(m \div Base)
    BY <2>5, <2>6
  <2> QED BY <1>2, <2>3, <2>4, <2>7
<1>4. P(n)
  BY <1>3
<1>5. n < Base => Len(to_string[n]) = 1
  <2>1. Len(<<n>>) = 1
    OBVIOUS
  <2> QED BY <1>4, <2>1
<1> QED BY <1>0, <1>4, <1>5

\* The digits that std::to_string writes are read back by atoi.
LEMMA ReadBack ==
  ASSUME NEW b \in 0 .. UINT_MAX
  PROVE  atoi(to_string[b]) = b
<1>1. PICK m \in Nat, l \in Nat : m = UINT_MAX /\ l = LONG_MAX
  BY NumbersAssumption
<1>2. b \in Nat /\ b <= m
  BY <1>1
<1>3. m <= l
  <2> SUFFICES ASSUME l + 1 < m + 1 PROVE FALSE
    BY <1>1
  <2>1. (l + 1) % (m + 1) = l + 1
    BY <1>1
  <2> QED BY <1>1, <2>1, NumbersAssumption
<1>4. b % (m + 1) = b
  BY <1>2
<1>5. ValueOf(to_string[b]) = b
  BY <1>2, ToString
<1> QED BY <1>1, <1>2, <1>3, <1>4, <1>5 DEF atoi

\* atoi yields a value of uint32_t.
LEMMA AtoiRange ==
  ASSUME NEW s \in Seq(Digits)
  PROVE  atoi(s) \in 0 .. UINT_MAX
<1>1. ValueOf(s) \in Nat
  <2>1. 0 \in Digits
    BY NumbersAssumption DEF Digits
  <2> QED BY <2>1, ValueAppend
<1>2. PICK n \in Nat, m \in Nat :
        m = UINT_MAX /\ n = IF ValueOf(s) > LONG_MAX THEN LONG_MAX ELSE ValueOf(s)
  BY <1>1, NumbersAssumption
<1>3. n % (m + 1) \in 0 .. m
  OBVIOUS
<1> QED BY <1>2, <1>3 DEF atoi

-----------------------------------------------------------------------------
(* Parsing.                                                                 *)

\* The request that Message_Parsing reads off a message of some type.
RequestOf(m) ==
  LET type == Find_Request_Type(m)
  IN [type |-> type, username |-> m.username, pathname |-> m.pathname,
      block |-> IF type \in {"READ", "WRITE"} THEN atoi(m.digits) ELSE 0,
      inode_type |-> IF type = "CREATE" THEN Head(m.letters) ELSE ""]

\* What Message_Parsing demands of a message before it returns its request.
Accepted(m) ==
  LET type == Find_Request_Type(m)
  IN /\ type # "none"
     /\ type \in {"READ", "WRITE"} => m.digits[1] # 0 \/ Len(m.digits) = 1
     /\ type = "CREATE" => Len(m.letters) = 1
     /\ MessageOf(RequestOf(m)) = m
     /\ Check_Valid_Request(RequestOf(m))

\* Message_Parsing returns one request or none.
LEMMA ParsingCases ==
  ASSUME NEW m
  PROVE  Message_Parsing(m) = IF Accepted(m) THEN {RequestOf(m)} ELSE {}
BY DEF Message_Parsing, Accepted, RequestOf

\* What regex_match finds out about a message.
LEMMA RequestTypes ==
  ASSUME NEW m \in Messages
  PROVE  \/ /\ Find_Request_Type(m) = "READ"
            /\ m.digits # <<>> /\ m.letters = <<>>
         \/ /\ Find_Request_Type(m) = "WRITE"
            /\ m.digits # <<>> /\ m.letters = <<>>
         \/ /\ Find_Request_Type(m) = "CREATE"
            /\ m.digits = <<>> /\ m.letters # <<>>
         \/ /\ Find_Request_Type(m) = "DELETE"
            /\ m.digits = <<>> /\ m.letters = <<>>
         \/ Find_Request_Type(m) = "none"
BY DEF Find_Request_Type

\* The request read off a message has the types of request_t.
LEMMA RequestTyped ==
  ASSUME NEW m \in Messages, Find_Request_Type(m) # "none"
  PROVE  RequestOf(m) \in Requests
<1>1. PICK type, digits, letters :
        type = Find_Request_Type(m) /\ digits = m.digits /\ letters = m.letters
  OBVIOUS
<1>2. digits \in Seq(Digits) /\ letters \in Seq({"f", "d"})
  BY <1>1 DEF Messages, Digits
<1>3. /\ type \in {"READ", "WRITE", "CREATE", "DELETE"}
      /\ type = "CREATE" => letters # <<>>
  BY <1>1, RequestTypes
<1>4. type = "CREATE" => Head(letters) \in {"f", "d"}
  BY <1>2, <1>3
<1>5. atoi(digits) \in 0 .. UINT_MAX /\ 0 \in 0 .. UINT_MAX
  BY <1>2, AtoiRange, NumbersAssumption
<1>6. type \in DOMAIN Protocol
  BY <1>3 DEF Protocol
<1>7. m.username \in Nat /\ m.pathname \in Pathnames
  BY DEF Messages
<1> QED BY <1>1, <1>4, <1>5, <1>6, <1>7 DEF RequestOf, Requests

\* A request that passes the checks is one of fs_client.h that may be carried
\* out, and the message stands for it.
LEMMA AcceptedIsMeant ==
  ASSUME NEW m \in Messages, Accepted(m)
  PROVE  RequestOf(m) \in Meanings(m)
<1>1. PICK r : r = RequestOf(m)
  OBVIOUS
<1>2. r \in Requests /\ MessageOf(r) = m /\ Check_Valid_Request(r)
  BY <1>1, RequestTyped DEF Accepted
<1>3. r.pathname \in ValidPathnames
  <2>1. PICK p \in Pathnames : p = r.pathname
    BY <1>2 DEF Requests
  <2>2. /\ p.length \in 1 .. FS_MAXPATHNAME
        /\ p.rooted = TRUE /\ p.slash_at_end = FALSE
        /\ p.length # 1
    BY <1>2, <2>1, NumbersAssumption DEF Pathnames, Check_Valid_Request
  <2>3. p = [length |-> p.length, rooted |-> p.rooted, slash_at_end |-> p.slash_at_end]
    BY <2>1 DEF Pathnames
  <2>4. p.length \in 2 .. FS_MAXPATHNAME
    BY <2>2, NumbersAssumption
  <2> QED BY <2>1, <2>2, <2>3, <2>4 DEF ValidPathnames
<1>4. /\ r.block \in 0 .. FS_MAXFILEBLOCKS - 1
      /\ r.username \in 1 .. FS_MAXUSERNAME
  <2>1. PICK b, n, u : b = r.block /\ n = FS_MAXFILEBLOCKS /\ u = UINT_MAX
    OBVIOUS
  <2>2. b \in 0 .. u
    BY <1>2, <2>1 DEF Requests
  <2>3. b < n /\ r.username \in 1 .. FS_MAXUSERNAME
    BY <1>2, <2>1 DEF Check_Valid_Request
  <2>4. u \in Nat /\ n \in Nat
    BY <2>1, NumbersAssumption
  <2>5. b \in 0 .. n - 1
    BY <2>2, <2>3, <2>4
  <2> QED BY <2>1, <2>3, <2>5
<1>5. r = [type |-> r.type, username |-> r.username, pathname |-> r.pathname,
           block |-> r.block, inode_type |-> r.inode_type]
  BY <1>2 DEF Requests
<1>6. \/ r.type \in {"READ", "WRITE"} /\ r.inode_type = ""
      \/ r.type = "CREATE" /\ r.block = 0 /\ r.inode_type \in {"f", "d"}
      \/ r.type = "DELETE" /\ r.block = 0 /\ r.inode_type = ""
  <2>1. PICK type : type = Find_Request_Type(m)
    OBVIOUS
  <2>2. /\ r.type = type
        /\ type \notin {"READ", "WRITE"} => r.block = 0
        /\ type # "CREATE" => r.inode_type = ""
        /\ type = "CREATE" => r.inode_type = Head(m.letters)
    BY <1>1, <2>1 DEF RequestOf
  <2>3. type \in {"READ", "WRITE", "CREATE", "DELETE"}
    BY <2>1, RequestTypes DEF Accepted
  <2>4. type = "CREATE" => Head(m.letters) \in {"f", "d"}
    <3>1. PICK l \in Seq({"f", "d"}) : l = m.letters
      BY DEF Messages
    <3>2. type = "CREATE" => l # <<>>
      BY <2>1, <3>1, RequestTypes
    <3>3. l # <<>> => Head(l) \in {"f", "d"}
      OBVIOUS
    <3> QED BY <3>1, <3>2, <3>3
  <2> QED BY <2>2, <2>3, <2>4
<1>7. r \in ValidRequests
  BY <1>3, <1>4, <1>5, <1>6 DEF ValidRequests
<1> QED BY <1>1, <1>2, <1>7 DEF Meanings

\* No check rejects a message that stands for a request, and what is read off it
\* is that request.
LEMMA MeantIsAccepted ==
  ASSUME NEW m \in Messages, NEW r \in Meanings(m)
  PROVE  Accepted(m) /\ RequestOf(m) = r
<1>1. r \in ValidRequests /\ MessageOf(r) = m
  BY DEF Meanings
<1>2. /\ r.pathname \in ValidPathnames
      /\ r.username \in 1 .. FS_MAXUSERNAME
      /\ r.block \in 0 .. FS_MAXFILEBLOCKS - 1
      /\ r = [type |-> r.type, username |-> r.username, pathname |-> r.pathname,
              block |-> r.block, inode_type |-> r.inode_type]
      /\ \/ r.type \in {"READ", "WRITE"} /\ r.inode_type = ""
         \/ r.type = "CREATE" /\ r.block = 0 /\ r.inode_type \in {"f", "d"}
         \/ r.type = "DELETE" /\ r.block = 0 /\ r.inode_type = ""
  <2>1. 0 \in 0 .. FS_MAXFILEBLOCKS - 1
    BY NumbersAssumption
  <2>2. CASE r \in [type : {"READ", "WRITE"}, username : 1 .. FS_MAXUSERNAME,
                    pathname : ValidPathnames, block : 0 .. FS_MAXFILEBLOCKS - 1,
                    inode_type : {""}]
    BY <2>2
  <2>3. CASE r \in [type : {"CREATE"}, username : 1 .. FS_MAXUSERNAME,
                    pathname : ValidPathnames, block : {0}, inode_type : {"f", "d"}]
    BY <2>1, <2>3
  <2>4. CASE r \in [type : {"DELETE"}, username : 1 .. FS_MAXUSERNAME,
                    pathname : ValidPathnames, block : {0}, inode_type : {""}]
    BY <2>1, <2>4
  <2> QED BY <1>1, <2>2, <2>3, <2>4 DEF ValidRequests
<1>3. r.block \in Nat /\ r.block \in 0 .. UINT_MAX /\ r.block < FS_MAXFILEBLOCKS
  <2>1. PICK b, n, u : b = r.block /\ n = FS_MAXFILEBLOCKS /\ u = UINT_MAX
    OBVIOUS
  <2>2. b \in 0 .. n - 1
    BY <1>2, <2>1
  <2>3. u \in Nat /\ n \in 1 .. u
    BY <2>1, NumbersAssumption
  <2> QED BY <2>1, <2>2, <2>3
<1>4. PICK s : s = to_string[r.block]
  OBVIOUS
<1>5. /\ s \in Seq(Digits) /\ Len(s) >= 1 /\ s # <<>>
      /\ Len(s) = 1 \/ s[1] # 0
      /\ atoi(s) = r.block
  <2>1. s \in Seq(Digits) /\ Len(s) >= 1 /\ (Len(s) = 1 \/ s[1] # 0)
    BY <1>3, <1>4, ToString
  <2>2. atoi(s) = r.block
    BY <1>3, <1>4, ReadBack
  <2> QED BY <2>1, <2>2
<1>6. /\ m.protocol = Protocol[r.type]
      /\ m.username = r.username
      /\ m.pathname = r.pathname
      /\ m.digits = IF r.type \in {"READ", "WRITE"} THEN s ELSE <<>>
      /\ m.letters = IF r.type = "CREATE" THEN <<r.inode_type>> ELSE <<>>
  BY <1>1, <1>4 DEF MessageOf
<1>7. Find_Request_Type(m) = r.type
  <2>1. CASE r.type = "READ"
    BY <1>5, <1>6, <2>1 DEF Find_Request_Type, Protocol
  <2>2. CASE r.type = "WRITE"
    BY <1>5, <1>6, <2>2 DEF Find_Request_Type, Protocol
  <2>3. CASE r.type = "CREATE"
    <3>1. <<r.inode_type>> # <<>>
      OBVIOUS
    <3> QED BY <1>6, <2>3, <3>1 DEF Find_Request_Type, Protocol
  <2>4. CASE r.type = "DELETE"
    BY <1>6, <2>4 DEF Find_Request_Type, Protocol
  <2> QED BY <1>2, <2>1, <2>2, <2>3, <2>4
<1>8. RequestOf(m) = r
  <2>1. /\ r.type \in {"READ", "WRITE"} => atoi(m.digits) = r.block
        /\ r.type = "CREATE" => Head(m.letters) = r.inode_type
    BY <1>5, <1>6
  <2> QED BY <1>2, <1>6, <1>7, <2>1 DEF RequestOf
<1>9. Check_Valid_Request(r)
  <2>1. PICK p \in ValidPathnames : p = r.pathname
    BY <1>2
  <2>2. p.length \in 2 .. FS_MAXPATHNAME /\ p.rooted = TRUE /\ p.slash_at_end = FALSE
    BY DEF ValidPathnames
  <2>3. p.length <= FS_MAXPATHNAME
    BY <2>2, NumbersAssumption
  <2> QED BY <1>2, <1>3, <2>1, <2>2, <2>3 DEF Check_Valid_Request
<1>10. r.type = "CREATE" => Len(m.letters) = 1
  BY <1>6
<1>11. r.type # "none"
  BY <1>2
<1> QED BY <1>1, <1>5, <1>6, <1>7, <1>8, <1>9, <1>10, <1>11 DEF Accepted

\* Parsing a message yields the request that it stands for, if it stands for
\* one, and nothing else (helper.cpp:100-193).
THEOREM ParsingFindsTheMeaning ==
  ASSUME NEW m \in Messages
  PROVE  Message_Parsing(m) = Meanings(m)
BY ParsingCases, AcceptedIsMeant, MeantIsAccepted

\* The lengths that the server counts are numbers.
LEMMA LengthNat ==
  ASSUME NEW m \in Messages
  PROVE  LengthOf(m) \in Nat
<1>1. PICK d, l, u, p :
        /\ d = Len(m.digits) /\ l = Len(m.letters)
        /\ u = m.username /\ p = m.pathname.length
  OBVIOUS
<1>2. d \in Nat /\ l \in Nat
  BY <1>1 DEF Messages
<1>3. u \in Nat /\ p \in Nat
  BY <1>1 DEF Messages, Pathnames
<1>4. LengthOf(m) = 3 + u + p + (IF d + l = 0 THEN 0 ELSE 1 + (d + l))
  BY <1>1 DEF LengthOf
<1> QED BY <1>2, <1>3, <1>4

\* What is known of a message that stands for a request: there is no other, it
\* tells whether data follows, and it fits the buffers.
LEMMA ParsedRequest ==
  ASSUME NEW m \in Messages, NEW r \in Meanings(m)
  PROVE  /\ Message_Parsing(m) = {r}
         /\ r \in Requests
         /\ MessageOf(r) = m
         /\ r.type = "WRITE" <=> m.protocol = "FS_WRITEBLOCK"
         /\ LengthOf(m) <= max_message_length
<1>1. /\ Accepted(m) /\ RequestOf(m) = r
      /\ Message_Parsing(m) = {r}
  BY MeantIsAccepted, ParsingCases
<1>2. MessageOf(r) = m /\ r \in ValidRequests
  BY DEF Meanings
<1>3. r \in Requests
  BY <1>1, RequestTyped DEF Accepted
<1>4. r.type = "WRITE" <=> m.protocol = "FS_WRITEBLOCK"
  <2>1. m.protocol = Protocol[r.type]
    BY <1>2 DEF MessageOf
  <2>2. r.type \in {"READ", "WRITE", "CREATE", "DELETE"}
    BY <1>3 DEF Requests, Protocol
  <2> QED BY <2>1, <2>2 DEF Protocol
<1>5. LengthOf(m) <= max_message_length
  <2>1. r.username \in 1 .. FS_MAXUSERNAME /\ r.pathname \in ValidPathnames
    BY <1>2 DEF ValidRequests
  <2>2. PICK u, p, b : u = r.username /\ p = r.pathname.length /\ b = r.block
    OBVIOUS
  <2>3. u \in 1 .. FS_MAXUSERNAME /\ p \in 2 .. FS_MAXPATHNAME
    BY <2>1, <2>2 DEF ValidPathnames
  <2>4. PICK s, z : s = Len(to_string[b]) /\ z = Len(to_string[0])
    OBVIOUS
  <2>5. b \in 0 .. FS_MAXFILEBLOCKS - 1 /\ 0 \in 0 .. FS_MAXFILEBLOCKS - 1
    <3>1. PICK n : n = FS_MAXFILEBLOCKS
      OBVIOUS
    <3>2. n \in Nat \ {0} /\ r.block < n
      BY <1>1, <3>1, NumbersAssumption DEF Accepted, Check_Valid_Request
    <3>3. b \in Nat
      <4>1. PICK w \in Nat : w = UINT_MAX
        BY NumbersAssumption
      <4>2. b \in 0 .. w
        BY <1>3, <2>2, <4>1 DEF Requests
      <4> QED BY <4>2
    <3>4. b \in 0 .. n - 1 /\ 0 \in 0 .. n - 1
      BY <2>2, <3>2, <3>3
    <3> QED BY <3>1, <3>4
  <2>6. /\ 4 + FS_MAXUSERNAME + FS_MAXPATHNAME + s <= max_message_length
        /\ 4 + FS_MAXUSERNAME + FS_MAXPATHNAME + z <= max_message_length
    BY <2>4, <2>5, LengthAssumption
  <2>7. s \in Nat /\ z \in Nat /\ z >= 1
    <3>1. b \in Nat
      <4>1. PICK n \in Nat : n = FS_MAXFILEBLOCKS
        BY NumbersAssumption
      <4> QED BY <2>5, <4>1
    <3>2. to_string[b] \in Seq(Digits) /\ to_string[0] \in Seq(Digits)
      BY <3>1, ToString
    <3>3. Len(to_string[0]) >= 1
      BY ToString
    <3> QED BY <2>4, <3>2, <3>3
  <2>8. /\ m.username = u /\ m.pathname.length = p
        /\ \/ Len(m.digits) = s /\ Len(m.letters) = 0
           \/ Len(m.digits) = 0 /\ Len(m.letters) = 1
           \/ Len(m.digits) = 0 /\ Len(m.letters) = 0
    <3>1. Len(<<>>) = 0 /\ Len(<<r.inode_type>>) = 1
      OBVIOUS
    <3>2. /\ m.username = u /\ m.pathname = r.pathname
          /\ m.digits = IF r.type \in {"READ", "WRITE"} THEN to_string[r.block] ELSE <<>>
          /\ m.letters = IF r.type = "CREATE" THEN <<r.inode_type>> ELSE <<>>
      BY <1>2, <2>2 DEF MessageOf
    <3> QED BY <2>2, <2>4, <3>1, <3>2
  <2>9. LengthOf(m) <= 4 + u + p + s \/ LengthOf(m) <= 4 + u + p + z
    <3>1. PICK d, l : d = Len(m.digits) /\ l = Len(m.letters)
      OBVIOUS
    <3>2. u \in Nat /\ p \in Nat
      BY <2>3, NumbersAssumption
    <3>3. LengthOf(m) = 3 + u + p + (IF d + l = 0 THEN 0 ELSE 1 + (d + l))
      BY <2>8, <3>1 DEF LengthOf
    <3>4. PICK k : k = LengthOf(m)
      OBVIOUS
    <3>5. \/ d = s /\ l = 0
          \/ d = 0 /\ l = 1
          \/ d = 0 /\ l = 0
      BY <2>8, <3>1
    <3>6. k <= 4 + u + p + s \/ k <= 4 + u + p + z
      BY <2>7, <3>2, <3>3, <3>4, <3>5
    <3> QED BY <3>4, <3>6
  <2>10. PICK k \in Nat : k = LengthOf(m)
    BY LengthNat
  <2> QED BY <2>3, <2>6, <2>7, <2>9, <2>10, NumbersAssumption
<1> QED BY <1>1, <1>2, <1>3, <1>4, <1>5

-----------------------------------------------------------------------------
(* The connections.                                                         *)

Positions == {"accept", "receive", "receive_data", "execute", "send", "closed"}

Answers == [message : Messages, data : BOOLEAN]

\* The variables are of these types.
TypeInv ==
  /\ listening \in BOOLEAN
  /\ stream \in [Connections -> Streams]
  /\ sent \in [Connections -> Nat]
  /\ gone \in [Connections -> BOOLEAN]
  /\ pc \in [Connections -> Positions]
  /\ received \in [Connections -> Nat]
  /\ request \in [Connections -> Requests \cup {None}]
  /\ outcome \in [Connections -> {"executed", "failed", None}]
  /\ answer \in [Connections -> Answers \cup {None}]

\* What has arrived and what of it has been received.
BytesInv(c) ==
  /\ sent[c] <= Total(c)
  /\ received[c] <= sent[c]
  /\ received[c] <= Header(c)
  /\ received[c] > max_message_length => pc[c] = "closed"

\* The request is the meaning of the message once the NUL has arrived, and it is
\* there before anything is done about it.
RequestInv(c) ==
  /\ pc[c] \in {"accept", "receive"} => request[c] = None
  /\ pc[c] \in {"receive_data", "execute", "send"} => request[c] # None
  /\ request[c] # None =>
       request[c] \in Meanings(stream[c].message) /\ Header(c) < sent[c]
  /\ pc[c] \in {"execute", "send"} \/ outcome[c] # None =>
       request[c] # None /\ sent[c] >= Needed(c)
  /\ pc[c] = "receive_data" => stream[c].message.protocol = "FS_WRITEBLOCK"

\* How far a request has been carried out, and what its client knows of it.
OutcomeInv(c) ==
  /\ pc[c] \in {"accept", "receive", "receive_data", "execute"} => outcome[c] = None
  /\ pc[c] = "send" => outcome[c] = "executed"
  /\ answer[c] # None =>
       /\ outcome[c] = "executed"
       /\ answer[c] = [message |-> stream[c].message, data |-> request[c].type = "READ"]
  /\ listening /\ pc[c] = "closed" /\ outcome[c] = "executed" /\ ~gone[c] =>
       answer[c] # None

\* Why a thread has ended before it tried anything while the server lives.
DroppedInv(c) ==
  listening /\ pc[c] = "closed" /\ outcome[c] = None =>
    \/ received[c] > max_message_length
    \/ gone[c] /\ sent[c] < Needed(c)
    \/ Meanings(stream[c].message) = {}

ThreadInv(c) == BytesInv(c) /\ RequestInv(c) /\ OutcomeInv(c) /\ DroppedInv(c)

ConnectionInv == TypeInv /\ \A c \in Connections : ThreadInv(c)

\* The lengths of a stream, and what the server needs of it.
LEMMA StreamLengths ==
  ASSUME stream \in [Connections -> Streams], NEW c \in Connections
  PROVE  /\ stream[c].message \in Messages
         /\ Header(c) \in Nat /\ Total(c) \in Nat
         /\ Needed(c) \in Nat /\ Header(c) < Needed(c)
         /\ stream[c].message.protocol # "FS_WRITEBLOCK" => Needed(c) = Header(c) + 1
         /\ Needed(c) <= Header(c) + 1 + FS_BLOCKSIZE
         /\ stream[c].message.protocol = "FS_WRITEBLOCK" =>
              Needed(c) = Header(c) + 1 + FS_BLOCKSIZE
         /\ ~stream[c].terminated => Total(c) = Header(c)
<1>1. PICK s \in [message : Messages, terminated : BOOLEAN, data : Nat] : s = stream[c]
  BY StreamsAssumption
<1>2. PICK h \in Nat : h = LengthOf(s.message)
  BY LengthNat
<1>3. PICK b \in Nat : b = FS_BLOCKSIZE
  BY NumbersAssumption
<1>4. Header(c) = h
  BY <1>1, <1>2 DEF Header
<1>5. Total(c) = h + (IF s.terminated THEN 1 + s.data ELSE 0)
  BY <1>1, <1>4 DEF Total
<1>6. Needed(c) = h + 1 + (IF s.message.protocol = "FS_WRITEBLOCK" THEN b ELSE 0)
  BY <1>1, <1>3, <1>4 DEF Needed
<1>7. Total(c) \in Nat /\ (~s.terminated => Total(c) = h)
  <2>1. PICK k \in Nat : k = s.data
    OBVIOUS
  <2> QED BY <1>5, <2>1
<1> QED BY <1>1, <1>3, <1>4, <1>6, <1>7

\* A connection to which nothing happens.
LEMMA Undisturbed ==
  ASSUME NEW d \in Connections, ThreadInv(d),
         listening' => listening,
         stream'[d] = stream[d], sent'[d] = sent[d], gone'[d] = gone[d],
         pc'[d] = pc[d], received'[d] = received[d], request'[d] = request[d],
         outcome'[d] = outcome[d], answer'[d] = answer[d]
  PROVE  ThreadInv(d)'
<1>1. /\ Header(d)' = Header(d)
      /\ Total(d)' = Total(d)
      /\ Needed(d)' = Needed(d)
  BY DEF Header, Total, Needed
<1> QED BY <1>1 DEF ThreadInv, BytesInv, RequestInv, OutcomeInv, DroppedInv

\* At the start nothing has been sent.
LEMMA InvInit == Init => ConnectionInv
<1> SUFFICES ASSUME Init PROVE ConnectionInv
  OBVIOUS
<1>1. TypeInv
  BY DEF Init, TypeInv, Positions
<1>2. ASSUME NEW c \in Connections PROVE ThreadInv(c)
  <2>1. Header(c) \in Nat /\ Total(c) \in Nat
    BY StreamLengths DEF Init
  <2>2. /\ sent[c] = 0 /\ received[c] = 0 /\ pc[c] = "accept"
        /\ request[c] = None /\ outcome[c] = None /\ answer[c] = None
    BY <1>2 DEF Init
  <2>3. BytesInv(c)
    BY <2>1, <2>2, NumbersAssumption DEF BytesInv
  <2> QED BY <2>2, <2>3 DEF ThreadInv, RequestInv, OutcomeInv, DroppedInv
<1> QED BY <1>1, <1>2 DEF ConnectionInv

\* A step of one connection does not disturb the others.
LEMMA Local ==
  ASSUME ConnectionInv, NEW c \in Connections, TypeInv', ThreadInv(c)',
         listening' => listening,
         stream' = stream,
         \A d \in Connections \ {c} :
           /\ sent'[d] = sent[d] /\ gone'[d] = gone[d] /\ pc'[d] = pc[d]
           /\ received'[d] = received[d] /\ request'[d] = request[d]
           /\ outcome'[d] = outcome[d] /\ answer'[d] = answer[d]
  PROVE  ConnectionInv'
<1> SUFFICES ASSUME NEW d \in Connections, d # c PROVE ThreadInv(d)'
  BY DEF ConnectionInv
<1>1. ThreadInv(d)
  BY DEF ConnectionInv
<1> QED BY <1>1, Undisturbed

\* The client sends a byte more.
LEMMA Client_sendsStep ==
  ASSUME ConnectionInv, NEW c \in Connections, Client_sends(c)
  PROVE  ConnectionInv'
<1>1. TypeInv /\ ThreadInv(c)
  BY DEF ConnectionInv
<1>2. UNCHANGED <<Header(c), Total(c), Needed(c)>>
  BY DEF Client_sends, Header, Total, Needed
<1>3. /\ stream[c].message \in Messages
      /\ Header(c) \in Nat /\ Total(c) \in Nat /\ Needed(c) \in Nat
      /\ Header(c) < Needed(c)
  BY <1>1, StreamLengths DEF TypeInv
<1>4. TypeInv'
  BY <1>1 DEF Client_sends, TypeInv
<1>5. ThreadInv(c)'
  <2>1. /\ sent'[c] = sent[c] + 1 /\ sent[c] < Total(c) /\ sent[c] \in Nat
        /\ ~gone[c]
        /\ received[c] \in Nat
        /\ UNCHANGED <<listening, stream, gone, pc, received, request, outcome, answer>>
    BY <1>1 DEF Client_sends, TypeInv
  <2>2. BytesInv(c)'
    BY <1>1, <1>2, <1>3, <2>1 DEF ThreadInv, BytesInv
  <2>3. RequestInv(c)'
    BY <1>1, <1>2, <1>3, <2>1 DEF ThreadInv, RequestInv
  <2>4. OutcomeInv(c)' /\ DroppedInv(c)'
    BY <1>1, <1>2, <1>3, <2>1 DEF ThreadInv, OutcomeInv, DroppedInv
  <2> QED BY <2>2, <2>3, <2>4 DEF ThreadInv
<1> QED
  <2>1. /\ listening' => listening
        /\ stream' = stream
        /\ \A d \in Connections \ {c} :
             /\ sent'[d] = sent[d] /\ gone'[d] = gone[d] /\ pc'[d] = pc[d]
             /\ received'[d] = received[d] /\ request'[d] = request[d]
             /\ outcome'[d] = outcome[d] /\ answer'[d] = answer[d]
    BY <1>1 DEF Client_sends, TypeInv
  <2> QED BY <1>4, <1>5, <2>1, Local

\* The client closes its end.
LEMMA Client_leavesStep ==
  ASSUME ConnectionInv, NEW c \in Connections, Client_leaves(c)
  PROVE  ConnectionInv'
<1>1. TypeInv /\ ThreadInv(c)
  BY DEF ConnectionInv
<1>2. UNCHANGED <<Header(c), Total(c), Needed(c)>>
  BY DEF Client_leaves, Header, Total, Needed
<1>3. /\ stream[c].message \in Messages
      /\ Header(c) \in Nat /\ Total(c) \in Nat /\ Needed(c) \in Nat
      /\ Header(c) < Needed(c)
  BY <1>1, StreamLengths DEF TypeInv
<1>4. TypeInv'
  BY <1>1 DEF Client_leaves, TypeInv
<1>5. ThreadInv(c)'
  <2>1. /\ gone'[c] = TRUE
        /\ pc[c] # "closed"
        /\ UNCHANGED <<listening, stream, sent, pc, received, request, outcome, answer>>
    BY <1>1 DEF Client_leaves, TypeInv
  <2>2. BytesInv(c)' /\ RequestInv(c)'
    BY <1>1, <1>2, <2>1 DEF ThreadInv, BytesInv, RequestInv
  <2>3. OutcomeInv(c)' /\ DroppedInv(c)'
    BY <1>1, <1>2, <2>1 DEF ThreadInv, OutcomeInv, DroppedInv
  <2> QED BY <2>2, <2>3 DEF ThreadInv
<1> QED
  <2>1. /\ listening' => listening
        /\ stream' = stream
        /\ \A d \in Connections \ {c} :
             /\ sent'[d] = sent[d] /\ gone'[d] = gone[d] /\ pc'[d] = pc[d]
             /\ received'[d] = received[d] /\ request'[d] = request[d]
             /\ outcome'[d] = outcome[d] /\ answer'[d] = answer[d]
    BY <1>1 DEF Client_leaves, TypeInv
  <2> QED BY <1>4, <1>5, <2>1, Local

\* The server accepts the connection.
LEMMA AcceptStep ==
  ASSUME ConnectionInv, NEW c \in Connections, Accept(c)
  PROVE  ConnectionInv'
<1>1. TypeInv /\ ThreadInv(c)
  BY DEF ConnectionInv
<1>2. UNCHANGED <<Header(c), Total(c), Needed(c)>>
  BY DEF Accept, Go, Header, Total, Needed
<1>3. /\ stream[c].message \in Messages
      /\ Header(c) \in Nat /\ Total(c) \in Nat /\ Needed(c) \in Nat
      /\ Header(c) < Needed(c)
  BY <1>1, StreamLengths DEF TypeInv
<1>4. TypeInv'
  BY <1>1 DEF Accept, Go, TypeInv, Positions
<1>5. ThreadInv(c)'
  <2>1. /\ pc[c] = "accept" /\ pc'[c] = "receive"
        /\ received[c] \in Nat
        /\ UNCHANGED <<listening, stream, sent, gone, received, request, outcome, answer>>
    BY <1>1 DEF Accept, Go, TypeInv
  <2>2. BytesInv(c)'
    <3>1. ~(received[c] > max_message_length)
      BY <1>1, <2>1 DEF ThreadInv, BytesInv
    <3> QED BY <1>1, <1>2, <2>1, <3>1 DEF ThreadInv, BytesInv
  <2>3. RequestInv(c)'
    BY <1>1, <1>2, <2>1 DEF ThreadInv, RequestInv
  <2>4. OutcomeInv(c)' /\ DroppedInv(c)'
    BY <1>1, <1>2, <2>1 DEF ThreadInv, OutcomeInv, DroppedInv
  <2> QED BY <2>2, <2>3, <2>4 DEF ThreadInv
<1> QED
  <2>1. /\ listening' => listening
        /\ stream' = stream
        /\ \A d \in Connections \ {c} :
             /\ sent'[d] = sent[d] /\ gone'[d] = gone[d] /\ pc'[d] = pc[d]
             /\ received'[d] = received[d] /\ request'[d] = request[d]
             /\ outcome'[d] = outcome[d] /\ answer'[d] = answer[d]
    BY <1>1 DEF Accept, Go, TypeInv
  <2> QED BY <1>4, <1>5, <2>1, Local

\* A byte of the message is received.
LEMMA Receive_byteStep ==
  ASSUME ConnectionInv, NEW c \in Connections, Receive_byte(c)
  PROVE  ConnectionInv'
<1>1. TypeInv /\ ThreadInv(c)
  BY DEF ConnectionInv
<1>2. UNCHANGED <<Header(c), Total(c), Needed(c)>>
  BY DEF Receive_byte, Go, Header, Total, Needed
<1>3. /\ stream[c].message \in Messages
      /\ Header(c) \in Nat /\ Total(c) \in Nat /\ Needed(c) \in Nat
      /\ Header(c) < Needed(c)
  BY <1>1, StreamLengths DEF TypeInv
<1>4. TypeInv'
  BY <1>1 DEF Receive_byte, Go, TypeInv, Positions
<1>5. ThreadInv(c)'
  <2>1. /\ pc[c] = "receive"
        /\ received[c] \in Nat /\ sent[c] \in Nat
        /\ received[c] < sent[c] /\ received[c] < Header(c)
        /\ received'[c] = received[c] + 1
        /\ pc'[c] = IF received[c] + 1 > max_message_length THEN "closed" ELSE "receive"
        /\ UNCHANGED <<listening, stream, sent, gone, request, outcome, answer>>
    BY <1>1 DEF Receive_byte, Go, TypeInv
  <2>2. BytesInv(c)'
    BY <1>1, <1>2, <1>3, <2>1 DEF ThreadInv, BytesInv
  <2>3. RequestInv(c)'
    BY <1>1, <1>2, <2>1 DEF ThreadInv, RequestInv, OutcomeInv
  <2>4. OutcomeInv(c)'
    <3>1. outcome[c] = None /\ answer[c] = None /\ None # "executed"
      BY <1>1, <2>1, NoneAssumption DEF ThreadInv, OutcomeInv
    <3> QED BY <2>1, <3>1 DEF OutcomeInv
  <2>5. DroppedInv(c)'
    BY <1>1, <1>2, <2>1 DEF ThreadInv, DroppedInv
  <2> QED BY <2>2, <2>3, <2>4, <2>5 DEF ThreadInv
<1> QED
  <2>1. /\ listening' => listening
        /\ stream' = stream
        /\ \A d \in Connections \ {c} :
             /\ sent'[d] = sent[d] /\ gone'[d] = gone[d] /\ pc'[d] = pc[d]
             /\ received'[d] = received[d] /\ request'[d] = request[d]
             /\ outcome'[d] = outcome[d] /\ answer'[d] = answer[d]
    BY <1>1 DEF Receive_byte, Go, TypeInv
  <2> QED BY <1>4, <1>5, <2>1, Local

\* The client has left before all it should have sent.
LEMMA Receive_failsStep ==
  ASSUME ConnectionInv, NEW c \in Connections, Receive_fails(c)
  PROVE  ConnectionInv'
<1>1. TypeInv /\ ThreadInv(c)
  BY DEF ConnectionInv
<1>2. UNCHANGED <<Header(c), Total(c), Needed(c)>>
  BY DEF Receive_fails, Go, Header, Total, Needed
<1>3. /\ stream[c].message \in Messages
      /\ Header(c) \in Nat /\ Total(c) \in Nat /\ Needed(c) \in Nat
      /\ Header(c) < Needed(c)
  BY <1>1, StreamLengths DEF TypeInv
<1>4. TypeInv'
  BY <1>1 DEF Receive_fails, Go, TypeInv, Positions
<1>5. ThreadInv(c)'
  <2>1. /\ \/ pc[c] = "receive" /\ received[c] = sent[c]
           \/ pc[c] = "receive_data" /\ sent[c] < Header(c) + 1 + FS_BLOCKSIZE
        /\ gone[c] /\ pc'[c] = "closed"
        /\ received[c] \in Nat /\ sent[c] \in Nat
        /\ UNCHANGED <<listening, stream, sent, gone, received, request, outcome, answer>>
    BY <1>1 DEF Receive_fails, Go, TypeInv
  <2>2. BytesInv(c)'
    BY <1>1, <1>2, <1>3, <2>1 DEF ThreadInv, BytesInv
  <2>3. RequestInv(c)'
    BY <1>1, <1>2, <2>1 DEF ThreadInv, RequestInv
  <2>4. OutcomeInv(c)'
    BY <1>1, <1>2, <2>1 DEF ThreadInv, OutcomeInv, RequestInv
  <2>5. sent[c] < Needed(c)
    <3>1. CASE pc[c] = "receive"
      BY <1>1, <1>3, <2>1, <3>1 DEF ThreadInv, BytesInv
    <3>2. CASE pc[c] = "receive_data"
      <4>1. stream[c].message.protocol = "FS_WRITEBLOCK"
        BY <1>1, <3>2 DEF ThreadInv, RequestInv
      <4>2. Needed(c) = Header(c) + 1 + FS_BLOCKSIZE
        BY <1>1, <4>1, StreamLengths DEF TypeInv
      <4> QED BY <2>1, <3>2, <4>2
    <3> QED BY <2>1, <3>1, <3>2
  <2>6. DroppedInv(c)'
    BY <1>1, <1>2, <2>1, <2>5 DEF ThreadInv, DroppedInv
  <2> QED BY <2>2, <2>3, <2>4, <2>6 DEF ThreadInv
<1> QED
  <2>1. /\ listening' => listening
        /\ stream' = stream
        /\ \A d \in Connections \ {c} :
             /\ sent'[d] = sent[d] /\ gone'[d] = gone[d] /\ pc'[d] = pc[d]
             /\ received'[d] = received[d] /\ request'[d] = request[d]
             /\ outcome'[d] = outcome[d] /\ answer'[d] = answer[d]
    BY <1>1 DEF Receive_fails, Go, TypeInv
  <2> QED BY <1>4, <1>5, <2>1, Local

\* The message is complete: it is parsed, or the thread ends.
LEMMA Receive_nulStep ==
  ASSUME ConnectionInv, NEW c \in Connections, Receive_nul(c)
  PROVE  ConnectionInv'
<1>1. TypeInv /\ ThreadInv(c)
  BY DEF ConnectionInv
<1>2. UNCHANGED <<Header(c), Total(c), Needed(c)>>
  BY DEF Receive_nul, Go, Header, Total, Needed
<1>3. /\ stream[c].message \in Messages
      /\ Header(c) \in Nat /\ Total(c) \in Nat /\ Needed(c) \in Nat
      /\ Header(c) < Needed(c)
  BY <1>1, StreamLengths DEF TypeInv
<1>4. TypeInv'
  <2>1. CASE Message_Parsing(stream[c].message) = {}
    BY <1>1, <2>1 DEF Receive_nul, Go, TypeInv, Positions
  <2>2. CASE Message_Parsing(stream[c].message) # {}
    <3>1. PICK r \in Message_Parsing(stream[c].message) :
            /\ request' = [request EXCEPT ![c] = r]
            /\ Go(c, IF r.type = "WRITE" THEN "receive_data" ELSE "execute")
      BY <2>2 DEF Receive_nul
    <3>2. r \in Requests
      BY <1>3, <3>1, ParsedRequest, ParsingFindsTheMeaning
    <3> QED BY <1>1, <3>1, <3>2 DEF Receive_nul, Go, TypeInv, Positions
  <2> QED BY <2>1, <2>2
<1>5. ThreadInv(c)'
  <2>1. /\ pc[c] = "receive"
        /\ sent[c] \in Nat /\ received[c] \in Nat
        /\ Header(c) < sent[c]
        /\ received[c] = Header(c)
        /\ UNCHANGED <<listening, stream, sent, gone, received, outcome, answer>>
    BY <1>1 DEF Receive_nul, Go, TypeInv
  <2>2. /\ request[c] = None /\ outcome[c] = None /\ answer[c] = None
        /\ None # "executed" /\ None \notin Requests
        /\ ~(received[c] > max_message_length)
    BY <1>1, <2>1, NoneAssumption DEF ThreadInv, BytesInv, RequestInv, OutcomeInv
  <2>3. BytesInv(c)'
    BY <1>1, <1>2, <2>1, <2>2 DEF ThreadInv, BytesInv
  <2>4. OutcomeInv(c)'
    <3>1. pc'[c] # "send"
      BY <1>1 DEF Receive_nul, Go, TypeInv
    <3> QED BY <2>1, <2>2, <3>1 DEF OutcomeInv
  <2>5. CASE Message_Parsing(stream[c].message) = {}
    <3>1. pc'[c] = "closed" /\ request'[c] = None
      BY <1>1, <2>2, <2>5 DEF Receive_nul, Go, TypeInv
    <3>2. RequestInv(c)'
      BY <2>1, <2>2, <3>1 DEF RequestInv
    <3>3. DroppedInv(c)'
      <4>1. Meanings(stream[c].message) = {}
        BY <1>3, <2>5, ParsingFindsTheMeaning
      <4> QED BY <2>1, <4>1 DEF DroppedInv
    <3> QED BY <2>3, <2>4, <3>2, <3>3 DEF ThreadInv
  <2>6. CASE Message_Parsing(stream[c].message) # {}
    <3>1. PICK r \in Message_Parsing(stream[c].message) :
            /\ request' = [request EXCEPT ![c] = r]
            /\ Go(c, IF r.type = "WRITE" THEN "receive_data" ELSE "execute")
      BY <2>6 DEF Receive_nul
    <3>2. /\ r \in Requests
          /\ r \in Meanings(stream[c].message)
          /\ r.type = "WRITE" <=> stream[c].message.protocol = "FS_WRITEBLOCK"
      BY <1>3, <3>1, ParsedRequest, ParsingFindsTheMeaning
    <3>3. /\ request'[c] = r
          /\ pc'[c] = IF r.type = "WRITE" THEN "receive_data" ELSE "execute"
      BY <1>1, <3>1 DEF Go, TypeInv
    <3>4. pc'[c] = "execute" => sent[c] >= Needed(c)
      <4>1. ASSUME pc'[c] = "execute"
            PROVE  Needed(c) = Header(c) + 1
        <5>1. r.type # "WRITE"
          BY <3>3, <4>1
        <5>2. stream[c].message.protocol # "FS_WRITEBLOCK"
          BY <3>2, <5>1
        <5> QED BY <1>1, <5>2, StreamLengths DEF TypeInv
      <4> QED BY <1>3, <2>1, <4>1
    <3>5. RequestInv(c)'
      <4>1. r # None
        BY <2>2, <3>2
      <4>2. pc'[c] = "receive_data" => stream[c].message.protocol = "FS_WRITEBLOCK"
        BY <3>2, <3>3
      <4> QED BY <1>2, <2>1, <2>2, <3>2, <3>3, <3>4, <4>1, <4>2 DEF RequestInv
    <3>6. DroppedInv(c)'
      BY <3>3 DEF DroppedInv
    <3> QED BY <2>3, <2>4, <3>5, <3>6 DEF ThreadInv
  <2> QED BY <2>5, <2>6
<1> QED
  <2>1. /\ listening' => listening
        /\ stream' = stream
        /\ \A d \in Connections \ {c} :
             /\ sent'[d] = sent[d] /\ gone'[d] = gone[d] /\ pc'[d] = pc[d]
             /\ received'[d] = received[d] /\ request'[d] = request[d]
             /\ outcome'[d] = outcome[d] /\ answer'[d] = answer[d]
    BY <1>1 DEF Receive_nul, Go, TypeInv
  <2> QED BY <1>4, <1>5, <2>1, Local

\* The data of a write has arrived.
LEMMA Receive_dataStep ==
  ASSUME ConnectionInv, NEW c \in Connections, Receive_data(c)
  PROVE  ConnectionInv'
<1>1. TypeInv /\ ThreadInv(c)
  BY DEF ConnectionInv
<1>2. UNCHANGED <<Header(c), Total(c), Needed(c)>>
  BY DEF Receive_data, Go, Header, Total, Needed
<1>3. /\ stream[c].message \in Messages
      /\ Header(c) \in Nat /\ Total(c) \in Nat /\ Needed(c) \in Nat
      /\ Header(c) < Needed(c)
  BY <1>1, StreamLengths DEF TypeInv
<1>4. TypeInv'
  BY <1>1 DEF Receive_data, Go, TypeInv, Positions
<1>5. ThreadInv(c)'
  <2>1. /\ pc[c] = "receive_data" /\ pc'[c] = "execute"
        /\ received[c] \in Nat /\ sent[c] \in Nat
        /\ sent[c] >= Header(c) + 1 + FS_BLOCKSIZE
        /\ UNCHANGED <<listening, stream, sent, gone, received, request, outcome, answer>>
    BY <1>1 DEF Receive_data, Go, TypeInv
  <2>2. BytesInv(c)'
    BY <1>1, <1>2, <2>1 DEF ThreadInv, BytesInv
  <2>3. sent[c] >= Needed(c)
    <3>1. PICK h, n, k, b : /\ h = Header(c) /\ n = Needed(c)
                            /\ k = sent[c] /\ b = FS_BLOCKSIZE
      OBVIOUS
    <3>2. n <= h + 1 + b
      BY <1>1, <3>1, StreamLengths DEF TypeInv
    <3>3. h \in Nat /\ n \in Nat /\ k \in Nat /\ b \in Nat /\ k >= h + 1 + b
      BY <1>3, <2>1, <3>1, NumbersAssumption
    <3> QED BY <3>1, <3>2, <3>3
  <2>4. RequestInv(c)'
    BY <1>1, <1>2, <2>1, <2>3 DEF ThreadInv, RequestInv
  <2>5. OutcomeInv(c)' /\ DroppedInv(c)'
    BY <1>1, <1>2, <2>1 DEF ThreadInv, OutcomeInv, DroppedInv
  <2> QED BY <2>2, <2>4, <2>5 DEF ThreadInv
<1> QED
  <2>1. /\ listening' => listening
        /\ stream' = stream
        /\ \A d \in Connections \ {c} :
             /\ sent'[d] = sent[d] /\ gone'[d] = gone[d] /\ pc'[d] = pc[d]
             /\ received'[d] = received[d] /\ request'[d] = request[d]
             /\ outcome'[d] = outcome[d] /\ answer'[d] = answer[d]
    BY <1>1 DEF Receive_data, Go, TypeInv
  <2> QED BY <1>4, <1>5, <2>1, Local

\* The request is carried out, or the file operation throws.
LEMMA ExecuteStep ==
  ASSUME ConnectionInv, NEW c \in Connections, Execute(c)
  PROVE  ConnectionInv'
<1>1. TypeInv /\ ThreadInv(c)
  BY DEF ConnectionInv
<1>2. UNCHANGED <<Header(c), Total(c), Needed(c)>>
  BY DEF Execute, Go, Header, Total, Needed
<1>3. /\ stream[c].message \in Messages
      /\ Header(c) \in Nat /\ Total(c) \in Nat /\ Needed(c) \in Nat
      /\ Header(c) < Needed(c)
  BY <1>1, StreamLengths DEF TypeInv
<1>4. TypeInv'
  BY <1>1 DEF Execute, Go, TypeInv, Positions
<1>5. ThreadInv(c)'
  <2>1. /\ pc[c] = "execute"
        /\ received[c] \in Nat
        /\ \/ outcome'[c] = "executed" /\ pc'[c] = "send"
           \/ outcome'[c] = "failed" /\ pc'[c] = "closed"
        /\ UNCHANGED <<listening, stream, sent, gone, received, request, answer>>
    BY <1>1 DEF Execute, Go, TypeInv
  <2>2. /\ request[c] # None /\ sent[c] >= Needed(c)
        /\ request[c] \in Meanings(stream[c].message) /\ Header(c) < sent[c]
        /\ outcome[c] = None /\ answer[c] = None
        /\ None \notin {"executed", "failed"}
    BY <1>1, <2>1, NoneAssumption DEF ThreadInv, RequestInv, OutcomeInv
  <2>3. BytesInv(c)'
    <3>1. ~(received[c] > max_message_length)
      BY <1>1, <2>1 DEF ThreadInv, BytesInv
    <3> QED BY <1>1, <1>2, <2>1, <3>1 DEF ThreadInv, BytesInv
  <2>4. RequestInv(c)'
    BY <1>2, <2>1, <2>2 DEF RequestInv
  <2>5. OutcomeInv(c)' /\ DroppedInv(c)'
    BY <2>1, <2>2 DEF OutcomeInv, DroppedInv
  <2> QED BY <2>3, <2>4, <2>5 DEF ThreadInv
<1> QED
  <2>1. /\ listening' => listening
        /\ stream' = stream
        /\ \A d \in Connections \ {c} :
             /\ sent'[d] = sent[d] /\ gone'[d] = gone[d] /\ pc'[d] = pc[d]
             /\ received'[d] = received[d] /\ request'[d] = request[d]
             /\ outcome'[d] = outcome[d] /\ answer'[d] = answer[d]
    BY <1>1 DEF Execute, Go, TypeInv
  <2> QED BY <1>4, <1>5, <2>1, Local

\* The answer is sent, to a client that may have left.
LEMMA Send_messageStep ==
  ASSUME ConnectionInv, NEW c \in Connections, Send_message(c)
  PROVE  ConnectionInv'
<1>1. TypeInv /\ ThreadInv(c)
  BY DEF ConnectionInv
<1>2. UNCHANGED <<Header(c), Total(c), Needed(c)>>
  BY DEF Send_message, Go, Header, Total, Needed
<1>3. /\ stream[c].message \in Messages
      /\ Header(c) \in Nat /\ Total(c) \in Nat /\ Needed(c) \in Nat
      /\ Header(c) < Needed(c)
  BY <1>1, StreamLengths DEF TypeInv
<1>6. /\ pc[c] = "send" /\ pc'[c] = "closed"
      /\ UNCHANGED <<listening, stream, sent, gone, received, request, outcome>>
      /\ \/ answer' = [answer EXCEPT ![c] =
              [message |-> MessageOf(request[c]), data |-> request[c].type = "READ"]]
         \/ gone[c] /\ answer' = answer
  BY <1>1 DEF Send_message, Go, TypeInv
<1>7. /\ request[c] \in Requests
      /\ request[c] \in Meanings(stream[c].message) /\ Header(c) < sent[c]
      /\ request[c] # None /\ sent[c] >= Needed(c)
      /\ outcome[c] = "executed"
      /\ MessageOf(request[c]) = stream[c].message
      /\ outcome[c] # None
  <2>1. /\ request[c] \in Meanings(stream[c].message) /\ Header(c) < sent[c]
        /\ request[c] # None /\ sent[c] >= Needed(c)
        /\ outcome[c] = "executed"
        /\ None \notin {"executed", "failed"}
    BY <1>1, <1>6, NoneAssumption DEF ThreadInv, RequestInv, OutcomeInv
  <2> QED BY <1>3, <2>1, ParsedRequest
<1>8. PICK d \in BOOLEAN : d = (request[c].type = "READ")
  OBVIOUS
<1>9. PICK a : a = [message |-> stream[c].message, data |-> d]
  OBVIOUS
<1>10. a \in Answers /\ a # None
  BY <1>3, <1>9, NoneAssumption DEF Answers
<1>11. \/ answer' = [answer EXCEPT ![c] = a]
       \/ gone[c] /\ answer' = answer
  BY <1>6, <1>7, <1>8, <1>9
<1>4. TypeInv'
  BY <1>1, <1>6, <1>10, <1>11 DEF Send_message, Go, TypeInv, Positions
<1>5. ThreadInv(c)'
  <2>1. received[c] \in Nat /\ (answer'[c] = a \/ (gone[c] /\ answer'[c] = answer[c]))
    BY <1>1, <1>11 DEF TypeInv
  <2>2. BytesInv(c)'
    <3>1. ~(received[c] > max_message_length)
      BY <1>1, <1>6 DEF ThreadInv, BytesInv
    <3> QED BY <1>1, <1>2, <1>6, <3>1 DEF ThreadInv, BytesInv
  <2>3. RequestInv(c)'
    BY <1>2, <1>6, <1>7 DEF RequestInv
  <2>4. OutcomeInv(c)'
    <3>1. CASE answer'[c] = a
      BY <1>6, <1>7, <1>8, <1>9, <1>10, <3>1 DEF OutcomeInv
    <3>2. CASE gone[c] /\ answer'[c] = answer[c]
      <4>1. answer[c] # None =>
              answer[c] = [message |-> stream[c].message, data |-> request[c].type = "READ"]
        BY <1>1 DEF ThreadInv, OutcomeInv
      <4> QED BY <1>6, <1>7, <3>2, <4>1 DEF OutcomeInv
    <3> QED BY <2>1, <3>1, <3>2
  <2>5. DroppedInv(c)'
    BY <1>6, <1>7 DEF DroppedInv
  <2> QED BY <2>2, <2>3, <2>4, <2>5 DEF ThreadInv
<1> QED
  <2>1. /\ listening' => listening
        /\ stream' = stream
        /\ \A e \in Connections \ {c} :
             /\ sent'[e] = sent[e] /\ gone'[e] = gone[e] /\ pc'[e] = pc[e]
             /\ received'[e] = received[e] /\ request'[e] = request[e]
             /\ outcome'[e] = outcome[e] /\ answer'[e] = answer[e]
    BY <1>1 DEF Send_message, Go, TypeInv
  <2> QED BY <1>4, <1>5, <2>1, Local

\* The server process ends, and with it all threads.
LEMMA Accept_failsStep ==
  ASSUME ConnectionInv, Accept_fails
  PROVE  ConnectionInv'
<1>1. TypeInv
  BY DEF ConnectionInv
<1>2. TypeInv'
  BY <1>1 DEF Accept_fails, TypeInv, Positions
<1>3. ASSUME NEW c \in Connections PROVE ThreadInv(c)'
  <2>1. UNCHANGED <<Header(c), Total(c), Needed(c)>>
    BY DEF Accept_fails, Header, Total, Needed
  <2>2. /\ listening' = FALSE /\ pc'[c] = "closed"
        /\ UNCHANGED <<stream, sent, gone, received, request, outcome, answer>>
    BY DEF Accept_fails
  <2>3. ThreadInv(c)
    BY DEF ConnectionInv
  <2>4. BytesInv(c)'
    BY <2>1, <2>2, <2>3 DEF ThreadInv, BytesInv
  <2>5. RequestInv(c)'
    BY <2>1, <2>2, <2>3 DEF ThreadInv, RequestInv
  <2>6. OutcomeInv(c)' /\ DroppedInv(c)'
    BY <2>2, <2>3 DEF ThreadInv, OutcomeInv, DroppedInv
  <2> QED BY <2>4, <2>5, <2>6 DEF ThreadInv
<1> QED BY <1>2, <1>3 DEF ConnectionInv

\* ConnectionInv is inductive.
LEMMA InvStep == ConnectionInv /\ [Next]_vars => ConnectionInv'
<1> SUFFICES ASSUME ConnectionInv, [Next]_vars PROVE ConnectionInv'
  OBVIOUS
<1>1. ASSUME NEW c \in Connections, Thread_running(c) PROVE ConnectionInv'
  BY <1>1, Receive_byteStep, Receive_nulStep, Receive_failsStep, Receive_dataStep,
     ExecuteStep, Send_messageStep DEF Thread_running
<1>2. ASSUME NEW c \in Connections, Client_sends(c) \/ Client_leaves(c) \/ Accept(c)
      PROVE  ConnectionInv'
  BY <1>2, Client_sendsStep, Client_leavesStep, AcceptStep
<1>3. CASE UNCHANGED vars
  <2>1. TypeInv'
    BY <1>3 DEF ConnectionInv, TypeInv, vars
  <2>2. ASSUME NEW c \in Connections PROVE ThreadInv(c)'
    BY <1>3, Undisturbed DEF ConnectionInv, vars
  <2> QED BY <2>1, <2>2 DEF ConnectionInv
<1> QED BY <1>1, <1>2, <1>3, Accept_failsStep DEF Next, Ended

\* ConnectionInv is an invariant.
THEOREM ConnectionInvariant == Spec => []ConnectionInv
BY InvInit, InvStep, PTL DEF Spec

\* Counters stay in their ranges, a thread has what its position implies, and no
\* more bytes are received than the buffers hold (socket.cpp:56-78).
THEOREM ConnectionTypeCorrect == Spec => []TypeOK
<1>1. ConnectionInv => TypeOK
  <2> SUFFICES ASSUME ConnectionInv, NEW c \in Connections
               PROVE  /\ sent[c] \in 0 .. Total(c)
                      /\ received[c] <= sent[c]
                      /\ received[c] > max_message_length => pc[c] = "closed"
                      /\ pc[c] \in {"accept", "receive"} => request[c] = None
                      /\ pc[c] \in {"receive_data", "execute", "send"} => request[c] # None
    BY DEF TypeOK
  <2>1. TypeInv /\ BytesInv(c) /\ RequestInv(c)
    BY DEF ConnectionInv, ThreadInv
  <2>2. sent[c] \in Nat /\ Total(c) \in Nat
    BY <2>1, StreamLengths DEF TypeInv
  <2> QED BY <2>1, <2>2 DEF BytesInv, RequestInv
<1> QED BY <1>1, ConnectionInvariant, PTL

\* What is carried out is the one request the client's text stands for, and only
\* when all of it has arrived (socket.cpp:56-78, helper.cpp:100-193).
THEOREM ConnectionOnlyWholeRequests == Spec => []OnlyWholeRequests
<1>1. ConnectionInv => OnlyWholeRequests
  <2> SUFFICES ASSUME ConnectionInv, NEW c \in Connections,
                      pc[c] \in {"execute", "send"} \/ outcome[c] # None
               PROVE  /\ Meanings(stream[c].message) = {request[c]}
                      /\ sent[c] >= Needed(c)
                      /\ stream[c].terminated
    BY DEF OnlyWholeRequests
  <2>1. TypeInv /\ BytesInv(c) /\ RequestInv(c)
    BY DEF ConnectionInv, ThreadInv
  <2>2. /\ request[c] \in Meanings(stream[c].message)
        /\ sent[c] >= Needed(c) /\ Header(c) < sent[c]
    BY <2>1 DEF RequestInv
  <2>3. /\ stream[c].message \in Messages
        /\ sent[c] \in Nat /\ Header(c) \in Nat /\ Total(c) \in Nat
        /\ ~stream[c].terminated => Total(c) = Header(c)
    BY <2>1, StreamLengths DEF TypeInv
  <2>4. Meanings(stream[c].message) = {request[c]}
    BY <2>2, <2>3, ParsedRequest, ParsingFindsTheMeaning
  <2>5. stream[c].terminated
    BY <2>1, <2>2, <2>3 DEF BytesInv
  <2> QED BY <2>2, <2>4, <2>5
<1> QED BY <1>1, ConnectionInvariant, PTL

\* A legal request that has arrived is not dropped while the server lives: no
\* check of helper.cpp:100-193 and no limit of socket.cpp:66 rejects it.
THEOREM ConnectionGoodRequestsTried == Spec => []GoodRequestsTried
<1>1. ConnectionInv => GoodRequestsTried
  <2> SUFFICES ASSUME ConnectionInv, NEW c \in Connections,
                      listening, pc[c] = "closed",
                      Meanings(stream[c].message) # {},
                      sent[c] >= Needed(c), outcome[c] = None
               PROVE  FALSE
    BY DEF GoodRequestsTried
  <2>1. TypeInv /\ BytesInv(c) /\ DroppedInv(c)
    BY DEF ConnectionInv, ThreadInv
  <2>2. /\ stream[c].message \in Messages
        /\ sent[c] \in Nat /\ Needed(c) \in Nat /\ received[c] \in Nat /\ Header(c) \in Nat
    BY <2>1, StreamLengths DEF TypeInv
  <2>3. received[c] > max_message_length
    BY <2>1, <2>2 DEF DroppedInv
  <2>4. Header(c) <= max_message_length
    BY <2>2, ParsedRequest DEF Header
  <2> QED BY <2>1, <2>2, <2>3, <2>4, NumbersAssumption DEF BytesInv
<1> QED BY <1>1, ConnectionInvariant, PTL

\* A client that gets an answer knows that its request was carried out, the
\* answer repeats its message and fits the buffer, and a client that waits for an
\* answer to what was carried out gets one (socket.cpp:83-146).
THEOREM ConnectionAnswersAreTrue == Spec => []AnswersAreTrue
<1>1. ConnectionInv => AnswersAreTrue
  <2> SUFFICES ASSUME ConnectionInv, NEW c \in Connections
               PROVE  /\ answer[c] # None =>
                           /\ outcome[c] = "executed"
                           /\ answer[c].message = stream[c].message
                           /\ answer[c].data <=> request[c].type = "READ"
                           /\ LengthOf(answer[c].message) + 1
                                + (IF answer[c].data THEN FS_BLOCKSIZE ELSE 0)
                                <= max_send_message_length
                      /\ listening /\ pc[c] = "closed" /\ outcome[c] = "executed"
                           /\ ~gone[c] => answer[c] # None
    BY DEF AnswersAreTrue
  <2>1. TypeInv /\ RequestInv(c) /\ OutcomeInv(c)
    BY DEF ConnectionInv, ThreadInv
  <2>2. ASSUME answer[c] # None
        PROVE  /\ outcome[c] = "executed"
               /\ answer[c].message = stream[c].message
               /\ answer[c].data <=> request[c].type = "READ"
    <3>1. /\ outcome[c] = "executed"
          /\ answer[c] = [message |-> stream[c].message, data |-> request[c].type = "READ"]
      BY <2>1, <2>2 DEF OutcomeInv
    <3>2. PICK d \in BOOLEAN : d = (request[c].type = "READ")
      OBVIOUS
    <3>3. PICK a : a = answer[c] /\ a = [message |-> stream[c].message, data |-> d]
      BY <3>1, <3>2, Zenon
    <3>4. a.message = stream[c].message /\ a.data = d
      BY <3>3
    <3> QED BY <3>1, <3>2, <3>3, <3>4, Zenon
  <2>3. ASSUME answer[c] # None
        PROVE  LengthOf(answer[c].message) + 1
                 + (IF answer[c].data THEN FS_BLOCKSIZE ELSE 0) <= max_send_message_length
    <3>1. outcome[c] # None /\ stream[c].message \in Messages
      BY <2>1, <2>2, <2>3, NoneAssumption, StreamLengths DEF TypeInv
    <3>2. request[c] \in Meanings(stream[c].message)
      BY <2>1, <3>1 DEF RequestInv
    <3>3. PICK k, b, l : /\ k = LengthOf(stream[c].message)
                         /\ b = FS_BLOCKSIZE /\ l = max_message_length
      OBVIOUS
    <3>4. k \in Nat /\ k <= l /\ b \in Nat /\ l \in Nat
      BY <3>1, <3>2, <3>3, ParsedRequest, LengthNat, NumbersAssumption
    <3>5. PICK e : e = IF answer[c].data THEN b ELSE 0
      OBVIOUS
    <3>6. e \in Nat /\ e <= b
      BY <3>4, <3>5
    <3>7. k + 1 + e <= l + 1 + b
      BY <3>4, <3>6
    <3> QED BY <2>2, <2>3, <3>3, <3>5, <3>7 DEF max_send_message_length
  <2> QED BY <2>1, <2>2, <2>3 DEF OutcomeInv
<1> QED BY <1>1, ConnectionInvariant, PTL
=============================================================================
