---------------------------- MODULE TargetsProofs ----------------------------
(* Proofs about Targets, for bytes and addresses of any width and for every *)
(* cap below the size of the address space; the code's are 8, 4 and 4096.   *)
EXTENDS Targets, FiniteSetTheorems, FunctionTheorems, WellFoundedInduction, TLAPS

-----------------------------------------------------------------------------
(* Induction, and functions that are defined by recursion. *)

\* A set that holds 0 and, with a number, its successor, holds all numbers: the
\* induction the definitions of the model need, said of sets.  The intervals
\* from 0 to a number that is missing have no least one.
LEMMA NatSetInduction ==
    ASSUME NEW S, 0 \in S, \A n \in Nat : n \in S => n + 1 \in S
    PROVE  Nat \subseteq S
<1>1. SUFFICES ASSUME NEW n \in Nat, n \notin S
               PROVE  FALSE
  OBVIOUS
<1> DEFINE R == StrictSubsetOrdering(0..n)
           T == {0..k : k \in {j \in 0..n : j \notin S}}
<1>2. IsWellFoundedOn(R, SUBSET (0..n))
  <2>1. IsFiniteSet(0..n)
    BY FS_Interval
  <2>2. SUBSET (0..n) = FiniteSubsetsOf(0..n)
    BY <2>1, FS_Subset DEF FiniteSubsetsOf
  <2> QED
    BY <2>2, FS_StrictSubsetOrderingWellFounded
<1>3. T \subseteq SUBSET (0..n) /\ T # {}
  BY <1>1
<1>4. PICK U \in T : \A V \in T : <<V, U>> \notin R
  BY <1>2, <1>3, WFMin
<1>5. PICK k \in 0..n : k \notin S /\ U = 0..k
  BY <1>4
<1>6. k # 0 /\ k - 1 \notin S /\ k - 1 \in 0..n
  BY <1>5
<1>7. 0..(k - 1) \in T /\ 0..(k - 1) \subseteq 0..k /\ 0..(k - 1) # 0..k
  BY <1>6, <1>5
<1>8. <<0..(k - 1), U>> \in R
  BY <1>7, <1>5, <1>3 DEF StrictSubsetOrdering
<1> QED
  BY <1>4, <1>7, <1>8

\* f[0] is c, and f[n] is made from the value before it: times m and plus d[n].
Linear(f, N, c, m, d) == f[0] = c /\ \A n \in 1..N : f[n] = f[n - 1] * m + d[n]

\* There is such a function.
LEMMA LinearRecursion ==
    ASSUME NEW N \in Nat, NEW c \in Nat, NEW m \in Nat, NEW d \in [1..N -> Nat]
    PROVE  \E f \in [0..N -> Nat] : Linear(f, N, c, m, d)
<1> DEFINE Good(f, k) == f[0] = c /\ \A n \in 1..k : f[n] = f[n - 1] * m + d[n]
           S == {k \in Nat : k <= N => \E f \in [0..k -> Nat] : Good(f, k)}
<1>1. 0 \in S
  <2> DEFINE f == [n \in 0..0 |-> c]
  <2>1. f \in [0..0 -> Nat] /\ f[0] = c /\ 1..0 = {}
    OBVIOUS
  <2> HIDE DEF f
  <2> QED
    BY <2>1
<1>2. ASSUME NEW k \in Nat, k \in S PROVE k + 1 \in S
  <2> SUFFICES ASSUME k + 1 <= N PROVE \E f \in [0..(k + 1) -> Nat] : Good(f, k + 1)
    <3> HIDE DEF Good
    <3> QED
      OBVIOUS
  <2>1. PICK h \in [0..k -> Nat] : Good(h, k)
    BY <1>2, SMTT(30)
  <2> DEFINE f == [n \in 0..(k + 1) |-> IF n <= k THEN h[n] ELSE h[k] * m + d[k + 1]]
  <2>2. f \in [0..(k + 1) -> Nat]
    <3>1. h[k] \in Nat /\ d[k + 1] \in Nat
      OBVIOUS
    <3>2. h[k] * m + d[k + 1] \in Nat
      BY <3>1
    <3> QED
      BY <3>2
  <2>3. f[0] = c
    BY <2>1
  <2>4. ASSUME NEW n \in 1..(k + 1) PROVE f[n] = f[n - 1] * m + d[n]
    <3>1. CASE n <= k
      <4>1. n \in 1..k /\ f[n] = h[n] /\ f[n - 1] = h[n - 1]
        BY <3>1
      <4>2. h[n] = h[n - 1] * m + d[n]
        BY <2>1, <4>1
      <4> QED
        BY <4>1, <4>2
    <3>2. CASE n = k + 1
      <4>1. f[n] = h[k] * m + d[k + 1] /\ f[n - 1] = h[k]
        BY <3>2
      <4> QED
        BY <3>2, <4>1
    <3> QED
      BY <3>1, <3>2
  <2> QED
    BY <2>2, <2>3, <2>4
<1>3. N \in S
  <2> HIDE DEF S
  <2> QED
    BY <1>1, <1>2, NatSetInduction
<1>4. \E f \in [0..N -> Nat] : Good(f, N)
  <2> HIDE DEF Good
  <2> QED
    BY <1>3
<1> QED
  BY <1>4 DEF Linear

\* What a definition of this form defines.
LinearBody(g, N, c, m, d) == [n \in 0..N |-> IF n = 0 THEN c ELSE g[n - 1] * m + d[n]]

Fixpoint(g, N, c, m, d) == g = LinearBody(g, N, c, m, d)

\* No two functions are equal to it.
LEMMA LinearUnique ==
    ASSUME NEW N \in Nat, NEW c \in Nat, NEW m \in Nat, NEW d \in [1..N -> Nat],
           NEW f \in [0..N -> Nat], Linear(f, N, c, m, d), NEW g, Fixpoint(g, N, c, m, d)
    PROVE  g = f
<1>1. Linear(f, N, c, m, d)
  OBVIOUS
<1>2. \A n \in 0..N : g[n] = IF n = 0 THEN c ELSE g[n - 1] * m + d[n]
  <2> DEFINE F(n) == IF n = 0 THEN c ELSE g[n - 1] * m + d[n]
  <2>1. g = [n \in 0..N |-> F(n)]
    BY DEF LinearBody, Fixpoint
  <2> HIDE DEF F
  <2>2. \A n \in 0..N : g[n] = F(n)
    BY <2>1
  <2> QED
    BY <2>2 DEF F
<1>3. g = [n \in 0..N |-> g[n]]
  BY DEF LinearBody, Fixpoint
<1> DEFINE S == {k \in Nat : k <= N => g[k] = f[k]}
<1>4. 0 \in S
  BY <1>1, <1>2 DEF Linear
<1>5. ASSUME NEW k \in Nat, k \in S PROVE k + 1 \in S
  <2> SUFFICES ASSUME k + 1 <= N PROVE g[k + 1] = f[k + 1]
    OBVIOUS
  <2>1. k + 1 \in 1..N /\ (k + 1) - 1 = k /\ g[k] = f[k]
    <3>1. k <= N
      OBVIOUS
    <3> QED
      BY <1>5, <3>1
  <2>2. f[k + 1] = f[k] * m + d[k + 1]
    BY <1>1, <2>1 DEF Linear
  <2>3. g[k + 1] = g[k] * m + d[k + 1]
    <3>1. k + 1 \in 0..N /\ k + 1 # 0
      BY <2>1
    <3> QED
      BY <1>2, <2>1, <3>1
  <2> QED
    BY <2>1, <2>2, <2>3
<1>6. Nat \subseteq S
  <2> HIDE DEF S
  <2> QED
    BY <1>4, <1>5, NatSetInduction
<1>7. ASSUME NEW k \in 0..N PROVE g[k] = f[k]
  <2>1. k \in S /\ k <= N
    <3>1. k \in Nat /\ k <= N
      OBVIOUS
    <3> HIDE DEF S
    <3> QED
      BY <1>6, <3>1
  <2> QED
    BY <2>1
<1>8. f = [k \in 0..N |-> f[k]] /\ g = [k \in 0..N |-> g[k]]
  BY <1>1, <1>3
<1> QED
  BY <1>1, <1>7, <1>8

\* What such a definition defines.
Defined(N, c, m, d) == CHOOSE g : g = LinearBody(g, N, c, m, d)

\* It is the function that the recursion asks for.
LEMMA LinearDefined ==
    ASSUME NEW N \in Nat, NEW c \in Nat, NEW m \in Nat, NEW d \in [1..N -> Nat]
    PROVE  /\ Defined(N, c, m, d) \in [0..N -> Nat]
           /\ Linear(Defined(N, c, m, d), N, c, m, d)
<1> DEFINE g == Defined(N, c, m, d)
<1>1. PICK f \in [0..N -> Nat] : Linear(f, N, c, m, d)
  BY LinearRecursion
<1>2. f = LinearBody(f, N, c, m, d)
  <2>1. \A n \in 0..N : f[n] = IF n = 0 THEN c ELSE f[n - 1] * m + d[n]
    BY <1>1 DEF Linear
  <2> QED
    BY <1>1, <2>1 DEF LinearBody
<1>3. Fixpoint(g, N, c, m, d)
  BY <1>2 DEF Fixpoint, Defined
<1> HIDE DEF g
<1>4. g = f
  BY <1>1, <1>3, LinearUnique
<1> QED
  BY <1>1, <1>4 DEF g

-----------------------------------------------------------------------------
(* Powers of two, and division. *)

\* The width of an address in bits.
LEMMA BitsType == Bits \in Nat /\ Width \in 1..Bits /\ Width * (Bytes - 1) + Width = Bits
<1>1. Width \in Nat \ {0} /\ Bytes \in Nat \ {0}
  BY ConstAssumption
<1>2. Width * Bytes \in Nat /\ Width <= Width * Bytes /\ Width * (Bytes - 1) + Width = Width * Bytes
  BY <1>1
<1> QED
  BY <1>1, <1>2 DEF Bits

\* What pow2 is: it doubles.
LEMMA Pow2Steps ==
    /\ pow2 \in [0..Bits -> Nat] /\ pow2[0] = 1
    /\ \A n \in 1..Bits : pow2[n] = 2 * pow2[n - 1]
<1> DEFINE d == [n \in 1..Bits |-> 0]
           body(g) == [n \in 0..Bits |-> IF n = 0 THEN 1 ELSE 2 * g[n - 1]]
<1>1. Bits \in Nat /\ d \in [1..Bits -> Nat]
  BY BitsType
<1>2. PICK f \in [0..Bits -> Nat] : Linear(f, Bits, 1, 2, d)
  BY <1>1, LinearRecursion
<1>3. \A n \in 1..Bits : f[n] = 2 * f[n - 1]
  <2> TAKE n \in 1..Bits
  <2>1. f[n] = f[n - 1] * 2 + d[n] /\ d[n] = 0 /\ f[n - 1] \in Nat
    BY <1>1, <1>2 DEF Linear
  <2> QED
    BY <2>1
<1>4. f[0] = 1
  BY <1>2 DEF Linear
<1>5. f = body(f)
  <2>1. \A n \in 0..Bits : f[n] = IF n = 0 THEN 1 ELSE 2 * f[n - 1]
    BY <1>1, <1>3, <1>4
  <2> QED
    BY <2>1
<1>6. pow2 = CHOOSE g : g = body(g)
  BY DEF pow2
<1>7. pow2 = body(pow2)
  <2> HIDE DEF body
  <2> QED
    BY <1>5, <1>6
<1>8. \A n \in 0..Bits : pow2[n] = IF n = 0 THEN 1 ELSE 2 * pow2[n - 1]
  BY <1>7
<1>9. \A n \in 0..Bits : pow2[n] = f[n]
  <2> DEFINE S == {k \in Nat : k <= Bits => pow2[k] = f[k]}
  <2> HIDE DEF body
  <2>1. 0 \in S
    BY <1>1, <1>4, <1>8
  <2>2. ASSUME NEW k \in Nat, k \in S PROVE k + 1 \in S
    <3> SUFFICES ASSUME k + 1 <= Bits PROVE pow2[k + 1] = f[k + 1]
      OBVIOUS
    <3>1. k + 1 \in 1..Bits /\ k + 1 \in 0..Bits /\ k + 1 # 0 /\ (k + 1) - 1 = k /\ pow2[k] = f[k]
      BY <1>1, <2>2
    <3>2. pow2[k + 1] = 2 * pow2[k]
      BY <1>8, <3>1
    <3>3. f[k + 1] = 2 * f[k]
      BY <1>3, <3>1
    <3> QED
      BY <3>1, <3>2, <3>3
  <2>3. Nat \subseteq S
    <3> HIDE DEF S
    <3> QED
      BY <2>1, <2>2, NatSetInduction
  <2> QED
    BY <1>1, <2>3
<1>10. pow2 = [n \in 0..Bits |-> pow2[n]]
  BY <1>7
<1>11. pow2 = f
  BY <1>2, <1>9, <1>10
<1> QED
  BY <1>2, <1>3, <1>4, <1>11

\* It is never zero.
LEMMA Pow2Positive == \A n \in 0..Bits : pow2[n] \in Nat \ {0}
<1> DEFINE S == {k \in Nat : k <= Bits => pow2[k] \in Nat \ {0}}
<1>0. Bits \in Nat
  BY BitsType
<1>1. 0 \in S
  BY Pow2Steps
<1>2. ASSUME NEW k \in Nat, k \in S PROVE k + 1 \in S
  <2> SUFFICES ASSUME k + 1 <= Bits PROVE pow2[k + 1] \in Nat \ {0}
    OBVIOUS
  <2>1. k + 1 \in 1..Bits /\ (k + 1) - 1 = k /\ pow2[k] \in Nat \ {0}
    BY <1>0, <1>2
  <2>2. pow2[k + 1] = 2 * pow2[k]
    BY <2>1, Pow2Steps
  <2> QED
    BY <2>1, <2>2
<1>3. Nat \subseteq S
  <2> HIDE DEF S
  <2> QED
    BY <1>1, <1>2, NatSetInduction
<1> QED
  BY <1>0, <1>3

\* 2^(i+j) = 2^i * 2^j
LEMMA Pow2Sum ==
    ASSUME NEW i \in Nat, NEW j \in Nat, i + j <= Bits
    PROVE  pow2[i + j] = pow2[i] * pow2[j]
<1> DEFINE S == {k \in Nat : i + k <= Bits => pow2[i + k] = pow2[i] * pow2[k]}
<1>0. Bits \in Nat
  BY BitsType
<1>1. 0 \in S
  <2> SUFFICES ASSUME i + 0 <= Bits PROVE pow2[i + 0] = pow2[i] * pow2[0]
    OBVIOUS
  <2>1. i \in 0..Bits /\ i + 0 = i
    BY <1>0
  <2>2. pow2[i] \in Nat /\ pow2[0] = 1
    BY <2>1, Pow2Steps
  <2> QED
    BY <2>1, <2>2
<1>2. ASSUME NEW k \in Nat, k \in S PROVE k + 1 \in S
  <2> SUFFICES ASSUME i + (k + 1) <= Bits PROVE pow2[i + (k + 1)] = pow2[i] * pow2[k + 1]
    OBVIOUS
  <2>1. /\ i + (k + 1) \in 1..Bits /\ (i + (k + 1)) - 1 = i + k
        /\ k + 1 \in 1..Bits /\ (k + 1) - 1 = k
        /\ i \in 0..Bits /\ k \in 0..Bits
    BY <1>0
  <2>2. pow2[i + k] = pow2[i] * pow2[k]
    BY <1>0, <1>2
  <2>3. pow2[i + (k + 1)] = 2 * pow2[i + k] /\ pow2[k + 1] = 2 * pow2[k]
    BY <2>1, Pow2Steps
  <2>4. pow2[i] \in Nat /\ pow2[k] \in Nat
    BY <2>1, Pow2Steps
  <2>5. ASSUME NEW a \in Nat, NEW b \in Nat PROVE 2 * (a * b) = a * (2 * b)
    OBVIOUS
  <2>6. 2 * (pow2[i] * pow2[k]) = pow2[i] * (2 * pow2[k])
    BY <2>4, <2>5
  <2> QED
    BY <2>2, <2>3, <2>6
<1>3. Nat \subseteq S
  <2> HIDE DEF S
  <2> QED
    BY <1>1, <1>2, NatSetInduction
<1> QED
  BY <1>3

\* A digit more keeps a number below a size.
LEMMA DigitBound ==
    ASSUME NEW v \in Nat, NEW p \in Nat, NEW b \in Nat \ {0}, NEW r \in 0..(b - 1), v < p
    PROVE  v * b + r < p * b
<1>1. v + 1 <= p /\ r + 1 <= b
  OBVIOUS
<1>2. (v + 1) * b <= p * b
  BY <1>1
<1>3. v * b + b = (v + 1) * b
  OBVIOUS
<1> QED
  BY <1>1, <1>2, <1>3

\* A number has its digits in one way only.
LEMMA DigitUnique ==
    ASSUME NEW q \in Nat, NEW p \in Nat, NEW b \in Nat, NEW r \in 0..(b - 1), NEW s \in 0..(b - 1),
           q * b + r = p * b + s
    PROVE  q = p /\ r = s
OBVIOUS

\* A number is its quotient and its remainder in one way only.
LEMMA DivUnique ==
    ASSUME NEW q \in Int, NEW d \in Nat \ {0}, NEW r \in 0..(d - 1)
    PROVE  (q * d + r) \div d = q /\ (q * d + r) % d = r
OBVIOUS

-----------------------------------------------------------------------------
(* The value of an address. *)

\* The numbers of the first bytes of an address.
Prefixes(ip) == Defined(Bytes, 0, Base, ip)

\* What has been read of an address so far, and what an address can be.
Val(ip, n) == Prefixes(ip)[n]
Size(n) == pow2[Width * n]

\* A byte has at least one value.
LEMMA BaseType == Base \in Nat \ {0} /\ Bytes \in Nat \ {0} /\ Width \in Nat \ {0}
BY ConstAssumption, BitsType, Pow2Positive DEF Base

\* ipToUint32 reads one byte after the other.
LEMMA ValSteps ==
    ASSUME NEW ip \in Address
    PROVE  /\ \A n \in 0..Bytes : Val(ip, n) \in Nat
           /\ Val(ip, 0) = 0
           /\ \A n \in 1..Bytes : Val(ip, n) = Val(ip, n - 1) * Base + ip[n]
           /\ ipToUint32(ip) = Val(ip, Bytes)
<1> DEFINE v == Prefixes(ip)
<1>1. Base \in Nat /\ Bytes \in Nat /\ ip \in [1..Bytes -> Nat]
  BY BaseType DEF Address
<1>2. v \in [0..Bytes -> Nat] /\ Linear(v, Bytes, 0, Base, ip)
  <2>1. 0 \in Nat
    OBVIOUS
  <2> QED
    BY <1>1, <2>1, LinearDefined DEF Prefixes
<1>3. ipToUint32(ip) = v[Bytes]
  BY DEF ipToUint32, Prefixes, Defined, LinearBody
<1>4. /\ \A n \in 0..Bytes : v[n] \in Nat
      /\ v[0] = 0
      /\ \A n \in 1..Bytes : v[n] = v[n - 1] * Base + ip[n]
  BY <1>2 DEF Linear
<1> QED
  BY <1>3, <1>4 DEF Val

\* One byte more, and there are Base times as many.
LEMMA SizeSteps ==
    /\ Size(0) = 1 /\ Size(Bytes) = pow2[Bits]
    /\ \A n \in 0..Bytes : Size(n) \in Nat \ {0} /\ Width * n \in 0..Bits
    /\ \A n \in 1..Bytes : Size(n) = Size(n - 1) * Base
<1>1. Width \in Nat \ {0} /\ Bytes \in Nat \ {0} /\ Bits = Width * Bytes
  BY ConstAssumption DEF Bits
<1>2. ASSUME NEW n \in 0..Bytes PROVE Width * n \in 0..Bits
  <2>1. Width * n \in Nat /\ Width * n <= Width * Bytes
    BY <1>1
  <2> QED
    BY <1>1, <2>1
<1>3. ASSUME NEW n \in 1..Bytes PROVE Size(n) = Size(n - 1) * Base
  <2>1. n - 1 \in Nat /\ Width * (n - 1) \in Nat /\ Width * (n - 1) + Width = Width * n
    BY <1>1
  <2>2. Width * (n - 1) + Width <= Bits
    BY <1>1, <1>2, <2>1
  <2> QED
    BY <1>1, <2>1, <2>2, Pow2Sum DEF Size, Base
<1>4. Width * 0 = 0
  BY <1>1
<1> QED
  BY <1>1, <1>2, <1>3, <1>4, Pow2Steps, Pow2Positive DEF Size

\* n bytes have a value below their size.
LEMMA ValBound ==
    ASSUME NEW ip \in Address
    PROVE  \A n \in 0..Bytes : Val(ip, n) < Size(n)
<1> DEFINE S == {k \in Nat : k <= Bytes => Val(ip, k) < Size(k)}
<1>0. Bytes \in Nat
  BY BaseType
<1>1. 0 \in S
  BY ValSteps, SizeSteps
<1>2. ASSUME NEW k \in Nat, k \in S PROVE k + 1 \in S
  <2> SUFFICES ASSUME k + 1 <= Bytes PROVE Val(ip, k + 1) < Size(k + 1)
    OBVIOUS
  <2>1. k + 1 \in 1..Bytes /\ (k + 1) - 1 = k /\ k \in 0..Bytes /\ Val(ip, k) < Size(k)
    BY <1>0, <1>2
  <2>2. Val(ip, k + 1) = Val(ip, k) * Base + ip[k + 1]
    BY <2>1, ValSteps
  <2>3. Size(k + 1) = Size(k) * Base
    BY <2>1, SizeSteps
  <2>4. Val(ip, k) \in Nat /\ Size(k) \in Nat /\ Base \in Nat \ {0} /\ ip[k + 1] \in 0..(Base - 1)
    BY <2>1, ValSteps, SizeSteps, BaseType DEF Address
  <2>5. Val(ip, k) * Base + ip[k + 1] < Size(k) * Base
    BY <2>1, <2>4, DigitBound
  <2> QED
    BY <2>2, <2>3, <2>5
<1>3. Nat \subseteq S
  <2> HIDE DEF S
  <2> QED
    BY <1>1, <1>2, NatSetInduction
<1>4. ASSUME NEW n \in 0..Bytes PROVE Val(ip, n) < Size(n)
  <2>1. n \in Nat /\ n <= Bytes
    BY <1>0
  <2>2. n \in S
    BY <1>3, <2>1
  <2> QED
    BY <2>1, <2>2
<1> QED
  BY <1>4

\* Two addresses of the same value are the same address.
LEMMA ValInjective ==
    ASSUME NEW a \in Address, NEW c \in Address, ipToUint32(a) = ipToUint32(c)
    PROVE  a = c
<1> DEFINE Same(k) == \A n \in 1..k : a[n] = c[n]
           S == {k \in Nat : k <= Bytes /\ Val(a, k) = Val(c, k) => Same(k)}
<1>0. Bytes \in Nat
  BY BaseType
<1>1. 0 \in S
  OBVIOUS
<1>2. ASSUME NEW k \in Nat, k \in S PROVE k + 1 \in S
  <2> SUFFICES ASSUME k + 1 <= Bytes, Val(a, k + 1) = Val(c, k + 1) PROVE Same(k + 1)
    <3> HIDE DEF Same
    <3> QED
      OBVIOUS
  <2>1. k + 1 \in 1..Bytes /\ (k + 1) - 1 = k /\ k \in 0..Bytes /\ k <= Bytes
    BY <1>0
  <2>2. /\ Val(a, k + 1) = Val(a, k) * Base + a[k + 1]
        /\ Val(c, k + 1) = Val(c, k) * Base + c[k + 1]
    BY <2>1, ValSteps
  <2>3. /\ Val(a, k) \in Nat /\ Val(c, k) \in Nat /\ Base \in Nat
        /\ a[k + 1] \in 0..(Base - 1) /\ c[k + 1] \in 0..(Base - 1)
    BY <2>1, ValSteps, BaseType DEF Address
  <2>4. Val(a, k) * Base + a[k + 1] = Val(c, k) * Base + c[k + 1]
    BY <2>2
  <2>5. Val(a, k) = Val(c, k) /\ a[k + 1] = c[k + 1]
    <3> DEFINE q == Val(a, k)
               p == Val(c, k)
               r == a[k + 1]
               t == c[k + 1]
    <3>1. q \in Nat /\ p \in Nat /\ Base \in Nat /\ r \in 0..(Base - 1) /\ t \in 0..(Base - 1)
      BY <2>3
    <3>2. q * Base + r = p * Base + t
      BY <2>4
    <3> HIDE DEF q, p, r, t
    <3>3. q = p /\ r = t
      BY <3>1, <3>2, DigitUnique
    <3> QED
      BY <3>3 DEF q, p, r, t
  <2>6. Same(k)
    <3> HIDE DEF Same
    <3> QED
      BY <1>2, <2>1, <2>5
  <2> QED
    BY <2>5, <2>6
<1>3. Nat \subseteq S
  <2> HIDE DEF S
  <2> QED
    BY <1>1, <1>2, NatSetInduction
<1>4. Val(a, Bytes) = Val(c, Bytes)
  BY ValSteps
<1>5. Same(Bytes)
  <2> HIDE DEF Same
  <2> QED
    BY <1>0, <1>3, <1>4
<1>6. a = [n \in 1..Bytes |-> a[n]] /\ c = [n \in 1..Bytes |-> c[n]]
  BY DEF Address
<1>7. \A n \in 1..Bytes : a[n] = c[n]
  BY <1>5
<1> QED
  BY <1>6, <1>7

-----------------------------------------------------------------------------
(* The next address. *)

\* The last digit of a number that is counted up.
LEMMA CarryDigit ==
    ASSUME NEW v \in Nat, NEW p \in Nat, NEW b \in Nat \ {0}, NEW r \in 0..(b - 1), v < p
    PROVE  /\ r = b - 1 => /\ (v * b + r = p * b - 1 <=> v = p - 1)
                           /\ (v + 1) * b = v * b + r + 1
           /\ r # b - 1 => v * b + r # p * b - 1
<1>1. (v + 1) * b = v * b + b /\ v * b \in Int /\ p * b \in Int
  OBVIOUS
<1>2. v = p - 1 => (v + 1) * b = p * b
  OBVIOUS
<1>3. v + 1 < p => (v + 1) * b + 0 < p * b
  BY DigitBound
<1>4. v + 1 = p \/ v + 1 < p
  OBVIOUS
<1>5. v + 1 = p => (v + 1) * b = p * b
  OBVIOUS
<1> DEFINE vb == v * b
           pb == p * b
           wb == (v + 1) * b
<1>6. /\ vb \in Int /\ pb \in Int /\ wb = vb + b
      /\ v + 1 < p => wb + 0 < pb
      /\ v + 1 = p => wb = pb
  BY <1>1, <1>3, <1>5
<1> HIDE DEF vb, pb, wb
<1>7. /\ r = b - 1 => /\ (vb + r = pb - 1 <=> v = p - 1)
                      /\ wb = vb + r + 1
      /\ r # b - 1 => vb + r # pb - 1
  BY <1>4, <1>6
<1> QED
  BY <1>7 DEF vb, pb, wb

\* nextIP counts up by one, through any number of bytes, and wraps around at the
\* end of the address space.
LEMMA NextVal ==
    ASSUME NEW a \in Address
    PROVE  /\ nextIP(a) \in Address
           /\ ipToUint32(nextIP(a)) =
                 IF ipToUint32(a) = pow2[Bits] - 1 THEN 0 ELSE ipToUint32(a) + 1
<1> DEFINE x == nextIP(a)
           Carry(n) == \A j \in (n + 1)..Bytes : a[j] = Base - 1
           Counted(n) == IF Carry(n)
                         THEN Val(x, n) = IF Val(a, n) = Size(n) - 1 THEN 0 ELSE Val(a, n) + 1
                         ELSE Val(x, n) = Val(a, n)
           S == {k \in Nat : k <= Bytes => Counted(k)}
<1>0. Bytes \in Nat \ {0} /\ Base \in Nat \ {0} /\ \A n \in 1..Bytes : a[n] \in 0..(Base - 1)
  BY BaseType DEF Address
<1>1. \A n \in 1..Bytes : x[n] = IF Carry(n) THEN (a[n] + 1) % Base ELSE a[n]
  BY DEF nextIP
<1>2. ASSUME NEW n \in 1..Bytes
      PROVE  /\ Carry(n) => x[n] = IF a[n] = Base - 1 THEN 0 ELSE a[n] + 1
             /\ ~Carry(n) => x[n] = a[n]
  <2>1. ASSUME NEW b \in Nat \ {0}, NEW r \in 0..(b - 1)
        PROVE  (r + 1) % b = IF r = b - 1 THEN 0 ELSE r + 1
    OBVIOUS
  <2>2. (a[n] + 1) % Base = IF a[n] = Base - 1 THEN 0 ELSE a[n] + 1
    BY <1>0, <2>1
  <2> HIDE DEF x, Carry
  <2> QED
    BY <1>1, <2>2
<1>3. x \in Address
  <2>1. ASSUME NEW n \in 1..Bytes PROVE x[n] \in 0..(Base - 1)
    <3> HIDE DEF x, Carry
    <3> QED
      BY <1>0, <1>2
  <2>2. x = [n \in 1..Bytes |-> x[n]]
    BY DEF nextIP
  <2> HIDE DEF x
  <2> QED
    BY <2>1, <2>2 DEF Address
<1>4. ASSUME NEW n \in 1..Bytes PROVE Carry(n - 1) <=> Carry(n) /\ a[n] = Base - 1
  <2>1. (n - 1) + 1 = n /\ n..Bytes = {n} \cup (n + 1)..Bytes
    BY <1>0
  <2> QED
    BY <2>1
<1> HIDE DEF x, Carry
<1>5. 0 \in S
  <2>1. Val(a, 0) = 0 /\ Val(x, 0) = 0 /\ Size(0) = 1
    BY <1>3, ValSteps, SizeSteps
  <2> QED
    BY <2>1
<1>6. ASSUME NEW k \in Nat, k \in S PROVE k + 1 \in S
  <2> SUFFICES ASSUME k + 1 <= Bytes PROVE Counted(k + 1)
    <3> HIDE DEF Counted
    <3> QED
      OBVIOUS
  <2> DEFINE n == k + 1
             v == Val(a, k)
             w == Val(x, k)
             r == a[n]
             t == x[n]
  <2>1. n \in 1..Bytes /\ n - 1 = k /\ k \in 0..Bytes /\ Counted(k)
    BY <1>0, <1>6
  <2>2. Val(a, n) = v * Base + r /\ Val(x, n) = w * Base + t /\ Size(n) = Size(k) * Base
    BY <1>3, <2>1, ValSteps, SizeSteps
  <2>3. /\ v \in Nat /\ w \in Nat /\ Size(k) \in Nat /\ v < Size(k)
        /\ Base \in Nat \ {0} /\ r \in 0..(Base - 1)
    BY <1>0, <1>3, <2>1, ValSteps, SizeSteps, ValBound
  <2>4. /\ r = Base - 1 => /\ (v * Base + r = Size(k) * Base - 1 <=> v = Size(k) - 1)
                           /\ (v + 1) * Base = v * Base + r + 1
        /\ r # Base - 1 => v * Base + r # Size(k) * Base - 1
    <3> HIDE DEF v, r
    <3> QED
      BY <2>3, CarryDigit
  <2>5. /\ Carry(n) => t = IF r = Base - 1 THEN 0 ELSE r + 1
        /\ ~Carry(n) => t = r
    BY <1>2, <2>1
  <2>6. Carry(k) <=> Carry(n) /\ r = Base - 1
    BY <1>4, <2>1
  <2>7. IF Carry(k) THEN w = IF v = Size(k) - 1 THEN 0 ELSE v + 1 ELSE w = v
    BY <2>1
  <2> HIDE DEF v, w, r, t, n
  <2>8. 0 * Base = 0
    BY <2>3
  <2>9. CASE Carry(n) /\ r = Base - 1
    <3>1. t = 0 /\ w = IF v = Size(k) - 1 THEN 0 ELSE v + 1
      BY <2>5, <2>6, <2>7, <2>9
    <3>2. CASE v = Size(k) - 1
      <4>1. Val(x, n) = 0 /\ Val(a, n) = Size(n) - 1
        BY <2>2, <2>4, <2>8, <2>9, <3>1, <3>2
      <4> QED
        BY <2>9, <4>1 DEF n
    <3>3. CASE v # Size(k) - 1
      <4>1. Val(x, n) = Val(a, n) + 1 /\ Val(a, n) # Size(n) - 1
        <5>1. Val(x, n) = (v + 1) * Base + 0
          BY <2>2, <3>1, <3>3
        <5>2. (v + 1) * Base + 0 = (v + 1) * Base
          BY <2>3
        <5> QED
          BY <2>2, <2>4, <2>9, <3>3, <5>1, <5>2
      <4> QED
        BY <2>9, <4>1 DEF n
    <3> QED
      BY <3>2, <3>3
  <2>10. CASE Carry(n) /\ r # Base - 1
    <3>1. t = r + 1 /\ w = v
      BY <2>5, <2>6, <2>7, <2>10
    <3>2. Val(a, n) # Size(n) - 1
      BY <2>2, <2>4, <2>10
    <3>3. v * Base + (r + 1) = v * Base + r + 1
      BY <2>3
    <3> QED
      BY <2>2, <2>10, <3>1, <3>2, <3>3 DEF n
  <2>11. CASE ~Carry(n)
    <3>1. t = r /\ w = v
      BY <2>5, <2>6, <2>7, <2>11
    <3> QED
      BY <2>2, <2>11, <3>1 DEF n
  <2> QED
    BY <2>9, <2>10, <2>11
<1>7. Nat \subseteq S
  <2> HIDE DEF S
  <2> QED
    BY <1>5, <1>6, NatSetInduction
<1>8. Counted(Bytes)
  <2> HIDE DEF Counted
  <2> QED
    BY <1>0, <1>7
<1>9. Carry(Bytes)
  <2>1. (Bytes + 1)..Bytes = {}
    BY <1>0
  <2> QED
    BY <2>1 DEF Carry
<1>10. /\ ipToUint32(a) = Val(a, Bytes) /\ ipToUint32(x) = Val(x, Bytes) /\ Size(Bytes) = pow2[Bits]
  BY <1>3, ValSteps, SizeSteps
<1> QED
  BY <1>3, <1>8, <1>9, <1>10 DEF x

-----------------------------------------------------------------------------
(* Masks and blocks. *)

\* The bits of the first n bytes, and of byte n alone, that a prefix leaves free.
Free(n, len) == IF Width * n <= len THEN 0 ELSE Width * n - len
Low(n, len) == Width - Covered(n, len)

\* A prefix ends in one byte: it leaves nothing free before, and all after it.
LEMMA FreeSteps ==
    ASSUME NEW len \in 0..Bits
    PROVE  /\ Free(0, len) = 0 /\ Free(Bytes, len) = Bits - len
           /\ \A n \in 0..Bytes : Free(n, len) \in 0..Bits
           /\ \A n \in 1..Bytes : /\ Low(n, len) \in 0..Width
                                  /\ Free(n, len) = Free(n - 1, len) + Low(n, len)
                                  /\ Free(n - 1, len) = 0 \/ Low(n, len) = Width
<1>0. Width \in Nat \ {0} /\ Bytes \in Nat \ {0} /\ Bits = Width * Bytes /\ Bits \in Nat
  BY BaseType, BitsType DEF Bits
<1>1. Width * 0 = 0
  BY <1>0
<1>2. \A n \in 0..Bytes : Width * n \in 0..Bits
  BY SizeSteps
<1>3. \A n \in 0..Bytes : Free(n, len) \in 0..Bits
  <2> TAKE n \in 0..Bytes
  <2> DEFINE m == Width * n
  <2>1. m \in 0..Bits
    BY <1>2
  <2> HIDE DEF m
  <2>2. (IF m <= len THEN 0 ELSE m - len) \in 0..Bits
    BY <1>0, <2>1
  <2> QED
    BY <2>2 DEF Free, m
<1>4. ASSUME NEW n \in 1..Bytes
      PROVE  /\ Low(n, len) \in 0..Width
             /\ Free(n, len) = Free(n - 1, len) + Low(n, len)
             /\ Free(n - 1, len) = 0 \/ Low(n, len) = Width
  <2> DEFINE m == Width * (n - 1)
             last == Width * n
             f == Free(n, len)
             g == Free(n - 1, len)
             l == Low(n, len)
  <2>1. last = m + Width /\ m \in Int /\ last \in Int /\ len \in Int
    BY <1>0
  <2>2. f = IF last <= len THEN 0 ELSE last - len
    BY DEF Free
  <2>3. g = IF m <= len THEN 0 ELSE m - len
    BY DEF Free
  <2>4. l = Width - (IF len - m <= 0 THEN 0 ELSE IF len - m >= Width THEN Width ELSE len - m)
    BY DEF Low, Covered
  <2>5. l \in 0..Width /\ f = g + l /\ (g = 0 \/ l = Width)
    <3> HIDE DEF m, last, f, g, l
    <3>1. CASE last <= len
      BY <1>0, <2>1, <2>2, <2>3, <2>4, <3>1
    <3>2. CASE ~(last <= len) /\ m <= len
      BY <1>0, <2>1, <2>2, <2>3, <2>4, <3>2
    <3>3. CASE ~(m <= len)
      BY <1>0, <2>1, <2>2, <2>3, <2>4, <3>3
    <3> QED
      BY <2>1, <3>1, <3>2, <3>3
  <2> QED
    BY <2>5
<1>5. Free(0, len) = 0 /\ Free(Bytes, len) = Bits - len
  BY <1>0, <1>1 DEF Free
<1> QED
  BY <1>3, <1>4, <1>5

\* Down to a multiple of d.
Round(x, d) == (x \div d) * d

\* The number x has the last digit r to the base b, and v before it.
Digits(x, v, b, r) == v \in Nat /\ b \in Nat \ {0} /\ r \in 0..(b - 1) /\ x = v * b + r

\* The number e is the product, for a positive h.
Product(e, h, d) == h \in Nat \ {0} /\ d \in Nat \ {0} /\ e = h * d

\* Rounding down in the byte that holds the end of the prefix.
LEMMA RoundDigit ==
    ASSUME NEW x, NEW v, NEW b, NEW r, NEW h, NEW d, Digits(x, v, b, r), Product(b, h, d)
    PROVE  Round(x, d) = v * b + Round(r, d)
<1> DEFINE q == r \div d
           s == r % d
           y == v * h
<1>1. /\ v \in Nat /\ h \in Nat /\ d \in Nat \ {0} /\ r \in Nat
      /\ x = v * b + r /\ b = h * d
  BY DEF Digits, Product
<1>2. q \in Int /\ s \in 0..(d - 1) /\ r = q * d + s /\ y \in Int
  BY <1>1
<1>3. v * b = y * d
  BY <1>1
<1> HIDE DEF q, s, y
<1>4. x = (y + q) * d + s
  <2>1. x = y * d + (q * d + s)
    BY <1>1, <1>2, <1>3
  <2>2. y * d + (q * d + s) = (y + q) * d + s
    BY <1>1, <1>2
  <2> QED
    BY <2>1, <2>2
<1>5. y + q \in Int
  BY <1>2
<1>6. x \div d = y + q
  BY <1>1, <1>2, <1>4, <1>5, DivUnique
<1>7. (y + q) * d = y * d + q * d
  BY <1>1, <1>2
<1> QED
  BY <1>3, <1>6, <1>7 DEF Round, q

\* Rounding down in a byte that is all free.
LEMMA RoundAway ==
    ASSUME NEW x, NEW v, NEW b, NEW r, NEW e, NEW d, Digits(x, v, b, r), Product(e, d, b)
    PROVE  Round(x, e) = Round(v, d) * b
<1> DEFINE q == v \div d
           s == v % d
           t == s * b + r
<1>1. /\ v \in Nat /\ b \in Nat \ {0} /\ d \in Nat \ {0} /\ r \in 0..(b - 1)
      /\ x = v * b + r /\ e = d * b
  BY DEF Digits, Product
<1>2. q \in Int /\ s \in 0..(d - 1) /\ v = q * d + s
  BY <1>1
<1>3. e \in Nat \ {0}
  BY <1>1
<1> HIDE DEF q, s
<1>4. x = q * (d * b) + (s * b + r)
  BY <1>1, <1>2
<1>5. s * b + r \in Nat /\ s * b + r < d * b
  <2>1. s \in Nat /\ d \in Nat /\ s < d
    BY <1>1, <1>2
  <2>2. s * b \in Nat
    BY <1>1, <2>1
  <2>3. s * b + r < d * b
    BY <1>1, <2>1, DigitBound
  <2> QED
    BY <1>1, <2>2, <2>3
<1>6. q * (d * b) = (q * d) * b
  BY <1>1, <1>2
<1>7. x = q * e + t /\ t \in 0..(e - 1)
  <2>1. t \in Nat /\ t < e /\ x = q * e + t
    BY <1>1, <1>4, <1>5
  <2> HIDE DEF t
  <2> QED
    BY <1>3, <2>1
<1> HIDE DEF t
<1>8. x \div e = q
  BY <1>2, <1>3, <1>7, DivUnique
<1> QED
  BY <1>1, <1>6, <1>8 DEF Round, q

\* Mask leaves an address, and rounds its value down to a multiple of the size
\* of the block.
LEMMA MaskVal ==
    ASSUME NEW ip \in Address, NEW len \in 0..Bits
    PROVE  LET size == pow2[Bits - len]
           IN  /\ Mask(ip, len) \in Address
               /\ ipToUint32(Mask(ip, len)) = Round(ipToUint32(ip), size)
<1> DEFINE x == Mask(ip, len)
           D(n) == pow2[Free(n, len)]
           low(n) == pow2[Low(n, len)]
           Rounded(n) == Val(x, n) = Round(Val(ip, n), D(n))
           S == {k \in Nat : k <= Bytes => Rounded(k)}
<1>0. /\ Bytes \in Nat \ {0} /\ Base \in Nat \ {0} /\ Width \in Nat /\ Width <= Bits /\ Bits \in Nat
      /\ \A n \in 1..Bytes : ip[n] \in 0..(Base - 1)
  BY BaseType, BitsType DEF Address
<1>1. \A n \in 1..Bytes : x[n] = Round(ip[n], low(n))
  BY DEF Mask, Low, Round
<1>2. \A n \in 1..Bytes : low(n) \in Nat \ {0}
  <2> TAKE n \in 1..Bytes
  <2>1. Low(n, len) \in 0..Width
    BY FreeSteps
  <2>2. Low(n, len) \in 0..Bits
    BY <1>0, <2>1
  <2> QED
    BY <2>2, Pow2Positive
<1>3. \A n \in 0..Bytes : D(n) \in Nat \ {0}
  BY FreeSteps, Pow2Positive
<1>4. x \in Address
  <2>1. ASSUME NEW n \in 1..Bytes PROVE x[n] \in 0..(Base - 1)
    <3>1. ASSUME NEW r \in Nat, NEW d \in Nat \ {0} PROVE Round(r, d) \in 0..r
      BY DEF Round
    <3> HIDE DEF x, low
    <3>2. ip[n] \in Nat /\ x[n] \in 0..ip[n]
      BY <1>0, <1>1, <1>2, <3>1
    <3> QED
      BY <1>0, <3>2
  <2>2. x = [n \in 1..Bytes |-> x[n]]
    BY DEF Mask
  <2> HIDE DEF x
  <2> QED
    BY <2>1, <2>2 DEF Address
<1> HIDE DEF x
<1>5. 0 \in S
  <2>1. Val(ip, 0) = 0 /\ Val(x, 0) = 0 /\ D(0) = 1
    BY <1>4, ValSteps, FreeSteps, Pow2Steps
  <2>2. Round(0, 1) = 0
    BY DEF Round
  <2> HIDE DEF D
  <2> QED
    BY <2>1, <2>2
<1>6. ASSUME NEW k \in Nat, k \in S PROVE k + 1 \in S
  <2> SUFFICES ASSUME k + 1 <= Bytes PROVE Rounded(k + 1)
    <3> HIDE DEF Rounded
    <3> QED
      OBVIOUS
  <2> DEFINE n == k + 1
             v == Val(ip, k)
             w == Val(x, k)
             r == ip[n]
             d == D(k)
             l == low(n)
  <2>1. n \in 1..Bytes /\ n - 1 = k /\ k \in 0..Bytes /\ n \in 0..Bytes
    BY <1>0
  <2>2. w = Round(v, d)
    BY <1>0, <1>6
  <2>3. Val(ip, n) = v * Base + r /\ Val(x, n) = w * Base + Round(r, l)
    <3>1. x[n] = Round(r, l)
      BY <1>1, <2>1
    <3> QED
      BY <1>4, <2>1, <3>1, ValSteps
  <2>4. v \in Nat /\ r \in 0..(Base - 1) /\ d \in Nat \ {0} /\ l \in Nat \ {0}
    BY <1>0, <1>2, <1>3, <2>1, ValSteps
  <2>5. D(n) = d * l
    <3>1. Free(n, len) = Free(k, len) + Low(n, len) /\ Free(n, len) <= Bits
          /\ Free(k, len) \in Nat /\ Low(n, len) \in Nat
      BY <1>0, <2>1, FreeSteps
    <3> QED
      BY <3>1, Pow2Sum
  <2>6. CASE Free(k, len) = 0
    <3> DEFINE h == pow2[Width - Low(n, len)]
    <3>1. d = 1
      BY <2>6, Pow2Steps
    <3>2. Base = h * l /\ h \in Nat \ {0}
      <4>1. /\ Low(n, len) \in Nat /\ Width - Low(n, len) \in 0..Bits
            /\ (Width - Low(n, len)) + Low(n, len) = Width
        <5>1. Low(n, len) \in 0..Width
          BY <2>1, FreeSteps
        <5> HIDE DEF n
        <5> QED
          BY <1>0, <5>1
      <4>2. Width - Low(n, len) \in Nat /\ (Width - Low(n, len)) + Low(n, len) <= Bits
        BY <1>0, <4>1
      <4> QED
        BY <4>1, <4>2, Pow2Sum, Pow2Positive DEF Base
    <3> HIDE DEF v, w, r, d, l, n, h, D, S, Rounded, low
    <3>3. Digits(Val(ip, n), v, Base, r) /\ Product(Base, h, l)
      BY <1>0, <2>3, <2>4, <3>2 DEF Digits, Product
    <3>4. Round(Val(ip, n), l) = v * Base + Round(r, l)
      BY <3>3, RoundDigit
    <3>5. w = v
      BY <2>2, <2>4, <3>1 DEF Round
    <3>6. D(n) = l
      BY <2>4, <2>5, <3>1
    <3>7. Val(x, n) = Round(Val(ip, n), D(n))
      BY <2>3, <3>4, <3>5, <3>6
    <3> QED
      BY <3>7 DEF n, Rounded
  <2>7. CASE Low(n, len) = Width
    <3>1. l = Base
      BY <2>7 DEF Base
    <3> HIDE DEF v, w, r, d, l, n, D, S, Rounded, low
    <3>2. Round(r, l) = 0
      <4>1. r \div l = 0
        BY <1>0, <2>4, <3>1
      <4> QED
        BY <2>4, <4>1 DEF Round
    <3>3. Digits(Val(ip, n), v, Base, r) /\ Product(D(n), d, Base)
      BY <1>0, <2>3, <2>4, <2>5, <3>1 DEF Digits, Product
    <3>4. Round(Val(ip, n), D(n)) = Round(v, d) * Base
      BY <3>3, RoundAway
    <3>5. Val(x, n) = w * Base
      <4>1. w * Base \in Int
        <5>1. v \div d \in Int
          BY <2>4
        <5>2. w \in Int
          BY <2>2, <2>4, <5>1 DEF Round
        <5> QED
          BY <1>0, <5>2
      <4> QED
        BY <2>3, <3>2, <4>1
    <3> QED
      BY <2>2, <3>4, <3>5 DEF n, Rounded
  <2> QED
    BY <2>1, <2>6, <2>7, FreeSteps
<1>7. Nat \subseteq S
  <2> HIDE DEF S
  <2> QED
    BY <1>5, <1>6, NatSetInduction
<1>8. Rounded(Bytes)
  <2> HIDE DEF Rounded
  <2> QED
    BY <1>0, <1>7
<1>9. /\ ipToUint32(ip) = Val(ip, Bytes) /\ ipToUint32(x) = Val(x, Bytes)
      /\ D(Bytes) = pow2[Bits - len]
  BY <1>4, ValSteps, FreeSteps
<1> QED
  BY <1>4, <1>8, <1>9 DEF x

\* A mask leaves the same of two addresses iff their values agree in all but
\* the free bits: what Contains compares is what the reference compares.
LEMMA ContainsVal ==
    ASSUME NEW ip \in Address, NEW len \in 0..Bits, NEW a \in Address
    PROVE  LET size == pow2[Bits - len]
           IN  Contains(ip, len, a) <=> ipToUint32(a) \div size = ipToUint32(ip) \div size
<1> DEFINE size == pow2[Bits - len]
           p == ipToUint32(a) \div size
           q == ipToUint32(ip) \div size
<1>1. size \in Nat \ {0}
  BY BitsType, Pow2Positive
<1>2. ipToUint32(a) \in Nat /\ ipToUint32(ip) \in Nat
  BY BaseType, ValSteps
<1>3. /\ Mask(a, len) \in Address /\ ipToUint32(Mask(a, len)) = p * size
      /\ Mask(ip, len) \in Address /\ ipToUint32(Mask(ip, len)) = q * size
  BY MaskVal DEF Round
<1>4. p \in Int /\ q \in Int
  BY <1>1, <1>2
<1>5. p * size = q * size <=> p = q
  <2> HIDE DEF p, q, size
  <2> QED
    BY <1>1, <1>4
<1>6. Mask(a, len) = Mask(ip, len) <=> p * size = q * size
  <2> HIDE DEF p, q, size
  <2> QED
    BY <1>3, ValInjective
<1> QED
  BY <1>5, <1>6 DEF Contains

\* The numbers with one quotient are an interval of d numbers.
LEMMA QuotientInterval ==
    ASSUME NEW x \in Nat, NEW y \in Nat, NEW d \in Nat \ {0}
    PROVE  x \div d = y \div d <=> x \in Round(y, d)..(Round(y, d) + d - 1)
<1> DEFINE q == y \div d
           f == q * d
<1>1. q \in Int /\ f \in Int
  OBVIOUS
<1>2. ASSUME x \div d = q PROVE x \in f..(f + d - 1)
  <2> DEFINE r == x % d
  <2>1. r \in 0..(d - 1) /\ x = (x \div d) * d + r
    OBVIOUS
  <2>2. x = f + r
    BY <1>2, <2>1
  <2> HIDE DEF f, q, r
  <2> QED
    BY <1>1, <2>1, <2>2
<1>3. ASSUME x \in f..(f + d - 1) PROVE x \div d = q
  <2> DEFINE r == x - f
  <2>1. r \in 0..(d - 1) /\ x = f + r
    <3> HIDE DEF f, q
    <3> QED
      BY <1>1, <1>3
  <2>2. x = q * d + r
    BY <2>1
  <2> HIDE DEF q, f, r
  <2> QED
    BY <1>1, <2>1, <2>2, DivUnique
<1> QED
  BY <1>2, <1>3 DEF Round

\* The interval of a block ends inside the address space.
LEMMA BlockFits ==
    ASSUME NEW ip \in Address, NEW len \in 0..Bits
    PROVE  LET size == pow2[Bits - len]
               f == Round(ipToUint32(ip), size)
           IN  f \in Nat /\ size \in Nat \ {0} /\ f + size <= pow2[Bits]
<1> DEFINE size == pow2[Bits - len]
           h == pow2[len]
           y == ipToUint32(ip)
           q == y \div size
<1>1. size \in Nat \ {0} /\ h \in Nat \ {0}
  BY BitsType, Pow2Positive
<1>2. pow2[Bits] = h * size
  <2>1. len \in Nat /\ Bits - len \in Nat /\ len + (Bits - len) = Bits /\ Bits <= Bits
    BY BitsType
  <2> QED
    BY <2>1, Pow2Sum
<1>3. y \in Nat /\ y < pow2[Bits]
  BY BaseType, ValSteps, ValBound, SizeSteps
<1>4. q \in Nat /\ q * size <= y
  BY <1>1, <1>3
<1>5. q < h
  <2> HIDE DEF size, h, y, q
  <2>1. q * size < h * size
    BY <1>1, <1>2, <1>3, <1>4
  <2>2. ASSUME h <= q PROVE h * size <= q * size
    BY <1>1, <1>4, <2>2
  <2>3. h * size \in Int /\ q * size \in Int
    BY <1>1, <1>4
  <2> QED
    BY <1>1, <1>4, <2>1, <2>2, <2>3
<1>6. q * size \in Nat /\ q * size + size <= h * size
  <2> HIDE DEF size, h, y, q
  <2>1. (q + 1) * size <= h * size
    BY <1>1, <1>4, <1>5
  <2>2. (q + 1) * size = q * size + size
    BY <1>1, <1>4
  <2> QED
    BY <1>1, <1>4, <2>1, <2>2
<1> QED
  BY <1>1, <1>2, <1>6 DEF Round

-----------------------------------------------------------------------------
(* Addresses and their values. *)

\* The values of the address space.
Values == 0..(pow2[Bits] - 1)

\* There are some, and an address has one of them.
LEMMA ValType ==
    /\ pow2[Bits] \in Nat \ {0}
    /\ \A a \in Address : ipToUint32(a) \in Values
<1>1. pow2[Bits] \in Nat \ {0}
  BY BitsType, Pow2Positive
<1>2. ASSUME NEW a \in Address PROVE ipToUint32(a) \in Nat /\ ipToUint32(a) < pow2[Bits]
  BY BaseType, ValSteps, ValBound, SizeSteps
<1> QED
  BY <1>1, <1>2 DEF Values

\* Every value has its address: nextIP reaches it from the zero address.
LEMMA AddressOf ==
    \A v \in Values : \E a \in Address : ipToUint32(a) = v
<1> DEFINE S == {k \in Nat : k \in Values => \E a \in Address : ipToUint32(a) = k}
           zero == [i \in 1..Bytes |-> 0]
<1>1. 0 \in S
  <2>1. zero \in Address
    BY BaseType DEF Address
  <2>2. \E a \in Address : ipToUint32(a) = 0
    <3> HIDE DEF zero
    <3>1. 0 \in 0..Bits /\ Bits - 0 = Bits
      BY BitsType
    <3> DEFINE a == Mask(zero, 0)
    <3>2. a \in Address /\ ipToUint32(a) = Round(ipToUint32(zero), pow2[Bits])
      BY <2>1, <3>1, MaskVal
    <3> DEFINE y == ipToUint32(zero)
               t == pow2[Bits]
    <3>3. Round(y, t) = 0
      <4>1. y \in 0..(t - 1) /\ t \in Nat \ {0}
        BY <2>1, ValType DEF Values
      <4> HIDE DEF y, t
      <4>2. y \div t = 0
        BY <4>1
      <4> QED
        BY <4>1, <4>2 DEF Round
    <3> QED
      BY <3>2, <3>3
  <2> QED
    BY <2>2
<1>2. ASSUME NEW k \in Nat, k \in S PROVE k + 1 \in S
  <2> SUFFICES ASSUME k + 1 \in Values PROVE \E a \in Address : ipToUint32(a) = k + 1
    OBVIOUS
  <2>1. k \in Values /\ k # pow2[Bits] - 1
    BY ValType DEF Values
  <2>2. PICK a \in Address : ipToUint32(a) = k
    BY <1>2, <2>1
  <2>3. nextIP(a) \in Address /\ ipToUint32(nextIP(a)) = k + 1
    BY <2>1, <2>2, NextVal
  <2> QED
    BY <2>3
<1>3. Nat \subseteq S
  <2> HIDE DEF S
  <2> QED
    BY <1>1, <1>2, NatSetInduction
<1> QED
  BY <1>3, ValType DEF Values

\* As many addresses have a value of an interval as there are values in it.
LEMMA AddressesOf ==
    ASSUME NEW lo \in Nat, NEW hi \in Nat, lo <= hi, hi < pow2[Bits]
    PROVE  LET B == {a \in Address : ipToUint32(a) \in lo..hi}
           IN  IsFiniteSet(B) /\ Cardinality(B) = hi - lo + 1
<1> DEFINE B == {a \in Address : ipToUint32(a) \in lo..hi}
           T == lo..hi
           g == [a \in B |-> ipToUint32(a)]
<1>1. IsFiniteSet(T) /\ Cardinality(T) = hi - lo + 1
  BY FS_Interval
<1>2. g \in [B -> T]
  OBVIOUS
<1>3. \A v \in T : \E a \in B : g[a] = v
  <2>1. T \subseteq Values
    BY ValType DEF Values
  <2> SUFFICES ASSUME NEW v \in T PROVE \E a \in B : g[a] = v
    OBVIOUS
  <2>2. PICK a \in Address : ipToUint32(a) = v
    BY <2>1, AddressOf
  <2> QED
    BY <2>2
<1>4. \A a, c \in B : g[a] = g[c] => a = c
  BY ValInjective
<1>5. g \in Injection(B, T) /\ g \in Surjection(B, T)
  <2> HIDE DEF B, T, g
  <2> QED
    BY <1>2, <1>3, <1>4, Fun_IsInj, Fun_IsSurj
<1>6. IsFiniteSet(B) /\ Cardinality(B) = Cardinality(T)
  <2> HIDE DEF B, T, g
  <2> QED
    BY <1>1, <1>5, FS_Injection
<1> QED
  BY <1>1, <1>6

-----------------------------------------------------------------------------
(* The expansion. *)

\* The values of the first and of the last address of a block or of a range.
First == IF spec.kind = "cidr" THEN Round(ipToUint32(spec.ip), pow2[Bits - spec.len])
                               ELSE ipToUint32(spec.start)
Last  == IF spec.kind = "cidr" THEN First + pow2[Bits - spec.len] - 1
                               ELSE ipToUint32(spec.end)

\* The specification stands for the addresses of an interval.
Interval == spec.kind \in {"cidr", "range"} /\ First <= Last

\* What the loops have walked: the list counts up from the first address, does
\* not pass the last one, and cur follows the list, around to zero at the end.
Walked ==
    /\ \A i \in 1..Len(ips) : ipToUint32(ips[i]) = First + i - 1
    /\ First + Len(ips) <= Last + 1
    /\ ipToUint32(cur) = IF First + Len(ips) = pow2[Bits] THEN 0 ELSE First + Len(ips)

TypeInv ==
    /\ spec \in Specs
    /\ cur \in Address
    /\ ips \in Seq(Address)
    /\ pc \in {"start", "cidr", "range", "ok", "error", "tooMany"}

LoopInv ==
    /\ pc = "start" => ips = <<>>
    /\ pc = "cidr" => spec.kind = "cidr" /\ Walked
    /\ pc = "range" => spec.kind = "range" /\ First + Len(ips) <= Last /\ Walked

\* The inductive invariant: the list alone does not say where the loops are.
IndInv == TypeInv /\ LoopInv /\ ExpansionIsExact

\* A block and a range are intervals of the address space, and Block has an
\* address for every value of theirs.
LEMMA BlockIsInterval ==
    ASSUME spec \in Specs, spec.kind \in {"cidr", "range"}
    PROVE  /\ First \in Nat /\ Last \in Nat /\ Last < pow2[Bits]
           /\ spec.kind = "cidr" => First <= Last
           /\ \A a \in Address : a \in Block <=> ipToUint32(a) \in First..Last
           /\ Block \subseteq Address
           /\ First <= Last => Cardinality(Block) = Last - First + 1
<1>1. CASE spec.kind = "cidr"
  <2> DEFINE size == pow2[Bits - spec.len]
  <2>1. spec.ip \in Address /\ spec.len \in 0..Bits
    BY <1>1 DEF Specs
  <2>2. First \in Nat /\ size \in Nat \ {0} /\ First + size <= pow2[Bits] /\ Last = First + size - 1
    BY <1>1, <2>1, BlockFits DEF First, Last
  <2>3. ASSUME NEW a \in Address
        PROVE  ipToUint32(a) \div size = ipToUint32(spec.ip) \div size <=> ipToUint32(a) \in First..Last
    <3>1. ipToUint32(a) \in Nat /\ ipToUint32(spec.ip) \in Nat /\ First = Round(ipToUint32(spec.ip), size)
      BY <1>1, <2>1, ValType DEF Values, First
    <3> DEFINE x == ipToUint32(a)
               y == ipToUint32(spec.ip)
    <3>2. x \in Nat /\ y \in Nat /\ First = Round(y, size) /\ Last = First + size - 1
      BY <2>2, <3>1
    <3>3. size \in Nat \ {0}
      BY <2>2
    <3> HIDE DEF size, x, y
    <3>4. x \div size = y \div size <=> x \in Round(y, size)..(Round(y, size) + size - 1)
      BY <3>2, <3>3, QuotientInterval
    <3>5. x \div size = y \div size <=> x \in First..Last
      BY <3>2, <3>4
    <3> QED
      BY <3>5 DEF x, y
  <2>4. Block = {a \in Address : ipToUint32(a) \div size = ipToUint32(spec.ip) \div size}
    BY <1>1 DEF Block
  <2>5. Block = {a \in Address : ipToUint32(a) \in First..Last}
    BY <2>3, <2>4
  <2>6. Last \in Nat /\ First <= Last /\ Last < pow2[Bits]
    <3> HIDE DEF size
    <3> QED
      BY <2>2, ValType
  <2>7. Cardinality(Block) = Last - First + 1
    BY <2>2, <2>5, <2>6, AddressesOf
  <2> QED
    BY <2>2, <2>5, <2>6, <2>7
<1>2. CASE spec.kind = "range"
  <2>1. spec.start \in Address /\ spec.end \in Address
    BY <1>2 DEF Specs
  <2>2. First = ipToUint32(spec.start) /\ Last = ipToUint32(spec.end)
    BY <1>2 DEF First, Last
  <2>3. First \in Nat /\ Last \in Nat /\ Last < pow2[Bits]
    BY <2>1, <2>2, ValType DEF Values
  <2>4. Block = {a \in Address : ipToUint32(a) \in First..Last}
    BY <1>2, <2>2 DEF Block
  <2>5. First <= Last => Cardinality(Block) = Last - First + 1
    BY <2>3, <2>4, AddressesOf
  <2> QED
    BY <1>2, <2>3, <2>4, <2>5
<1> QED
  BY <1>1, <1>2

\* A list counts up from the first address.
Counts(list) == \A i \in 1..Len(list) : ipToUint32(list[i]) = First + i - 1

\* Such a list is what ExpansionIsExact asks of one.
LEMMA CountsUp ==
    ASSUME spec \in Specs, Interval, NEW list \in Seq(Address), Counts(list),
           First + Len(list) <= Last + 1
    PROVE  /\ \A i \in DOMAIN list : list[i] \in Block
           /\ \A i \in 1..(Len(list) - 1) : ipToUint32(list[i + 1]) = ipToUint32(list[i]) + 1
           /\ Cardinality(Block) = Last - First + 1
<1>0. /\ First \in Nat /\ Last \in Nat /\ First <= Last
      /\ \A a \in Address : a \in Block <=> ipToUint32(a) \in First..Last
      /\ Cardinality(Block) = Last - First + 1
  BY BlockIsInterval DEF Interval
<1>1. Len(list) \in Nat /\ DOMAIN list = 1..Len(list) /\ \A i \in 1..Len(list) : list[i] \in Address
  OBVIOUS
<1>2. ASSUME NEW i \in 1..Len(list) PROVE list[i] \in Block
  <2>1. ipToUint32(list[i]) = First + i - 1
    BY DEF Counts
  <2>2. First + i - 1 \in First..Last
    BY <1>0, <1>1
  <2> QED
    BY <1>0, <1>1, <2>1, <2>2
<1>3. ASSUME NEW i \in 1..(Len(list) - 1)
      PROVE  ipToUint32(list[i + 1]) = ipToUint32(list[i]) + 1
  <2>1. i \in 1..Len(list) /\ i + 1 \in 1..Len(list)
    BY <1>1
  <2>2. ipToUint32(list[i]) = First + i - 1 /\ ipToUint32(list[i + 1]) = First + (i + 1) - 1
    BY <2>1 DEF Counts
  <2> QED
    BY <1>0, <2>1, <2>2
<1> QED
  BY <1>0, <1>1, <1>2, <1>3

\* Inside the interval, the list and the current address go one on together.
LEMMA OneMore ==
    ASSUME TypeInv, Interval, Walked, First + Len(ips) <= Last
    PROVE  LET list == Append(ips, cur)
           IN  /\ ipToUint32(cur) = First + Len(ips)
               /\ list \in Seq(Address) /\ Len(list) = Len(ips) + 1 /\ Counts(list)
               /\ nextIP(cur) \in Address
               /\ ipToUint32(nextIP(cur)) = IF First + Len(list) = pow2[Bits] THEN 0
                                            ELSE First + Len(list)
<1> DEFINE list == Append(ips, cur)
           n == Len(ips)
           t == pow2[Bits]
           v == ipToUint32(cur)
<1>0. First \in Nat /\ Last \in Nat /\ Last < t /\ n \in Nat /\ t \in Nat
  BY BlockIsInterval, ValType DEF TypeInv, Interval
<1>1. v = First + n
  <2>1. v = IF First + n = t THEN 0 ELSE First + n
    BY DEF Walked
  <2> HIDE DEF v, t, n
  <2>2. First + n <= Last
    BY DEF n
  <2> QED
    BY <1>0, <2>1, <2>2
<1>2. /\ list \in Seq(Address) /\ Len(list) = n + 1
      /\ \A i \in 1..n : list[i] = ips[i]
      /\ list[n + 1] = cur
  BY DEF TypeInv
<1>3. Counts(list)
  <2> SUFFICES ASSUME NEW i \in 1..(n + 1) PROVE ipToUint32(list[i]) = First + i - 1
    BY <1>2 DEF Counts
  <2>1. CASE i \in 1..n
    BY <1>2, <2>1 DEF Walked
  <2>2. CASE i = n + 1
    <3>1. list[i] = cur /\ First + i - 1 = First + n
      BY <1>0, <1>2, <2>2
    <3> QED
      BY <1>1, <3>1
  <2> QED
    BY <1>0, <2>1, <2>2
<1>4. /\ nextIP(cur) \in Address
      /\ ipToUint32(nextIP(cur)) = IF v = t - 1 THEN 0 ELSE v + 1
  BY NextVal DEF TypeInv
<1>5. ipToUint32(nextIP(cur)) = IF First + Len(list) = t THEN 0 ELSE First + Len(list)
  <2> DEFINE l == Len(list)
             w == ipToUint32(nextIP(cur))
  <2>1. l = n + 1 /\ w = IF v = t - 1 THEN 0 ELSE v + 1
    BY <1>2, <1>4
  <2> HIDE DEF v, t, n, l, w
  <2>2. v = t - 1 <=> First + l = t
    BY <1>0, <1>1, <2>1
  <2>3. v + 1 = First + l
    BY <1>0, <1>1, <2>1
  <2> QED
    BY <2>1, <2>2, <2>3 DEF l, w
<1> QED
  BY <1>1, <1>2, <1>3, <1>4, <1>5

\* In the loop of a block, the current address is still in the block iff the
\* list has not reached its last address: the cap stops a list that would walk
\* around to the first address again.
LEMMA StillInside ==
    ASSUME TypeInv, spec.kind = "cidr", Walked, Len(ips) <= MaxTargets
    PROVE  Contains(spec.ip, spec.len, cur) <=> First + Len(ips) <= Last
<1> DEFINE v == ipToUint32(cur)
           n == Len(ips)
           t == pow2[Bits]
           size == pow2[Bits - spec.len]
<1>0. /\ First \in Nat /\ Last \in Nat /\ Last < t /\ n \in Nat /\ t \in Nat
      /\ spec.ip \in Address /\ spec.len \in 0..Bits /\ cur \in Address
  BY BlockIsInterval, ValType DEF TypeInv, Specs
<1>1. Contains(spec.ip, spec.len, cur) <=> cur \in Block
  <2>1. Contains(spec.ip, spec.len, cur) <=> v \div size = ipToUint32(spec.ip) \div size
    BY <1>0, ContainsVal
  <2>2. Block = {a \in Address : ipToUint32(a) \div size = ipToUint32(spec.ip) \div size}
    BY DEF Block
  <2> QED
    BY <1>0, <2>1, <2>2
<1>2. cur \in Block <=> v \in First..Last
  BY <1>0, BlockIsInterval DEF TypeInv
<1>3. v = IF First + n = t THEN 0 ELSE First + n
  BY DEF Walked
<1>4. First + n <= Last + 1 /\ n <= MaxTargets /\ MaxTargets \in Nat /\ MaxTargets < t
  BY ConstAssumption, <1>0 DEF Walked
<1>5. v \in First..Last <=> First + n <= Last
  <2> HIDE DEF v, n, t
  <2>1. CASE First + n = t
    <3>1. v = 0 /\ First # 0
      BY <1>0, <1>3, <1>4, <2>1
    <3> QED
      BY <1>0, <2>1, <3>1
  <2>2. CASE First + n # t
    BY <1>0, <1>3, <2>2
  <2> QED
    BY <2>1, <2>2
<1> QED
  BY <1>1, <1>2, <1>5

\* Nothing changes the specification, or what it stands for.
LEMMA SameSpec ==
    ASSUME spec' = spec
    PROVE  First' = First /\ Last' = Last /\ Block' = Block /\ (Interval <=> Interval')
           /\ \A list : Counts(list)' = Counts(list)
BY DEF First, Last, Block, Interval, Counts

\* A run may end with the list of a whole interval,
LEMMA FinishOk ==
    ASSUME TypeInv, Interval, NEW list \in Seq(Address), Counts(list),
           First + Len(list) = Last + 1, Len(list) <= MaxTargets, Finish("ok", list)
    PROVE  IndInv'
<1>1. pc' = "ok" /\ ips' = list /\ spec' = spec /\ cur' = cur
  BY DEF Finish
<1>2. TypeInv' /\ LoopInv'
  BY <1>1 DEF TypeInv, LoopInv
<1>3. /\ First \in Nat /\ Last \in Nat /\ spec \in Specs
  BY BlockIsInterval DEF TypeInv, Interval
<1>4. First + Len(list) <= Last + 1 /\ Len(list) = Last - First + 1
  <2>1. Len(list) \in Nat
    OBVIOUS
  <2> QED
    BY <1>3, <2>1
<1>5. /\ \A i \in DOMAIN list : list[i] \in Block
      /\ \A i \in 1..(Len(list) - 1) : ipToUint32(list[i + 1]) = ipToUint32(list[i]) + 1
      /\ Len(list) = Cardinality(Block)
  BY <1>3, <1>4, CountsUp
<1>6. ExpansionIsExact'
  <2>1. Block' = Block
    BY <1>1, SameSpec
  <2> QED
    BY <1>1, <1>5, <2>1 DEF ExpansionIsExact
<1> QED
  BY <1>2, <1>6 DEF IndInv

\* and without a list, when the specification stands for nothing or for more
\* addresses than the cap allows.
LEMMA FinishEmpty ==
    ASSUME TypeInv, NEW outcome \in {"error", "tooMany"}, Finish(outcome, <<>>),
           outcome = "error" => Block = {},
           outcome = "tooMany" => Cardinality(Block) > MaxTargets
    PROVE  IndInv'
<1>1. pc' = outcome /\ ips' = <<>> /\ spec' = spec /\ cur' = cur
  BY DEF Finish
<1>2. TypeInv' /\ LoopInv'
  BY <1>1 DEF TypeInv, LoopInv
<1>3. ExpansionIsExact'
  <2>1. Block' = Block
    BY <1>1, SameSpec
  <2>2. MaxTargets \in Nat
    BY ConstAssumption, ValType
  <2> QED
    BY <1>1, <2>1, <2>2 DEF ExpansionIsExact
<1> QED
  BY <1>2, <1>3 DEF IndInv

\* A full list that is inside the interval: there are more addresses than that.
LEMMA FullInside ==
    ASSUME TypeInv, Interval, First + Len(ips) <= Last, TooMany
    PROVE  IndInv'
<1>1. Len(ips) >= MaxTargets /\ Finish("tooMany", <<>>)
  BY DEF TooMany, Full
<1>2. /\ First \in Nat /\ Last \in Nat /\ Len(ips) \in Nat /\ MaxTargets \in Nat
      /\ Cardinality(Block) = Last - First + 1
  BY BlockIsInterval, ConstAssumption, ValType DEF TypeInv, Interval
<1>3. Cardinality(Block) > MaxTargets
  BY <1>1, <1>2
<1> QED
  BY <1>1, <1>3, FinishEmpty

\* An address more, and the loop goes on.
LEMMA GoesOn ==
    ASSUME TypeInv, LoopInv, Interval, Walked, First + Len(ips) <= Last,
           pc \in {"cidr", "range"}, ~Full(ips),
           pc = "range" => First + Len(ips) < Last,
           ips' = Append(ips, cur), cur' = nextIP(cur), spec' = spec, pc' = pc
    PROVE  IndInv'
<1> DEFINE list == Append(ips, cur)
<1>1. /\ list \in Seq(Address) /\ Len(list) = Len(ips) + 1 /\ Counts(list)
      /\ nextIP(cur) \in Address
      /\ ipToUint32(nextIP(cur)) = IF First + Len(list) = pow2[Bits] THEN 0 ELSE First + Len(list)
  BY OneMore
<1>2. /\ First \in Nat /\ Last \in Nat /\ Len(ips) \in Nat /\ MaxTargets \in Nat
      /\ spec \in Specs
  BY BlockIsInterval, ConstAssumption, ValType DEF TypeInv, Interval
<1>3. ips' = list /\ cur' = nextIP(cur)
  OBVIOUS
<1>4. /\ First + Len(list) <= Last + 1 /\ Len(list) <= MaxTargets
      /\ pc = "range" => First + Len(list) <= Last
  BY <1>1, <1>2 DEF Full
<1> HIDE DEF list
<1>5. First' = First /\ Last' = Last /\ Block' = Block
  BY SameSpec
<1>6. TypeInv'
  BY <1>1, <1>3 DEF TypeInv
<1>7. Walked'
  BY <1>1, <1>3, <1>4, <1>5 DEF Walked, Counts
<1>8. LoopInv'
  BY <1>3, <1>4, <1>5, <1>7 DEF LoopInv
<1>9. ExpansionIsExact'
  <2>1. \A i \in 1..(Len(list) - 1) : ipToUint32(list[i + 1]) = ipToUint32(list[i]) + 1
    BY <1>1, <1>2, <1>4, CountsUp
  <2> QED
    BY <1>3, <1>4, <2>1 DEF ExpansionIsExact
<1> QED
  BY <1>6, <1>8, <1>9 DEF IndInv

\* The first step of ExpandTargets.
LEMMA StartStep ==
    ASSUME IndInv, ExpandTargets
    PROVE  IndInv'
<1>1. spec \in Specs /\ cur \in Address /\ pc = "start" /\ ips = <<>> /\ TypeInv
  BY DEF IndInv, TypeInv, LoopInv, ExpandTargets
<1>0. MaxTargets \in Nat /\ 1 <= MaxTargets
  BY ConstAssumption, ValType
<1>2. CASE spec.kind = "ip" /\ Finish("ok", <<spec.ip>>)
  <2>1. pc' = "ok" /\ ips' = <<spec.ip>> /\ spec' = spec /\ cur' = cur /\ spec.ip \in Address
    BY <1>1, <1>2 DEF Finish, Specs
  <2>2. Block' = {spec.ip}
    BY <1>2, <2>1 DEF Block
  <2>3. Cardinality(Block') = 1 /\ Len(ips') = 1 /\ DOMAIN ips' = {1} /\ ips'[1] = spec.ip
    BY <2>1, <2>2, FS_Singleton
  <2>4. ExpansionIsExact'
    BY <1>0, <2>1, <2>2, <2>3 DEF ExpansionIsExact
  <2>5. TypeInv' /\ LoopInv'
    BY <1>1, <2>1 DEF TypeInv, LoopInv
  <2> QED
    BY <2>4, <2>5 DEF IndInv
<1>3. CASE spec.kind = "unrecognized" /\ Finish("error", <<>>)
  <2>1. Block = {}
    BY <1>3 DEF Block
  <2> QED
    BY <1>1, <1>3, <2>1, FinishEmpty
<1>4. CASE /\ spec.kind = "cidr"
           /\ pc' = "cidr" /\ cur' = Mask(spec.ip, spec.len)
           /\ UNCHANGED <<spec, ips>>
  <2>1. /\ spec.ip \in Address /\ spec.len \in 0..Bits
        /\ First \in Nat /\ Last \in Nat /\ First <= Last /\ Last < pow2[Bits]
        /\ First = Round(ipToUint32(spec.ip), pow2[Bits - spec.len])
    BY <1>1, <1>4, BlockIsInterval DEF Specs, First
  <2>2. cur' \in Address /\ ipToUint32(cur') = First
    BY <1>4, <2>1, MaskVal
  <2>3. First' = First /\ Last' = Last
    BY <1>4, SameSpec
  <2>4. ips' = <<>> /\ Len(ips') = 0
    BY <1>1, <1>4
  <2>5. First + 0 <= Last + 1 /\ First + 0 # pow2[Bits] /\ First + 0 = First
    BY <2>1, ValType
  <2>6. Walked'
    BY <2>2, <2>3, <2>4, <2>5 DEF Walked
  <2>7. TypeInv' /\ LoopInv'
    BY <1>1, <1>4, <2>2, <2>4, <2>6 DEF TypeInv, LoopInv
  <2>8. ExpansionIsExact'
    BY <1>0, <1>4, <2>4 DEF ExpansionIsExact
  <2> QED
    BY <2>7, <2>8 DEF IndInv
<1>5. CASE /\ spec.kind = "range"
           /\ ipToUint32(spec.start) > ipToUint32(spec.end)
           /\ Finish("error", <<>>)
  <2>1. spec.start \in Address /\ spec.end \in Address
    BY <1>1, <1>5 DEF Specs
  <2>2. ipToUint32(spec.start) \in Nat /\ ipToUint32(spec.end) \in Nat
    BY <2>1, ValType DEF Values
  <2>3. ipToUint32(spec.start)..ipToUint32(spec.end) = {}
    BY <1>5, <2>2
  <2>4. Block = {}
    BY <1>5, <2>3 DEF Block
  <2> QED
    BY <1>1, <1>5, <2>4, FinishEmpty
<1>6. CASE /\ spec.kind = "range"
           /\ ipToUint32(spec.start) <= ipToUint32(spec.end)
           /\ pc' = "range" /\ cur' = spec.start
           /\ UNCHANGED <<spec, ips>>
  <2>1. /\ spec.start \in Address
        /\ First \in Nat /\ Last \in Nat /\ First <= Last /\ Last < pow2[Bits]
        /\ First = ipToUint32(spec.start)
    BY <1>1, <1>6, BlockIsInterval DEF Specs, First, Last
  <2>2. First' = First /\ Last' = Last
    BY <1>6, SameSpec
  <2>3. ips' = <<>> /\ Len(ips') = 0
    BY <1>1, <1>6
  <2>4. First + 0 <= Last /\ First + 0 <= Last + 1 /\ First + 0 # pow2[Bits] /\ First + 0 = First
    BY <2>1, ValType
  <2>5. Walked' /\ (First + Len(ips) <= Last)'
    BY <1>6, <2>1, <2>2, <2>3, <2>4 DEF Walked
  <2>6. TypeInv' /\ LoopInv'
    BY <1>1, <1>6, <2>1, <2>3, <2>5 DEF TypeInv, LoopInv
  <2>7. ExpansionIsExact'
    BY <1>0, <1>6, <2>3 DEF ExpansionIsExact
  <2> QED
    BY <2>6, <2>7 DEF IndInv
<1> QED
  BY <1>2, <1>3, <1>4, <1>5, <1>6 DEF ExpandTargets

\* An iteration of the loop of expandCIDR.
LEMMA CidrStep ==
    ASSUME IndInv, expandCIDR
    PROVE  IndInv'
<1>1. TypeInv /\ LoopInv /\ pc = "cidr" /\ spec.kind = "cidr" /\ Walked /\ Len(ips) <= MaxTargets
  BY DEF IndInv, LoopInv, ExpansionIsExact, expandCIDR
<1>2. Interval /\ First \in Nat /\ Last \in Nat /\ Len(ips) \in Nat /\ ips \in Seq(Address)
  BY <1>1, BlockIsInterval DEF TypeInv, Interval
<1>3. Contains(spec.ip, spec.len, cur) <=> First + Len(ips) <= Last
  BY <1>1, StillInside
<1>4. CASE ~Contains(spec.ip, spec.len, cur) /\ Finish("ok", ips)
  <2>1. First + Len(ips) = Last + 1
    BY <1>1, <1>2, <1>3, <1>4 DEF Walked
  <2>2. Counts(ips)
    BY <1>1 DEF Walked, Counts
  <2> QED
    BY <1>1, <1>2, <1>4, <2>1, <2>2, FinishOk
<1>5. CASE Contains(spec.ip, spec.len, cur) /\ TooMany
  BY <1>1, <1>2, <1>3, <1>5, FullInside
<1>6. CASE /\ Contains(spec.ip, spec.len, cur)
           /\ ~Full(ips)
           /\ ips' = Append(ips, cur)
           /\ cur' = nextIP(cur)
           /\ UNCHANGED <<spec, pc>>
  BY <1>1, <1>2, <1>3, <1>6, GoesOn
<1> QED
  BY <1>4, <1>5, <1>6 DEF expandCIDR

\* An iteration of the loop of expandRange.
LEMMA RangeStep ==
    ASSUME IndInv, expandRange
    PROVE  IndInv'
<1>1. /\ TypeInv /\ LoopInv /\ pc = "range" /\ spec.kind = "range" /\ Walked
      /\ Len(ips) <= MaxTargets /\ First + Len(ips) <= Last
  BY DEF IndInv, LoopInv, ExpansionIsExact, expandRange
<1>2. /\ First \in Nat /\ Last \in Nat /\ Len(ips) \in Nat /\ MaxTargets \in Nat
      /\ spec.end \in Address /\ cur \in Address /\ Last = ipToUint32(spec.end)
  BY <1>1, BlockIsInterval, ConstAssumption, ValType DEF TypeInv, Specs, Last
<1>3. Interval
  BY <1>1, <1>2 DEF Interval
<1>4. /\ ipToUint32(cur) = First + Len(ips)
      /\ Append(ips, cur) \in Seq(Address) /\ Len(Append(ips, cur)) = Len(ips) + 1
      /\ Counts(Append(ips, cur))
  BY <1>1, <1>3, OneMore
<1>5. CASE TooMany
  BY <1>1, <1>3, <1>5, FullInside
<1>6. CASE ~Full(ips) /\ cur = spec.end /\ Finish("ok", Append(ips, cur))
  <2>1. First + Len(ips) = Last
    BY <1>2, <1>4, <1>6
  <2>2. First + (Len(ips) + 1) = Last + 1 /\ Len(ips) + 1 <= MaxTargets
    BY <1>2, <1>6, <2>1 DEF Full
  <2>3. First + Len(Append(ips, cur)) = Last + 1 /\ Len(Append(ips, cur)) <= MaxTargets
    BY <1>4, <2>2
  <2> QED
    BY <1>1, <1>3, <1>4, <1>6, <2>3, FinishOk
<1>7. CASE /\ ~Full(ips)
           /\ cur # spec.end
           /\ ips' = Append(ips, cur)
           /\ cur' = nextIP(cur)
           /\ UNCHANGED <<spec, pc>>
  <2>1. First + Len(ips) # Last
    BY <1>2, <1>4, <1>7, ValInjective
  <2>2. First + Len(ips) < Last
    BY <1>1, <1>2, <2>1
  <2> QED
    BY <1>1, <1>3, <1>7, <2>2, GoesOn
<1> QED
  BY <1>5, <1>6, <1>7 DEF expandRange

\* For bytes and addresses of every width, and every cap: ExpandTargets returns
\* exactly the addresses the specification stands for, in order, or refuses a
\* specification that stands for none or for more than the cap.
THEOREM ExpansionIsExactHolds == Spec => []ExpansionIsExact
<1>1. Init => IndInv
  <2> SUFFICES ASSUME Init PROVE IndInv
    OBVIOUS
  <2>1. MaxTargets \in Nat
    BY ConstAssumption, ValType
  <2>2. [i \in 1..Bytes |-> 0] \in Address
    BY BaseType DEF Address
  <2>3. TypeInv /\ LoopInv
    BY <2>2 DEF Init, TypeInv, LoopInv
  <2>4. ExpansionIsExact
    BY <2>1 DEF Init, ExpansionIsExact
  <2> QED
    BY <2>3, <2>4 DEF IndInv
<1>2. IndInv /\ [Next]_vars => IndInv'
  <2> SUFFICES ASSUME IndInv, [Next]_vars PROVE IndInv'
    OBVIOUS
  <2>1. CASE Next
    BY <2>1, StartStep, CidrStep, RangeStep DEF Next
  <2>2. CASE UNCHANGED vars
    <3>1. spec' = spec /\ pc' = pc /\ cur' = cur /\ ips' = ips
      BY <2>2 DEF vars
    <3>2. First' = First /\ Last' = Last /\ Block' = Block
      BY <3>1, SameSpec
    <3>3. Walked' <=> Walked
      BY <3>1, <3>2 DEF Walked
    <3> QED
      BY <3>1, <3>2, <3>3 DEF IndInv, TypeInv, LoopInv, ExpansionIsExact
  <2> QED
    BY <2>1, <2>2
<1>3. IndInv => ExpansionIsExact
  BY DEF IndInv
<1> QED
  BY <1>1, <1>2, <1>3, PTL DEF Spec
=============================================================================
