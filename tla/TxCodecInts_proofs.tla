-------------------------- MODULE TxCodecInts_proofs --------------------------
(***************************************************************************)
(* Lemmas on the packed integers of TxCodec: struct.pack's digits, read    *)
(* back by Horner's rule, give the integer again.  The library's induction *)
(* theorems take an operator as a parameter, which the provers cannot      *)
(* instantiate; the recursive functions Shifts and HornerLE are reasoned   *)
(* about by a least counterexample instead, from the well-ordering of Nat. *)
(***************************************************************************)
EXTENDS TxCodec, WellFoundedInduction, TLAPS

\* Every non-empty set of naturals has a least element (the well-ordering
\* of Nat, from the library's well-foundedness of <).
LEMMA NatMin ==
    ASSUME NEW T, T \subseteq Nat, T # {}
    PROVE  \E x \in T : \A y \in T : ~(y < x)
<1>1. \E x \in T : \A y \in T : ~(<<y, x>> \in OpToRel(<, Nat))
  BY NatLessThanWellFounded, WFMin
<1>. QED
  BY <1>1 DEF OpToRel

\* A function on 0..x-1 extended by one value at x.
LEMMA ExtendFcn ==
    ASSUME NEW x \in Nat \ {0}, NEW g \in [0..(x - 1) -> Int], NEW e \in Int
    PROVE  LET h == [i \in 0..x |-> IF i < x THEN g[i] ELSE e]
           IN  /\ h \in [0..x -> Int]
               /\ \A i \in 0..(x - 1) : h[i] = g[i]
               /\ h[x] = e
OBVIOUS

\* A recurrence on 0..m from an integer start, whose step maps integers to
\* integers, has a solution.
LEMMA RecurrenceExists ==
    ASSUME NEW m \in Nat, NEW a \in Int, NEW step \in [1..m -> [Int -> Int]]
    PROVE  \E g \in [0..m -> Int] :
               g[0] = a /\ \A i \in 1..m : g[i] = step[i][g[i - 1]]
<1> DEFINE Ok(k) == \E g \in [0..k -> Int] :
                        g[0] = a /\ \A i \in 1..k : g[i] = step[i][g[i - 1]]
           T == {k \in 0..m : ~Ok(k)}
<1> SUFFICES Ok(m)
  BY DEF Ok
<1>1. SUFFICES ASSUME ~Ok(m) PROVE FALSE
  OBVIOUS
<1>2. T \subseteq Nat /\ T # {}
  <2>1. m \in 0..m /\ 0..m \subseteq Nat
    OBVIOUS
  <2>2. m \in T /\ T \subseteq 0..m
    BY <1>1, <2>1 DEF T
  <2>. QED
    BY <2>1, <2>2
<1>3. PICK x \in Nat : x \in T /\ \A y \in T : ~(y < x)
  BY <1>2, NatMin
<1>4. x \in 0..m /\ ~Ok(x)
  BY <1>3 DEF T
<1>5. Ok(0)
  <2> DEFINE g0 == [i \in 0..0 |-> a]
  <2>1. g0 \in [0..0 -> Int] /\ g0[0] = a
    BY DEF g0
  <2>2. \A i \in 1..0 : g0[i] = step[i][g0[i - 1]]
    OBVIOUS
  <2>. QED
    BY <2>1, <2>2 DEF Ok
<1>6. x \in 1..m
  <2>1. x # 0
    BY <1>4, <1>5
  <2>2. x \in 0..m
    BY <1>4
  <2>. QED
    BY <2>1, <2>2
<1>7. Ok(x - 1)
  <2>1. x - 1 \in 0..m /\ x - 1 < x
    BY <1>6
  <2>. QED
    BY <1>3, <2>1 DEF T
<1>8. PICK g \in [0..(x - 1) -> Int] :
          g[0] = a /\ \A i \in 1..(x - 1) : g[i] = step[i][g[i - 1]]
  BY <1>7 DEF Ok
<1>9. step[x][g[x - 1]] \in Int
  BY <1>6, <1>8
<1> DEFINE h == [i \in 0..x |-> IF i < x THEN g[i] ELSE step[x][g[x - 1]]]
<1>10. /\ h \in [0..x -> Int]
       /\ \A i \in 0..(x - 1) : h[i] = g[i]
       /\ h[x] = step[x][g[x - 1]]
  <2>1. x \in Nat \ {0}
    BY <1>6
  <2>. QED
    BY <2>1, <1>8, <1>9, ExtendFcn
<1>11. h[0] = a /\ \A i \in 1..x : h[i] = step[i][h[i - 1]]
  <2>1. h[0] = a
    BY <1>6, <1>8, <1>10
  <2>2. ASSUME NEW i \in 1..(x - 1) PROVE h[i] = step[i][h[i - 1]]
    <3>1. i \in 0..(x - 1) /\ i - 1 \in 0..(x - 1)
      BY <1>6
    <3>. QED
      BY <3>1, <1>8, <1>10
  <2>3. h[x] = step[x][h[x - 1]]
    <3>1. x - 1 \in 0..(x - 1)
      BY <1>6
    <3>. QED
      BY <3>1, <1>10
  <2>4. \A i \in 1..x : i \in 1..(x - 1) \/ i = x
    BY <1>6
  <2>. QED
    BY <2>1, <2>2, <2>3, <2>4
<1>12. Ok(x)
  BY <1>10, <1>11 DEF Ok
<1>. QED
  BY <1>4, <1>12

\* Two functions that agree at 0, and at i whenever they agree at i - 1,
\* agree on 0..m.
LEMMA EqualUpTo ==
    \A m \in Nat : \A g, h :
        g[0] = h[0] /\ (\A i \in 1..m : g[i - 1] = h[i - 1] => g[i] = h[i])
        => \A i \in 0..m : g[i] = h[i]
<1> SUFFICES ASSUME NEW m \in Nat, NEW g, NEW h, g[0] = h[0],
                    \A i \in 1..m : g[i - 1] = h[i - 1] => g[i] = h[i]
             PROVE  \A i \in 0..m : g[i] = h[i]
  OBVIOUS
<1> DEFINE T == {i \in 0..m : g[i] # h[i]}
<1>1. SUFFICES ASSUME T # {} PROVE FALSE
  BY DEF T
<1>2. T \subseteq Nat
  BY DEF T
<1>3. PICK x \in Nat : x \in T /\ \A y \in T : ~(y < x)
  BY <1>1, <1>2, NatMin
<1>4. x \in 0..m /\ g[x] # h[x]
  BY <1>3 DEF T
<1>5. x \in 1..m
  BY <1>4
<1>6. g[x - 1] = h[x - 1]
  <2>1. x - 1 \in 0..m /\ x - 1 < x
    BY <1>5
  <2>. QED
    BY <1>3, <2>1 DEF T
<1>. QED
  BY <1>4, <1>5, <1>6

\* Shifts(n, w) is the function the recursion defines.
LEMMA ShiftsDef ==
    ASSUME NEW n \in Int, NEW w \in Nat
    PROVE  /\ Shifts(n, w) \in [0..w -> Int]
           /\ Shifts(n, w)[0] = n
           /\ \A i \in 1..w : Shifts(n, w)[i] = Shifts(n, w)[i - 1] \div ByteBase
<1>0. PICK q : q = Shifts(n, w)
  OBVIOUS
<1>1. PICK g \in [0..w -> Int] :
          g[0] = n /\ \A i \in 1..w : g[i] = g[i - 1] \div ByteBase
  <2>0. PICK step : step = [i \in 1..w |-> [x \in Int |-> x \div ByteBase]]
    OBVIOUS
  <2>1. step \in [1..w -> [Int -> Int]]
    BY <2>0, CodecAssumption
  <2>2. PICK f \in [0..w -> Int] :
            f[0] = n /\ \A i \in 1..w : f[i] = step[i][f[i - 1]]
    BY <2>1, RecurrenceExists
  <2>3a. \A i \in 1..w : f[i - 1] \in Int
    OBVIOUS
  <2>3. \A i \in 1..w : f[i] = f[i - 1] \div ByteBase
    BY <2>2, <2>3a, <2>0, CodecAssumption
  <2>. QED
    BY <2>2, <2>3
<1>2. g = [i \in 0..w |-> IF i = 0 THEN n ELSE g[i - 1] \div ByteBase]
  BY <1>1
<1>3. q = [i \in 0..w |-> IF i = 0 THEN n ELSE q[i - 1] \div ByteBase]
  BY <1>0, <1>2 DEF Shifts
<1>4. \A i \in 0..w : q[i] = g[i]
  <2>1. q[0] = g[0]
    BY <1>1, <1>3
  <2>2. \A i \in 1..w : q[i - 1] = g[i - 1] => q[i] = g[i]
    BY <1>1, <1>3
  <2>3. q[0] = g[0] /\ (\A i \in 1..w : q[i - 1] = g[i - 1] => q[i] = g[i])
        => \A i \in 0..w : q[i] = g[i]
    <3>1. \A a, b : a[0] = b[0] /\ (\A i \in 1..w : a[i - 1] = b[i - 1] => a[i] = b[i])
                    => \A i \in 0..w : a[i] = b[i]
      BY EqualUpTo, Zenon
    <3>. QED
      BY <3>1, Zenon
  <2>. QED
    BY <2>1, <2>2, <2>3
<1>5. q = g
  BY <1>1, <1>3, <1>4
<1>. QED
  BY <1>0, <1>1, <1>5

\* HornerLE(s) is the function the recursion defines.
LEMMA HornerDef ==
    ASSUME NEW s \in Seq(Int)
    PROVE  /\ HornerLE(s) \in [0..Len(s) -> Int]
           /\ HornerLE(s)[0] = 0
           /\ \A i \in 1..Len(s) :
                  HornerLE(s)[i] = s[Len(s) - i + 1] + ByteBase * HornerLE(s)[i - 1]
<1>0. PICK L \in Nat : L = Len(s)
  OBVIOUS
<1>1. PICK v : v = HornerLE(s)
  OBVIOUS
<1>2. L \in Nat /\ \A i \in 1..L : s[L - i + 1] \in Int
  BY <1>0
<1>3. PICK g \in [0..L -> Int] :
          g[0] = 0 /\ \A i \in 1..L : g[i] = s[L - i + 1] + ByteBase * g[i - 1]
  <2>0. PICK step : step = [i \in 1..L |-> [x \in Int |-> s[L - i + 1] + ByteBase * x]]
    OBVIOUS
  <2>1a. \A i \in 1..L : \A x \in Int : s[L - i + 1] + ByteBase * x \in Int
    BY <1>2, CodecAssumption
  <2>1. step \in [1..L -> [Int -> Int]]
    BY <2>0, <2>1a
  <2>1b. L \in Nat /\ 0 \in Int
    BY <1>2
  <2>2. PICK f \in [0..L -> Int] :
            f[0] = 0 /\ \A i \in 1..L : f[i] = step[i][f[i - 1]]
    BY <2>1, <2>1b, RecurrenceExists, Zenon
  <2>3a. \A i \in 1..L : f[i - 1] \in Int
    OBVIOUS
  <2>3. \A i \in 1..L : f[i] = s[L - i + 1] + ByteBase * f[i - 1]
    BY <2>2, <2>3a, <2>0, CodecAssumption
  <2>. QED
    BY <2>2, <2>3
<1>4. g = [i \in 0..L |-> IF i = 0 THEN 0 ELSE s[L - i + 1] + ByteBase * g[i - 1]]
  BY <1>3
<1>5. v = [i \in 0..L |-> IF i = 0 THEN 0 ELSE s[L - i + 1] + ByteBase * v[i - 1]]
  BY <1>0, <1>1, <1>4 DEF HornerLE
<1>6. \A i \in 0..L : v[i] = g[i]
  <2>1. v[0] = g[0]
    BY <1>3, <1>5
  <2>2. \A i \in 1..L : v[i - 1] = g[i - 1] => v[i] = g[i]
    BY <1>3, <1>5
  <2>3. v[0] = g[0] /\ (\A i \in 1..L : v[i - 1] = g[i - 1] => v[i] = g[i])
        => \A i \in 0..L : v[i] = g[i]
    <3>1. \A a, b : a[0] = b[0] /\ (\A i \in 1..L : a[i - 1] = b[i - 1] => a[i] = b[i])
                    => \A i \in 0..L : a[i] = b[i]
      BY <1>2, EqualUpTo, Zenon
    <3>. QED
      BY <3>1, Zenon
  <2>. QED
    BY <2>1, <2>2, <2>3
<1>7. v = g
  BY <1>3, <1>5, <1>6
<1>. QED
  BY <1>0, <1>1, <1>3, <1>7

\* The bytes of Pack(n, w) are the remainders of the successive shifts.
LEMMA PackDigits ==
    ASSUME NEW n \in Int, NEW w \in Nat
    PROVE  /\ Pack(n, w) \in Seq(Int)
           /\ Len(Pack(n, w)) = w
           /\ \A i \in 1..w : Pack(n, w)[i] = Shifts(n, w)[i - 1] % ByteBase
<1>1. \A i \in 1..w : Shifts(n, w)[i - 1] % ByteBase \in Int
  <2>1. Shifts(n, w) \in [0..w -> Int]
    BY ShiftsDef
  <2>. QED
    BY <2>1, CodecAssumption
<1>. QED
  BY <1>1 DEF Pack

\* A base-ByteBase digit and the shift it leaves give back the integer.
LEMMA DivMod ==
    ASSUME NEW x \in Int
    PROVE  (x % ByteBase) + ByteBase * (x \div ByteBase) = x
<1>1. x % ByteBase = x - ByteBase * (x \div ByteBase)
  BY CodecAssumption, Z3
<1>. QED
  BY <1>1, CodecAssumption

\* Reading back w packed bytes gives the integer, whenever nothing is left
\* of it after w shifts.
LEMMA RoundTrip ==
    ASSUME NEW n \in Int, NEW w \in Nat, Shifts(n, w)[w] = 0
    PROVE  LEValue(Pack(n, w)) = n
<1>0s. PICK s : s = Pack(n, w)
  OBVIOUS
<1>0q. PICK q : q = Shifts(n, w)
  OBVIOUS
<1>0v. PICK v : v = HornerLE(s)
  OBVIOUS
<1>0r. PICK r : r = [i \in 0..w |-> q[w - i]]
  OBVIOUS
<1>1. s \in Seq(Int) /\ Len(s) = w /\ \A i \in 1..w : s[i] = q[i - 1] % ByteBase
  BY <1>0s, <1>0q, PackDigits
<1>2a. /\ q \in [0..w -> Int] /\ q[0] = n
       /\ \A i \in 1..w : q[i] = q[i - 1] \div ByteBase
  <2>1. /\ Shifts(n, w) \in [0..w -> Int] /\ Shifts(n, w)[0] = n
        /\ \A i \in 1..w : Shifts(n, w)[i] = Shifts(n, w)[i - 1] \div ByteBase
    BY ShiftsDef
  <2>. QED
    BY <1>0q, <2>1
<1>2b. q[w] = 0
  BY <1>0q
<1>2. /\ q \in [0..w -> Int] /\ q[0] = n /\ q[w] = 0
      /\ \A i \in 1..w : q[i] = q[i - 1] \div ByteBase
  BY <1>2a, <1>2b
<1>3. /\ v \in [0..w -> Int] /\ v[0] = 0
      /\ \A i \in 1..w : v[i] = s[w - i + 1] + ByteBase * v[i - 1]
  BY <1>0v, <1>1, HornerDef
<1>4. \A i \in 0..w : v[i] = r[i]
  <2>1. v[0] = r[0]
    BY <1>0r, <1>2, <1>3
  <2>2. ASSUME NEW i \in 1..w, v[i - 1] = r[i - 1] PROVE v[i] = r[i]
    <3> DEFINE x == q[w - i]
    <3>1. x \in Int /\ w - i + 1 \in 1..w /\ w - i \in 0..w
      BY <1>2 DEF x
    <3>2. v[i - 1] = x \div ByteBase
      <4>1. r[i - 1] = q[w - i + 1]
        BY <1>0r, <3>1
      <4>2. q[w - i + 1] = x \div ByteBase
        BY <1>2, <3>1 DEF x
      <4>. QED
        BY <2>2, <4>1, <4>2
    <3>3. s[w - i + 1] = x % ByteBase
      BY <1>1, <3>1 DEF x
    <3>4. (x % ByteBase) + ByteBase * (x \div ByteBase) = x
      BY <3>1, DivMod
    <3>5. v[i] = (x % ByteBase) + ByteBase * (x \div ByteBase)
      BY <1>3, <3>2, <3>3
    <3>. QED
      BY <1>0r, <3>1, <3>4, <3>5 DEF x
  <2>3. \A i \in 1..w : v[i - 1] = r[i - 1] => v[i] = r[i]
    BY <2>2
  <2>4. \A a, b : a[0] = b[0] /\ (\A i \in 1..w : a[i - 1] = b[i - 1] => a[i] = b[i])
                  => \A i \in 0..w : a[i] = b[i]
    BY EqualUpTo, Zenon
  <2>. QED
    BY <2>1, <2>3, <2>4
<1>5. v[w] = n
  BY <1>0r, <1>2, <1>4
<1>. QED
  BY <1>0s, <1>0v, <1>1, <1>5 DEF LEValue

=============================================================================
