--------------------------- MODULE EventRing_proofs ---------------------------
(***************************************************************************)
(* Theorems about EventRing, for any vCPUs, any size of the ring and any   *)
(* range of its indices that is a multiple of the size.                    *)
(***************************************************************************)
EXTENDS EventRing, SequenceTheorems, TLAPS

-----------------------------------------------------------------------------
(* Division with remainder. *)

\* A number is the sum of its multiple of m and its remainder.
LEMMA DivMod ==
  ASSUME NEW x \in Int, NEW m \in Nat \ {0}
  PROVE  x % m \in 0 .. m - 1 /\ x \div m \in Int /\ x = m * (x \div m) + (x % m)
  OBVIOUS

\* Two numbers with the same remainder that are less than m apart are equal.
LEMMA Apart ==
  ASSUME NEW m \in Nat \ {0}, NEW x \in Int, NEW k \in 0 .. m - 1, NEW l \in 0 .. m - 1,
         (x + k) % m = (x + l) % m
  PROVE  k = l
  <1> DEFINE a == (x + k) \div m
             b == (x + l) \div m
             r == (x + k) % m
  <1>1. a \in Int /\ b \in Int /\ r \in Int /\ x + k = m * a + r /\ x + l = m * b + r
    <2>1. x + k \in Int /\ x + l \in Int
      OBVIOUS
    <2>2. a \in Int /\ b \in Int /\ r \in Int
      BY <2>1, DivMod
    <2>3. x + k = m * a + r
      BY <2>1, DivMod
    <2>4. x + l = m * b + r
      BY <2>1, DivMod
    <2> QED BY <2>2, <2>3, <2>4
  <1>2. ASSUME NEW c \in Int, NEW d \in Int, NEW t \in Int,
               x + k = m * c + t, x + l = m * d + t
        PROVE  k = l
    <2>1. m * c + l = m * d + k
      BY <1>2
    <2>2. c = d
      BY <2>1
    <2> QED BY <2>1, <2>2
  <1> HIDE DEF a, b, r
  <1> QED BY <1>1, <1>2, Zenon

\* A multiple of m does not change the remainder.
LEMMA Multiple ==
  ASSUME NEW m \in Nat \ {0}, NEW x \in Int, NEW w \in Nat, w % m = 0
  PROVE  (x - w) % m = x % m
  <1> DEFINE q == w \div m
             c == (x - w) \div m
             d == x \div m
             r == (x - w) % m
             s == x % m
  <1>1. q \in Int /\ w = m * q
    BY DivMod
  <1>2. c \in Int /\ r \in 0 .. m - 1 /\ x - w = m * c + r
    <2>1. x - w \in Int
      OBVIOUS
    <2> QED BY <2>1, DivMod
  <1>3. d \in Int /\ s \in 0 .. m - 1 /\ x = m * d + s
    BY DivMod
  <1>4. ASSUME NEW f \in Int, NEW g \in Int, NEW h \in Int,
               NEW t \in 0 .. m - 1, NEW u \in 0 .. m - 1,
               w = m * f, x - w = m * g + t, x = m * h + u
        PROVE  t = u
    <2>1. m * h + u = m * (g + f) + t
      BY <1>4
    <2>2. ASSUME NEW e \in Int, m * h + u = m * e + t PROVE t = u
      BY <2>2
    <2> QED BY <2>1, <2>2
  <1>5. r = s
    <2> HIDE DEF q, c, d, r, s
    <2> QED BY <1>1, <1>2, <1>3, <1>4, Zenon
  <1> QED BY <1>5

-----------------------------------------------------------------------------
(* Indices. *)

\* Unsigned arithmetic without remainders: a sum or a difference wraps at most once.
LEMMA PlusValue ==
  ASSUME NEW i \in Index, NEW n \in 0 .. Width - 1
  PROVE  Plus(i, n) = IF i + n < Width THEN i + n ELSE i + n - Width
  <1>1. Width \in Nat \ {0}
    BY SizeAssumption
  <1> QED BY <1>1 DEF Plus, Index

\* The unsigned difference of two indices, without the remainder.
LEMMA MinusValue ==
  ASSUME NEW i \in Index, NEW j \in Index
  PROVE  Minus(i, j) = IF i >= j THEN i - j ELSE i - j + Width
  <1>1. Width \in Nat \ {0}
    BY SizeAssumption
  <1> QED BY <1>1 DEF Minus, Index

\* Sums and differences of indices are indices.
LEMMA IndexType ==
  ASSUME NEW i \in Index
  PROVE  /\ \A n \in 0 .. Width - 1 : Plus(i, n) \in Index
         /\ \A j \in Index : Minus(i, j) \in Index
  <1>1. Width \in Nat \ {0}
    BY SizeAssumption
  <1>2. ASSUME NEW n \in 0 .. Width - 1 PROVE Plus(i, n) \in Index
    BY <1>1, DivMod DEF Plus, Index
  <1>3. ASSUME NEW j \in Index PROVE Minus(i, j) \in Index
    BY <1>1, DivMod DEF Minus, Index
  <1> QED BY <1>2, <1>3

\* The slots of the indices that follow i, up to the size of the ring, are different.
LEMMA SlotsApart ==
  ASSUME NEW i \in Index, NEW k \in 0 .. Size - 1, NEW l \in 0 .. Size - 1,
         Slot(Plus(i, k)) = Slot(Plus(i, l))
  PROVE  k = l
  <1>1. Size \in Nat \ {0} /\ Width \in Nat /\ Width > Size /\ Width % Size = 0
    BY SizeAssumption
  <1>2. \A n \in 0 .. Size - 1 : Slot(Plus(i, n)) = (i + n) % Size
    <2>1. ASSUME NEW n \in 0 .. Size - 1 PROVE Slot(Plus(i, n)) = (i + n) % Size
      <3>1. Plus(i, n) = IF i + n < Width THEN i + n ELSE i + n - Width
        BY <1>1, PlusValue
      <3>2. i + n \in Int
        BY <1>1 DEF Index
      <3>3. \A x \in Int : (x - Width) % Size = x % Size
        BY <1>1, Multiple
      <3>4. ((i + n) - Width) % Size = (i + n) % Size
        BY <3>2, <3>3, Zenon
      <3>5. Plus(i, n) = i + n \/ Plus(i, n) = (i + n) - Width
        BY <1>1, <3>1 DEF Index
      <3> QED BY <3>4, <3>5, Zenon DEF Slot
    <2> QED BY <2>1
  <1>3. (i + k) % Size = (i + l) % Size
    BY <1>2
  <1>4. i \in Int
    BY <1>1 DEF Index
  <1> QED BY <1>1, <1>3, <1>4, Apart

\* The slot of an index is a place of the ring.
LEMMA SlotType == ASSUME NEW i \in Index PROVE Slot(i) \in 0 .. Size - 1
  <1>1. Size \in Nat \ {0} /\ Width \in Nat
    BY SizeAssumption
  <1>2. i \in Int
    BY <1>1 DEF Index
  <1> QED BY <1>1, <1>2, DivMod DEF Slot

\* Moving the later or the earlier of two indices on by one.
LEMMA MoveLater ==
  ASSUME NEW i \in Index, NEW j \in Index, Minus(j, i) + 1 < Width
  PROVE  Minus(Plus(j, 1), i) = Minus(j, i) + 1
  <1>1. Width \in Nat \ {0} /\ 1 \in 0 .. Width - 1 /\ Plus(j, 1) \in Index
    BY SizeAssumption, IndexType
  <1>2. Plus(j, 1) = IF j + 1 < Width THEN j + 1 ELSE j + 1 - Width
    BY <1>1, PlusValue
  <1>3. Minus(j, i) = IF j >= i THEN j - i ELSE j - i + Width
    BY MinusValue
  <1>4. Minus(Plus(j, 1), i) = IF Plus(j, 1) >= i THEN Plus(j, 1) - i
                               ELSE Plus(j, 1) - i + Width
    BY <1>1, MinusValue
  <1> QED BY <1>1, <1>2, <1>3, <1>4 DEF Index

\* Moving the earlier of two indices on brings them one closer.
LEMMA MoveEarlier ==
  ASSUME NEW i \in Index, NEW j \in Index, Minus(j, i) > 0
  PROVE  Minus(j, Plus(i, 1)) = Minus(j, i) - 1
  <1>1. Width \in Nat \ {0} /\ 1 \in 0 .. Width - 1 /\ Plus(i, 1) \in Index
    BY SizeAssumption, IndexType
  <1>2. Plus(i, 1) = IF i + 1 < Width THEN i + 1 ELSE i + 1 - Width
    BY <1>1, PlusValue
  <1>3. Minus(j, i) = IF j >= i THEN j - i ELSE j - i + Width
    BY MinusValue
  <1>4. Minus(j, Plus(i, 1)) = IF j >= Plus(i, 1) THEN j - Plus(i, 1)
                               ELSE j - Plus(i, 1) + Width
    BY <1>1, MinusValue
  <1> QED BY <1>1, <1>2, <1>3, <1>4 DEF Index

\* Adding twice, if that does not go around the whole circle.
LEMMA PlusPlus ==
  ASSUME NEW i \in Index, NEW m \in Nat, NEW n \in Nat, m + n < Width
  PROVE  Plus(Plus(i, m), n) = Plus(i, m + n)
  <1>1. Width \in Nat \ {0} /\ {m, n, m + n} \subseteq 0 .. Width - 1 /\ Plus(i, m) \in Index
    BY SizeAssumption, IndexType
  <1>2. Plus(i, m) = IF i + m < Width THEN i + m ELSE i + m - Width
    BY <1>1, PlusValue
  <1>3. Plus(i, m + n) = IF i + (m + n) < Width THEN i + (m + n) ELSE i + (m + n) - Width
    BY <1>1, PlusValue
  <1>4. Plus(Plus(i, m), n) = IF Plus(i, m) + n < Width THEN Plus(i, m) + n
                              ELSE Plus(i, m) + n - Width
    BY <1>1, PlusValue
  <1> QED BY <1>1, <1>2, <1>3, <1>4 DEF Index

\* An index is the other one and the distance.
LEMMA PlusMinus ==
  ASSUME NEW i \in Index, NEW j \in Index
  PROVE  Plus(i, Minus(j, i)) = j
  <1>1. Width \in Nat \ {0} /\ Minus(j, i) \in 0 .. Width - 1
    BY SizeAssumption, IndexType DEF Index
  <1>2. Minus(j, i) = IF j >= i THEN j - i ELSE j - i + Width
    BY MinusValue
  <1>3. Plus(i, Minus(j, i)) = IF i + Minus(j, i) < Width THEN i + Minus(j, i)
                               ELSE i + Minus(j, i) - Width
    BY <1>1, PlusValue
  <1> QED BY <1>1, <1>2, <1>3 DEF Index

\* Two indices are none apart only when they are equal.
LEMMA MinusZero ==
  ASSUME NEW i \in Index
  PROVE  /\ Plus(i, 0) = i /\ Minus(i, i) = 0
         /\ \A j \in Index : Minus(j, i) = 0 <=> i = j
  <1>1. Width \in Nat \ {0} /\ 0 \in 0 .. Width - 1
    BY SizeAssumption
  <1>2. Plus(i, 0) = IF i + 0 < Width THEN i + 0 ELSE i + 0 - Width
    BY <1>1, PlusValue
  <1>3. \A j \in Index : Minus(j, i) = IF j >= i THEN j - i ELSE j - i + Width
    BY MinusValue
  <1> QED BY <1>1, <1>2, <1>3 DEF Index

-----------------------------------------------------------------------------
(* The parts of the ring. *)

\* Going around from Xen's side: responses, requests taken and not answered, requests.
Answers == Minus(rsp_prod, rsp_cons)
Taken   == Minus(req_cons, rsp_prod)
Waits   == Minus(req_prod, req_cons)

\* The slot of the message at a distance from the first response.
At(n) == Slot(Plus(rsp_cons, n))

\* The parts lie one after the other in the ring.
LEMMA Layout ==
  ASSUME TypeOK, IndicesInOrder
  PROVE  /\ Answers \in Nat /\ Taken \in Nat /\ Waits \in Nat
         /\ Answers + Taken + Waits <= Size
         /\ Answers + Taken + Waits = Minus(req_prod, rsp_cons)
         /\ Size \in Nat /\ Width \in Nat /\ Size < Width /\ 0 < Size
         /\ Slot(rsp_prod) = At(Answers)
         /\ Slot(req_prod) = At(Answers + Taken + Waits)
         /\ \A k \in 0 .. Waits : Slot(Plus(req_cons, k)) = At(Answers + Taken + k)
  <1>1. /\ req_prod \in Index /\ rsp_prod \in Index /\ req_cons \in Index
        /\ rsp_cons \in Index
        /\ Width \in Nat /\ Size \in Nat /\ 0 < Size /\ Size < Width
    BY SizeAssumption DEF TypeOK
  <1>2. Answers \in Nat /\ Taken \in Nat /\ Waits \in Nat
    <2>1. Answers \in Index /\ Taken \in Index /\ Waits \in Index
      BY <1>1, IndexType DEF Answers, Taken, Waits
    <2> QED BY <1>1, <2>1 DEF Index
  <1>3. /\ Answers + Taken + Waits = Minus(req_prod, rsp_cons)
        /\ Answers + Taken + Waits <= Size
    BY DEF IndicesInOrder, Answers, Taken, Waits
  <1>4. rsp_prod = Plus(rsp_cons, Answers)
    BY <1>1, PlusMinus DEF Answers
  <1>5. req_prod = Plus(rsp_cons, Answers + Taken + Waits)
    BY <1>1, <1>3, PlusMinus
  <1>6. req_cons = Plus(rsp_cons, Answers + Taken)
    <2>1. req_cons = Plus(Plus(rsp_cons, Answers), Taken)
      BY <1>1, <1>4, PlusMinus DEF Taken
    <2>2. Answers + Taken < Width
      BY <1>1, <1>2, <1>3
    <2> QED BY <1>1, <1>2, <2>1, <2>2, PlusPlus
  <1>7. ASSUME NEW k \in 0 .. Waits PROVE Slot(Plus(req_cons, k)) = At(Answers + Taken + k)
    <2>1. k \in Nat /\ Answers + Taken \in Nat /\ Answers + Taken + k < Width
      BY <1>1, <1>2, <1>3
    <2>2. Plus(Plus(rsp_cons, Answers + Taken), k) = Plus(rsp_cons, Answers + Taken + k)
      BY <1>1, <2>1, PlusPlus
    <2> QED BY <1>6, <2>2 DEF At
  <1> QED BY <1>1, <1>2, <1>3, <1>4, <1>5, <1>7 DEF At

\* A write to one place of the ring leaves the others.
LEMMA WriteAt ==
  ASSUME TypeOK, NEW w \in 0 .. Size - 1, NEW m, ring' = [ring EXCEPT ![At(w)] = m]
  PROVE  /\ ring'[At(w)] = m
         /\ \A n \in 0 .. Size - 1 : n # w => ring'[At(n)] = ring[At(n)]
  <1>1. rsp_cons \in Index /\ Size \in Nat /\ Width \in Nat /\ Size < Width
    BY SizeAssumption DEF TypeOK
  <1>2. \A n \in 0 .. Size - 1 : At(n) \in 0 .. Size - 1
    BY <1>1, IndexType, SlotType DEF At
  <1>3. \A n \in 0 .. Size - 1 : At(n) = At(w) => n = w
    BY <1>1, SlotsApart DEF At
  <1>4. DOMAIN ring = 0 .. Size - 1
    BY DEF TypeOK
  <1> QED BY <1>2, <1>3, <1>4

-----------------------------------------------------------------------------
(* What the four writers of an index do to the parts. *)

\* Nothing is lost from what the parts hold.
ResponsesKept == \A k \in 0 .. Answers - 1 :
                   ring'[Slot(Plus(rsp_cons, k))] = ring[Slot(Plus(rsp_cons, k))]
RequestsKept == \A k \in 0 .. Waits - 1 :
                  ring'[Slot(Plus(req_cons, k))] = ring[Slot(Plus(req_cons, k))]

\* Xen puts a request after the others.
LEMMA PutEffect ==
  ASSUME TypeOK, IndicesInOrder, NEW v \in VCpus, PutRequest(v)
  PROVE  /\ IndicesInOrder'
         /\ Answers' = Answers /\ Taken' = Taken /\ Waits' = Waits + 1
         /\ ResponsesKept /\ RequestsKept
         /\ ring'[Slot(Plus(req_cons, Waits))] = Request(v)
         /\ req_prod' \in Index
  <1>1. /\ req_prod \in Index /\ rsp_prod \in Index /\ req_cons \in Index
        /\ rsp_cons \in Index /\ 1 \in 0 .. Width - 1
    BY SizeAssumption DEF TypeOK
  <1>2. /\ req_prod' = Plus(req_prod, 1) /\ UNCHANGED <<rsp_prod, req_cons, rsp_cons>>
        /\ Size - Minus(req_prod, rsp_cons) > 0
        /\ ring' = [ring EXCEPT ![Slot(req_prod)] = Request(v)]
    BY DEF PutRequest, FreeRequests
  <1>3. /\ Answers \in Nat /\ Taken \in Nat /\ Waits \in Nat
        /\ Answers + Taken + Waits = Minus(req_prod, rsp_cons)
        /\ Size \in Nat /\ Width \in Nat /\ Size < Width
        /\ Slot(req_prod) = At(Answers + Taken + Waits)
        /\ \A k \in 0 .. Waits : Slot(Plus(req_cons, k)) = At(Answers + Taken + k)
    BY Layout
  <1>4. Answers + Taken + Waits < Size
    BY <1>2, <1>3
  <1>5. Minus(req_prod', rsp_cons) = Minus(req_prod, rsp_cons) + 1
    BY <1>1, <1>2, <1>3, <1>4, MoveLater
  <1>6. Waits' = Waits + 1
    <2>1. Waits + 1 < Width
      BY <1>3, <1>4
    <2> QED BY <1>1, <1>2, <2>1, MoveLater DEF Waits
  <1>7. Answers' = Answers /\ Taken' = Taken
    BY <1>2 DEF Answers, Taken
  <1>8. IndicesInOrder'
    BY <1>2, <1>3, <1>4, <1>5, <1>6, <1>7 DEF IndicesInOrder, Answers, Taken, Waits
  <1> DEFINE w == Answers + Taken + Waits
  <1>9. w \in 0 .. Size - 1 /\ ring' = [ring EXCEPT ![At(w)] = Request(v)]
    BY <1>2, <1>3, <1>4
  <1>10. /\ ring'[At(w)] = Request(v)
         /\ \A n \in 0 .. Size - 1 : n # w => ring'[At(n)] = ring[At(n)]
    <2> HIDE DEF w
    <2> QED BY <1>9, WriteAt
  <1>11. ResponsesKept
    BY <1>3, <1>4, <1>10 DEF ResponsesKept, At
  <1>12. RequestsKept
    <2>1. ASSUME NEW k \in 0 .. Waits - 1
          PROVE  ring'[Slot(Plus(req_cons, k))] = ring[Slot(Plus(req_cons, k))]
      <3>1. Slot(Plus(req_cons, k)) = At(Answers + Taken + k)
        BY <1>3
      <3>2. Answers + Taken + k \in 0 .. Size - 1 /\ Answers + Taken + k # w
        BY <1>3, <1>4
      <3> QED BY <1>10, <3>1, <3>2
    <2> QED BY <2>1 DEF RequestsKept
  <1>13. ring'[Slot(Plus(req_cons, Waits))] = Request(v)
    BY <1>3, <1>10
  <1>14. req_prod' \in Index
    BY <1>1, <1>2, IndexType
  <1> QED BY <1>6, <1>7, <1>8, <1>11, <1>12, <1>13, <1>14

\* The listener takes the first request.
LEMMA TakeEffect ==
  ASSUME TypeOK, IndicesInOrder, HasRequests,
         req_cons' = Plus(req_cons, 1), UNCHANGED <<req_prod, rsp_prod, rsp_cons>>
  PROVE  /\ IndicesInOrder'
         /\ Waits > 0 /\ Waits' = Waits - 1
         /\ Answers' = Answers /\ Taken' = Taken + 1
         /\ \A k \in 0 .. Waits - 2 : Plus(req_cons', k) = Plus(req_cons, k + 1)
         /\ req_cons' \in Index
  <1>1. /\ req_prod \in Index /\ rsp_prod \in Index /\ req_cons \in Index
        /\ rsp_cons \in Index /\ 1 \in 0 .. Width - 1
    BY SizeAssumption DEF TypeOK
  <1>2. /\ Answers \in Nat /\ Taken \in Nat /\ Waits \in Nat
        /\ Answers + Taken + Waits = Minus(req_prod, rsp_cons)
        /\ Answers + Taken + Waits <= Size
        /\ Size \in Nat /\ Width \in Nat /\ Size < Width
    BY Layout
  <1>3. Waits > 0
    BY DEF HasRequests, Waits
  <1>4. Waits' = Waits - 1
    BY <1>1, <1>3, MoveEarlier DEF Waits
  <1>5. Taken' = Taken + 1
    <2>1. Taken + 1 < Width
      BY <1>2, <1>3
    <2> QED BY <1>1, <2>1, MoveLater DEF Taken
  <1>6. Answers' = Answers
    BY DEF Answers
  <1>7. IndicesInOrder'
    BY <1>2, <1>4, <1>5, <1>6 DEF IndicesInOrder, Answers, Taken, Waits
  <1>8. ASSUME NEW k \in 0 .. Waits - 2 PROVE Plus(req_cons', k) = Plus(req_cons, k + 1)
    <2>1. k \in Nat /\ 1 \in Nat /\ 1 + k < Width /\ 1 + k = k + 1
      BY <1>2
    <2>2. Plus(Plus(req_cons, 1), k) = Plus(req_cons, 1 + k)
      BY <1>1, <2>1, PlusPlus
    <2> QED BY <2>1, <2>2
  <1>9. req_cons' \in Index
    BY <1>1, IndexType
  <1> QED BY <1>3, <1>4, <1>5, <1>6, <1>7, <1>8, <1>9

\* The listener answers a request it has taken.
LEMMA AnswerEffect ==
  ASSUME TypeOK, IndicesInOrder, Taken > 0, NEW v \in VCpus, PutResponse(v),
         UNCHANGED <<req_prod, req_cons, rsp_cons>>
  PROVE  /\ IndicesInOrder'
         /\ Answers' = Answers + 1 /\ Taken' = Taken - 1 /\ Waits' = Waits
         /\ ResponsesKept /\ RequestsKept
         /\ ring'[Slot(Plus(rsp_cons, Answers))] = Response(v)
         /\ rsp_prod' \in Index
  <1>1. /\ req_prod \in Index /\ rsp_prod \in Index /\ req_cons \in Index
        /\ rsp_cons \in Index /\ 1 \in 0 .. Width - 1
    BY SizeAssumption DEF TypeOK
  <1>2. /\ rsp_prod' = Plus(rsp_prod, 1)
        /\ ring' = [ring EXCEPT ![Slot(rsp_prod)] = Response(v)]
    BY DEF PutResponse
  <1>3. /\ Answers \in Nat /\ Taken \in Nat /\ Waits \in Nat
        /\ Answers + Taken + Waits = Minus(req_prod, rsp_cons)
        /\ Answers + Taken + Waits <= Size
        /\ Size \in Nat /\ Width \in Nat /\ Size < Width
        /\ Slot(rsp_prod) = At(Answers)
        /\ \A k \in 0 .. Waits : Slot(Plus(req_cons, k)) = At(Answers + Taken + k)
    BY Layout
  <1>4. Answers' = Answers + 1
    <2>1. Answers + 1 < Width
      BY <1>3
    <2> QED BY <1>1, <1>2, <2>1, MoveLater DEF Answers
  <1>5. Taken' = Taken - 1
    BY <1>1, <1>2, MoveEarlier DEF Taken
  <1>6. Waits' = Waits
    BY DEF Waits
  <1>7. IndicesInOrder'
    BY <1>3, <1>4, <1>5, <1>6 DEF IndicesInOrder, Answers, Taken, Waits
  <1>8. Answers \in 0 .. Size - 1
    BY <1>3
  <1>9. /\ ring'[At(Answers)] = Response(v)
        /\ \A n \in 0 .. Size - 1 : n # Answers => ring'[At(n)] = ring[At(n)]
    BY <1>2, <1>3, <1>8, WriteAt
  <1>10. ResponsesKept
    BY <1>3, <1>8, <1>9 DEF ResponsesKept, At
  <1>11. RequestsKept
    <2>1. ASSUME NEW k \in 0 .. Waits - 1
          PROVE  ring'[Slot(Plus(req_cons, k))] = ring[Slot(Plus(req_cons, k))]
      <3>1. Slot(Plus(req_cons, k)) = At(Answers + Taken + k)
        BY <1>3
      <3>2. Answers + Taken + k \in 0 .. Size - 1 /\ Answers + Taken + k # Answers
        BY <1>3
      <3> QED BY <1>9, <3>1, <3>2
    <2> QED BY <2>1 DEF RequestsKept
  <1>12. ring'[Slot(Plus(rsp_cons, Answers))] = Response(v)
    BY <1>9 DEF At
  <1>13. rsp_prod' \in Index
    BY <1>1, <1>2, IndexType
  <1> QED BY <1>4, <1>5, <1>6, <1>7, <1>10, <1>11, <1>12, <1>13

\* Xen takes all responses.
LEMMA ConsumeEffect ==
  ASSUME TypeOK, IndicesInOrder, rsp_cons' = rsp_prod,
         UNCHANGED <<req_prod, rsp_prod, req_cons>>
  PROVE  /\ IndicesInOrder'
         /\ Answers' = 0 /\ Taken' = Taken /\ Waits' = Waits
  <1>1. /\ req_prod \in Index /\ rsp_prod \in Index /\ req_cons \in Index
        /\ rsp_cons \in Index
    BY DEF TypeOK
  <1>2. /\ Answers \in Nat /\ Taken \in Nat /\ Waits \in Nat
        /\ Answers + Taken + Waits = Minus(req_prod, rsp_cons)
        /\ Answers + Taken + Waits <= Size
        /\ Size \in Nat /\ Width \in Nat /\ Size < Width
    BY Layout
  <1>3. Answers' = 0 /\ Taken' = Taken /\ Waits' = Waits
    BY <1>1, MinusZero DEF Answers, Taken, Waits
  <1>4. Minus(req_prod, rsp_prod) = Taken + Waits
    <2>1. /\ Taken = IF req_cons >= rsp_prod THEN req_cons - rsp_prod
                     ELSE req_cons - rsp_prod + Width
          /\ Waits = IF req_prod >= req_cons THEN req_prod - req_cons
                     ELSE req_prod - req_cons + Width
          /\ Minus(req_prod, rsp_prod) = IF req_prod >= rsp_prod THEN req_prod - rsp_prod
                                         ELSE req_prod - rsp_prod + Width
      BY <1>1, MinusValue DEF Taken, Waits
    <2> QED BY <1>1, <1>2, <2>1 DEF Index
  <1> QED BY <1>2, <1>3, <1>4 DEF IndicesInOrder, Answers, Taken, Waits

-----------------------------------------------------------------------------
(* The invariant. *)

\* With the expected version the only request taken and not answered is the one being
\* handled; with another one no callback ever runs.  Nothing has failed before the first
\* pass.
PassInv ==
  /\ version => Taken = IF pc = "handle" THEN 1 ELSE 0
  /\ ~version => ~deferred /\ ~second /\ pc \notin {"handle", "deferred"}
  /\ pc \in {"poll", "unmask"} => vrc

\* WakesUp, and also when a pass has just ended.
PortInv ==
  version /\ pc \in {"idle", "poll", "notify"} /\ ~masked /\ req_prod # req_cons => port

\* What a call that has not failed still has to answer is on the ring, and is answered
\* when its passes are over.
ServedInv ==
  pc # "idle" /\ (version \/ vrc) =>
    served \subseteq VCpusFrom(rsp_cons, Answers)
                     \cup (IF pc = "notify" THEN {}
                           ELSE VCpusFrom(req_cons, Waits) \cup ({req} \ {None}))

IInv == InOrder /\ PassInv /\ PortInv /\ ServedInv

\* The end of a pass keeps the types.
LEMMA EndOfPassType ==
  ASSUME TypeOK, EndOfPass
  PROVE  /\ pc' \in {"deferred", "notify"}
         /\ second' \in BOOLEAN /\ deferred' \in BOOLEAN /\ paused' \in BOOLEAN
  BY DEF EndOfPass, TypeOK

\* The first request is one.
LEMMA FirstRequest ==
  ASSUME TypeOK, SlotsHoldTheirKind, Waits > 0
  PROVE  ring[Slot(req_cons)].vcpu \in VCpus
  <1>1. req_cons \in Index /\ req_prod \in Index /\ Waits \in Int
    <2>1. req_cons \in Index /\ req_prod \in Index
      BY DEF TypeOK
    <2>2. Waits \in Index
      BY <2>1, IndexType DEF Waits
    <2> QED BY <2>1, <2>2 DEF Index
  <1>2. Plus(req_cons, 0) = req_cons /\ 0 \in 0 .. Waits - 1
    BY <1>1, MinusZero
  <1>3. ring[Slot(req_cons)] # None
    BY <1>2 DEF SlotsHoldTheirKind, Waits
  <1>4. Slot(req_cons) \in 0 .. Size - 1
    BY <1>1, SlotType
  <1> QED BY <1>3, <1>4 DEF TypeOK

\* Every step keeps the types.
LEMMA TypeStep ==
  ASSUME TypeOK, IndicesInOrder, SlotsHoldTheirKind, [Next]_vars
  PROVE  TypeOK'
  <1> USE DEF indices, channel, xen, locals
  <1>0. /\ \A v \in VCpus : Request(v) \in [rsp : BOOLEAN, vcpu : VCpus]
        /\ \A v \in VCpus : Response(v) \in [rsp : BOOLEAN, vcpu : VCpus]
    BY DEF Request, Response
  <1>1. ASSUME NEW v \in VCpus, PutRequest(v), waiting' \subseteq VCpus PROVE TypeOK'
    <2>1. req_prod' \in Index
      BY <1>1, PutEffect
    <2>2. ring' \in [0 .. Size - 1 -> [rsp : BOOLEAN, vcpu : VCpus] \cup {None}]
      BY <1>0, <1>1 DEF PutRequest, TypeOK
    <2>3. blocked' \subseteq VCpus
      BY <1>1 DEF PutRequest, TypeOK
    <2> QED BY <1>1, <2>1, <2>2, <2>3 DEF PutRequest, TypeOK
  <1>2. ASSUME NEW v \in VCpus, Trap(v) \/ Enqueue(v) PROVE TypeOK'
    <2>1. waiting' \subseteq VCpus
      BY <1>2 DEF Trap, Enqueue, TypeOK
    <2> QED BY <1>1, <1>2, <2>1 DEF Trap, Enqueue, TypeOK
  <1>3. ASSUME NEW timeout \in {0, 1}, EventsListen(timeout) PROVE TypeOK'
    <2>1. req_prod \in Index /\ req_cons \in Index
      BY DEF TypeOK
    <2>2. \A k \in 0 .. Waits - 1 : ring[Slot(Plus(req_cons, k))].vcpu \in VCpus
      <3>1. ASSUME NEW k \in 0 .. Waits - 1 PROVE Slot(Plus(req_cons, k)) \in 0 .. Size - 1
        <4>1. Waits \in Index
          BY <2>1, IndexType DEF Waits
        <4>2. k \in 0 .. Width - 1
          BY <4>1, SizeAssumption DEF Index
        <4> QED BY <2>1, <4>2, IndexType, SlotType
      <3> QED BY <3>1 DEF TypeOK, SlotsHoldTheirKind, Waits
    <2>3. served' \subseteq VCpus
      BY <1>3, <2>2 DEF EventsListen, VCpusFrom, Waits
    <2>4. pc' \in {"poll", "requests"} /\ req' = req /\ pc = "idle" /\ vrc' = TRUE
      BY <1>3 DEF EventsListen
    <2> QED BY <1>3, <2>3, <2>4 DEF EventsListen, TypeOK
  <1>4. CASE PollTimeout \/ PollFails \/ PollReady
    BY <1>4 DEF PollTimeout, PollFails, PollReady, TypeOK
  <1>5. CASE Unmask
    <2>1. masked' \in BOOLEAN /\ vrc' \in BOOLEAN /\ pc' \in {"requests", "idle"}
      BY <1>5 DEF Unmask, Result
    <2> QED BY <1>5, <2>1 DEF Unmask, TypeOK
  <1>6. CASE GetRequest
    <2>1. req_cons' \in Index /\ Waits > 0
      BY <1>6, TakeEffect DEF GetRequest
    <2>2. req' \in VCpus
      BY <1>6, <2>1, FirstRequest DEF GetRequest
    <2> QED BY <1>6, <2>1, <2>2, NoneAssumption DEF GetRequest, TypeOK
  <1>7. CASE OtherVersion
    <2>1. req_cons' \in Index
      BY <1>7, TakeEffect DEF OtherVersion
    <2>2. /\ pc' \in {"deferred", "notify"}
          /\ second' \in BOOLEAN /\ deferred' \in BOOLEAN /\ paused' \in BOOLEAN
      BY <1>7, EndOfPassType DEF OtherVersion
    <2> QED BY <1>7, <2>1, <2>2 DEF OtherVersion, TypeOK
  <1>8. CASE Handle
    <2>1. req \in VCpus
      BY <1>8 DEF Handle, TypeOK
    <2>2. ring' \in [0 .. Size - 1 -> [rsp : BOOLEAN, vcpu : VCpus] \cup {None}]
      BY <1>0, <1>8, <2>1 DEF Handle, PutResponse, TypeOK
    <2>3. rsp_prod' \in Index
      <3>1. 1 \in 0 .. Width - 1
        BY SizeAssumption
      <3> QED BY <1>8, <3>1, IndexType DEF Handle, PutResponse, TypeOK
    <2> QED BY <1>8, <2>2, <2>3 DEF Handle, TypeOK
  <1>9. CASE PassDone
    <2>1. /\ pc' \in {"deferred", "notify"}
          /\ second' \in BOOLEAN /\ deferred' \in BOOLEAN /\ paused' \in BOOLEAN
      BY <1>9, EndOfPassType DEF PassDone
    <2> QED BY <1>9, <2>1 DEF PassDone, TypeOK
  <1>10. CASE Defer
    BY <1>10 DEF Defer, TypeOK
  <1>11. CASE Notify
    <2>1. rsp_cons' \in Index /\ blocked' \subseteq VCpus /\ vrc' \in BOOLEAN
      BY <1>11 DEF Notify, Consume, TypeOK
    <2> QED BY <1>11, <2>1 DEF Notify, TypeOK
  <1>12. CASE UNCHANGED vars
    BY <1>12 DEF vars, TypeOK
  <1> QED
    BY <1>2, <1>3, <1>4, <1>5, <1>6, <1>7, <1>8, <1>9, <1>10, <1>11, <1>12
    DEF Next, Listener

\* The steps by what they do to the ring.
TakeStep == /\ pc = "requests" /\ HasRequests
            /\ req_cons' = Plus(req_cons, 1)
            /\ UNCHANGED <<ring, req_prod, rsp_prod, rsp_cons>>
ConsumeStep == Consume /\ UNCHANGED <<ring, req_prod, rsp_prod, req_cons>>

\* Every step leaves the ring and its indices alone or moves one of them.
LEMMA RingSteps ==
  ASSUME [Next]_vars
  PROVE  \/ UNCHANGED <<ring, indices>>
         \/ \E v \in VCpus : PutRequest(v)
         \/ TakeStep \/ Handle
         \/ Notify /\ ConsumeStep
  <1> USE DEF indices
  <1>1. CASE \E v \in VCpus : Trap(v) \/ Enqueue(v)
    BY <1>1 DEF Trap, Enqueue
  <1>2. CASE GetRequest \/ OtherVersion
    BY <1>2 DEF GetRequest, OtherVersion, TakeStep
  <1>3. CASE Notify
    BY <1>3 DEF Notify, ConsumeStep
  <1>4. CASE \E timeout \in {0, 1} : EventsListen(timeout)
    BY <1>4 DEF EventsListen
  <1>5. CASE PollTimeout \/ PollFails \/ PollReady \/ Unmask \/ PassDone \/ Defer
    BY <1>5 DEF PollTimeout, PollFails, PollReady, Unmask, PassDone, Defer
  <1>6. CASE UNCHANGED vars
    BY <1>6 DEF vars
  <1> QED BY <1>1, <1>2, <1>3, <1>4, <1>5, <1>6 DEF Next, Listener

\* The one request taken is the one being handled.
LEMMA HandleTaken ==
  ASSUME TypeOK, PassInv, Handle PROVE version /\ Taken > 0 /\ req \in VCpus
  <1>1. version = TRUE
    BY VersionAssumption DEF Handle, PassInv, TypeOK
  <1> QED BY <1>1 DEF Handle, PassInv, TypeOK

\* The slots between two indices are still of their kind.
LEMMA OrderStep ==
  ASSUME TypeOK, IndicesInOrder, SlotsHoldTheirKind, PassInv, [Next]_vars
  PROVE  IndicesInOrder' /\ SlotsHoldTheirKind'
  <1>1. /\ Answers \in Nat /\ Taken \in Nat /\ Waits \in Nat
        /\ req_prod \in Index /\ rsp_prod \in Index /\ req_cons \in Index
        /\ rsp_cons \in Index
    BY Layout DEF TypeOK
  <1>2. /\ \A k \in 0 .. Waits - 1 : /\ ring[Slot(Plus(req_cons, k))] # None
                                     /\ ~ring[Slot(Plus(req_cons, k))].rsp
        /\ \A k \in 0 .. Answers - 1 : /\ ring[Slot(Plus(rsp_cons, k))] # None
                                       /\ ring[Slot(Plus(rsp_cons, k))].rsp
    BY DEF SlotsHoldTheirKind, Waits, Answers
  <1>3. SlotsHoldTheirKind' <=>
          /\ \A k \in 0 .. Waits' - 1 : /\ ring'[Slot(Plus(req_cons', k))] # None
                                        /\ ~ring'[Slot(Plus(req_cons', k))].rsp
          /\ \A k \in 0 .. Answers' - 1 : /\ ring'[Slot(Plus(rsp_cons', k))] # None
                                          /\ ring'[Slot(Plus(rsp_cons', k))].rsp
    BY DEF SlotsHoldTheirKind, Waits, Answers
  <1>4. CASE UNCHANGED <<ring, indices>>
    BY <1>4 DEF indices, IndicesInOrder, SlotsHoldTheirKind
  <1>5. ASSUME NEW v \in VCpus, PutRequest(v)
        PROVE  IndicesInOrder' /\ SlotsHoldTheirKind'
    <2>1. /\ IndicesInOrder'
          /\ Answers' = Answers /\ Waits' = Waits + 1
          /\ ResponsesKept /\ RequestsKept
          /\ ring'[Slot(Plus(req_cons, Waits))] = Request(v)
          /\ UNCHANGED <<req_cons, rsp_cons>>
      BY <1>5, PutEffect DEF PutRequest
    <2>2. Request(v) # None /\ ~Request(v).rsp
      <3>1. Request(v) \in [rsp : BOOLEAN, vcpu : VCpus]
        BY DEF Request
      <3> QED BY <3>1, NoneAssumption DEF Request
    <2>3. \A k \in 0 .. Waits' - 1 : k \in 0 .. Waits - 1 \/ k = Waits
      BY <1>1, <2>1
    <2> QED BY <1>2, <1>3, <2>1, <2>2, <2>3 DEF ResponsesKept, RequestsKept
  <1>6. CASE TakeStep
    <2>1. /\ IndicesInOrder'
          /\ Waits > 0 /\ Waits' = Waits - 1 /\ Answers' = Answers
          /\ \A k \in 0 .. Waits - 2 : Plus(req_cons', k) = Plus(req_cons, k + 1)
          /\ UNCHANGED <<ring, rsp_cons>>
      BY <1>6, TakeEffect DEF TakeStep
    <2>2. \A k \in 0 .. Waits' - 1 : k \in 0 .. Waits - 2 /\ k + 1 \in 0 .. Waits - 1
      BY <1>1, <2>1
    <2> QED BY <1>2, <1>3, <2>1, <2>2
  <1>7. CASE Handle
    <2>1. /\ IndicesInOrder'
          /\ Answers' = Answers + 1 /\ Waits' = Waits
          /\ ResponsesKept /\ RequestsKept
          /\ ring'[Slot(Plus(rsp_cons, Answers))] = Response(req)
          /\ UNCHANGED <<req_cons, rsp_cons>>
      BY <1>7, HandleTaken, AnswerEffect DEF Handle
    <2>2. Response(req) # None /\ Response(req).rsp
      <3>1. Response(req) \in [rsp : BOOLEAN, vcpu : VCpus]
        BY <1>7, HandleTaken DEF Response
      <3> QED BY <3>1, NoneAssumption DEF Response
    <2>3. \A k \in 0 .. Answers' - 1 : k \in 0 .. Answers - 1 \/ k = Answers
      BY <1>1, <2>1
    <2> QED BY <1>2, <1>3, <2>1, <2>2, <2>3 DEF ResponsesKept, RequestsKept
  <1>8. CASE ConsumeStep
    <2>1. /\ IndicesInOrder' /\ Answers' = 0 /\ Waits' = Waits
          /\ UNCHANGED <<ring, req_cons>>
      BY <1>8, ConsumeEffect DEF ConsumeStep, Consume
    <2> QED BY <1>2, <1>3, <2>1
  <1> QED BY <1>4, <1>5, <1>6, <1>7, <1>8, RingSteps

\* A pass ends with all requests taken, or with one of another version.
LEMMA PassEnd ==
  ASSUME TypeOK, IndicesInOrder, PassDone
  PROVE  Waits = 0 /\ req_prod = req_cons
  <1>1. /\ Answers \in Nat /\ Taken \in Nat /\ Waits \in Nat
        /\ Answers + Taken + Waits <= Size /\ Size \in Nat
        /\ req_prod \in Index /\ req_cons \in Index
    BY Layout DEF TypeOK
  <1>2. ~(Waits > 0 /\ Size - Taken > 0)
    BY DEF PassDone, HasRequests, Waits, Taken
  <1>3. Waits = 0
    BY <1>1, <1>2
  <1> QED BY <1>1, <1>3, MinusZero DEF Waits

\* What is taken, over every step.
LEMMA PassStep ==
  ASSUME TypeOK, IndicesInOrder, PassInv, [Next]_vars
  PROVE  PassInv'
  <1> USE DEF indices, channel, xen, locals
  <1>1. Taken \in Nat
    BY Layout
  <1>2. CASE UNCHANGED <<req_cons, rsp_prod, version, deferred, second>>
               /\ (pc' = pc \/ {pc, pc'} \cap {"handle", "deferred"} = {})
               /\ (pc' \in {"poll", "unmask"} => vrc')
    BY <1>2 DEF PassInv, Taken
  <1>3. ASSUME NEW v \in VCpus, Trap(v) \/ Enqueue(v) PROVE PassInv'
    BY <1>2, <1>3 DEF Trap, Enqueue, PutRequest, PassInv
  <1>4. ASSUME NEW timeout \in {0, 1}, EventsListen(timeout) PROVE PassInv'
    BY <1>2, <1>4 DEF EventsListen, PassInv
  <1>5. CASE PollTimeout \/ PollFails \/ PollReady
    BY <1>2, <1>5 DEF PollTimeout, PollFails, PollReady, PassInv
  <1>6. CASE Unmask
    BY <1>2, <1>6 DEF Unmask
  <1>7. CASE GetRequest
    <2>1. Taken' = Taken + 1
      BY <1>7, TakeEffect DEF GetRequest
    <2> QED BY <1>1, <1>7, <2>1 DEF GetRequest, PassInv
  <1>8. CASE OtherVersion
    BY <1>8 DEF OtherVersion, EndOfPass, PassInv
  <1>9. CASE Handle
    <2>1. version /\ Taken' = Taken - 1
      BY <1>9, HandleTaken, AnswerEffect DEF Handle
    <2> QED BY <1>1, <1>9, <2>1 DEF Handle, PassInv
  <1>10. CASE PassDone
    <2>1. Taken' = Taken /\ version' = version /\ pc = "requests"
      BY <1>10 DEF PassDone, Taken
    <2>2. pc' \in {"deferred", "notify"} /\ pc' # "handle"
      BY <1>10, EndOfPassType DEF PassDone
    <2>3. CASE version
      BY <2>1, <2>2, <2>3 DEF PassInv
    <2>4. CASE ~version
      <3>1. ~deferred /\ ~second
        BY <2>4 DEF PassInv
      <3>2. pc' = "notify" /\ UNCHANGED <<second, deferred>>
        BY <1>10, <3>1 DEF PassDone, EndOfPass
      <3> QED BY <2>1, <2>4, <3>1, <3>2 DEF PassInv
    <2> QED BY <2>3, <2>4
  <1>11. CASE Defer
    BY <1>11 DEF Defer, PassInv, Taken
  <1>12. CASE Notify
    BY <1>2, <1>12 DEF Notify
  <1>13. CASE UNCHANGED vars
    BY <1>2, <1>13 DEF vars, PassInv
  <1> QED
    BY <1>3, <1>4, <1>5, <1>6, <1>7, <1>8, <1>9, <1>10, <1>11, <1>12, <1>13
    DEF Next, Listener

\* The port, over every step.
LEMMA PortStep ==
  ASSUME TypeOK, IndicesInOrder, PassInv, PortInv, [Next]_vars
  PROVE  PortInv'
  <1> USE DEF indices, channel, xen, locals, PortInv
  <1>1. ASSUME NEW v \in VCpus, Trap(v) \/ Enqueue(v) PROVE PortInv'
    BY <1>1 DEF Trap, Enqueue, PutRequest
  <1>2. ASSUME NEW timeout \in {0, 1}, EventsListen(timeout) PROVE PortInv'
    BY <1>2 DEF EventsListen
  <1>3. CASE PollTimeout \/ PollFails \/ PollReady
    BY <1>3 DEF PollTimeout, PollFails, PollReady
  <1>4. CASE Unmask
    BY <1>4 DEF Unmask
  <1>5. CASE GetRequest \/ Handle \/ Defer
    BY <1>5 DEF GetRequest, Handle, Defer
  <1>6. CASE OtherVersion
    BY <1>6 DEF OtherVersion
  <1>7. CASE PassDone
    <2>1. req_prod = req_cons
      BY <1>7, PassEnd
    <2> QED BY <1>7, <2>1 DEF PassDone
  <1>8. CASE Notify
    BY <1>8 DEF Notify
  <1>9. CASE UNCHANGED vars
    BY <1>9 DEF vars
  <1> QED BY <1>1, <1>2, <1>3, <1>4, <1>5, <1>6, <1>7, <1>8, <1>9 DEF Next, Listener

-----------------------------------------------------------------------------
(* What a call still has to answer. *)

Requesting == VCpusFrom(req_cons, Waits)
Answering == VCpusFrom(rsp_cons, Answers)

\* A request put on the ring adds its vCPU to those that wait for a pass.
LEMMA PutVCpus ==
  ASSUME TypeOK, IndicesInOrder, NEW v \in VCpus, PutRequest(v)
  PROVE  Requesting' = Requesting \cup {v} /\ Answering' = Answering
  <1>1. /\ Answers' = Answers /\ Waits' = Waits + 1 /\ Waits \in Nat
        /\ \A k \in 0 .. Answers - 1 :
             ring'[Slot(Plus(rsp_cons, k))] = ring[Slot(Plus(rsp_cons, k))]
        /\ \A k \in 0 .. Waits - 1 :
             ring'[Slot(Plus(req_cons, k))] = ring[Slot(Plus(req_cons, k))]
        /\ ring'[Slot(Plus(req_cons, Waits))] = Request(v)
        /\ UNCHANGED <<req_cons, rsp_cons>>
    BY PutEffect, Layout DEF PutRequest, ResponsesKept, RequestsKept
  <1>2. Request(v).vcpu = v
    BY DEF Request
  <1>3. 0 .. Waits' - 1 = (0 .. Waits - 1) \cup {Waits}
    BY <1>1
  <1> QED BY <1>1, <1>2, <1>3 DEF Requesting, Answering, VCpusFrom

\* A request taken off the ring leaves the other waiting vCPUs alone.
LEMMA TakeVCpus ==
  ASSUME TypeOK, IndicesInOrder, TakeStep
  PROVE  /\ Requesting = Requesting' \cup {ring[Slot(req_cons)].vcpu}
         /\ Answering' = Answering
  <1>1. /\ Answers' = Answers /\ Waits' = Waits - 1 /\ Waits \in Nat /\ Waits > 0
        /\ \A k \in 0 .. Waits - 2 : Plus(req_cons', k) = Plus(req_cons, k + 1)
        /\ Plus(req_cons, 0) = req_cons
        /\ UNCHANGED <<ring, rsp_cons>>
    <2>1. Plus(req_cons, 0) = req_cons
      BY MinusZero DEF TypeOK
    <2> QED BY <2>1, TakeEffect, Layout DEF TakeStep
  <1> DEFINE at(k) == ring[Slot(Plus(req_cons, k))].vcpu
  <1>2. Requesting' = {at(k + 1) : k \in 0 .. Waits - 2}
    BY <1>1 DEF Requesting, VCpusFrom
  <1>3. Requesting = {at(k) : k \in 0 .. Waits - 1} /\ at(0) = ring[Slot(req_cons)].vcpu
    BY <1>1 DEF Requesting, VCpusFrom
  <1>4. Answering' = Answering
    BY <1>1 DEF Answering, VCpusFrom
  <1> HIDE DEF at
  <1>5. \A k \in 0 .. Waits - 1 : k = 0 \/ (k - 1 \in 0 .. Waits - 2 /\ (k - 1) + 1 = k)
    BY <1>1
  <1>6. \A k \in 0 .. Waits - 2 : k + 1 \in 0 .. Waits - 1
    BY <1>1
  <1>7. 0 \in 0 .. Waits - 1
    BY <1>1
  <1> QED BY <1>2, <1>3, <1>4, <1>5, <1>6, <1>7

\* The answer put on the ring adds its vCPU to those that have one.
LEMMA HandleVCpus ==
  ASSUME TypeOK, IndicesInOrder, PassInv, Handle
  PROVE  Requesting' = Requesting /\ Answering' = Answering \cup {req}
  <1>1. /\ Answers' = Answers + 1 /\ Waits' = Waits /\ Answers \in Nat
        /\ \A k \in 0 .. Answers - 1 :
             ring'[Slot(Plus(rsp_cons, k))] = ring[Slot(Plus(rsp_cons, k))]
        /\ \A k \in 0 .. Waits - 1 :
             ring'[Slot(Plus(req_cons, k))] = ring[Slot(Plus(req_cons, k))]
        /\ ring'[Slot(Plus(rsp_cons, Answers))] = Response(req)
        /\ UNCHANGED <<req_cons, rsp_cons>>
    BY HandleTaken, AnswerEffect, Layout DEF Handle, ResponsesKept, RequestsKept
  <1>2. Response(req).vcpu = req
    BY DEF Response
  <1>3. 0 .. Answers' - 1 = (0 .. Answers - 1) \cup {Answers}
    BY <1>1
  <1> QED BY <1>1, <1>2, <1>3 DEF Requesting, Answering, VCpusFrom

\* What a call has to answer, over every step.
LEMMA ServedStep ==
  ASSUME TypeOK, IndicesInOrder, SlotsHoldTheirKind, PassInv, ServedInv, [Next]_vars
  PROVE  ServedInv'
  <1> USE DEF indices, channel, xen, locals
  <1>0. /\ ServedInv <=>
             (pc # "idle" /\ (version \/ vrc) =>
                served \subseteq Answering \cup (IF pc = "notify" THEN {}
                                                 ELSE Requesting \cup ({req} \ {None})))
        /\ ServedInv' <=>
             (pc' # "idle" /\ (version' \/ vrc') =>
                served' \subseteq Answering' \cup (IF pc' = "notify" THEN {}
                                                   ELSE Requesting' \cup ({req'} \ {None})))
    BY DEF ServedInv, Answering, Requesting
  <1>1. UNCHANGED <<ring, indices>> => UNCHANGED <<Answering, Requesting>>
    BY DEF Answering, Requesting, VCpusFrom, Answers, Waits
  <1>2. ASSUME NEW v \in VCpus, Trap(v) \/ Enqueue(v) PROVE ServedInv'
    <2>1. CASE PutRequest(v)
      <3>1. Requesting \subseteq Requesting' /\ Answering' = Answering
        BY <2>1, PutVCpus
      <3>2. UNCHANGED <<pc, version, vrc, served, req>>
        BY <2>1 DEF PutRequest
      <3> QED BY <1>0, <3>1, <3>2
    <2>2. CASE ~PutRequest(v)
      BY <1>0, <1>1, <1>2, <2>2 DEF Trap, Enqueue
    <2> QED BY <2>1, <2>2
  <1>3. ASSUME NEW timeout \in {0, 1}, EventsListen(timeout) PROVE ServedInv'
    <2>1. served' = Requesting /\ UNCHANGED <<ring, indices>> /\ pc' # "notify"
      BY <1>3 DEF EventsListen, Requesting, Waits
    <2> QED BY <1>0, <1>1, <2>1
  <1>4. CASE PollTimeout \/ PollFails \/ PollReady
    BY <1>0, <1>1, <1>4 DEF PollTimeout, PollFails, PollReady
  <1>5. CASE Unmask
    <2>1. /\ pc = "unmask" /\ pc' \in {"requests", "idle"}
          /\ UNCHANGED <<ring, indices, version, served, req>>
      BY <1>5 DEF Unmask
    <2>2. vrc
      BY <2>1 DEF PassInv
    <2> QED BY <1>0, <1>1, <2>1, <2>2
  <1>6. CASE GetRequest
    <2>1. Requesting = Requesting' \cup {req'} /\ Answering' = Answering
      BY <1>6, TakeVCpus DEF GetRequest, TakeStep
    <2>2. pc = "requests" /\ req = None
      BY <1>6 DEF GetRequest, TypeOK
    <2>3. /\ UNCHANGED <<version, vrc, served>>
          /\ pc' = "handle" /\ version
      BY <1>6 DEF GetRequest
    <2>4. req' # None
      <3>1. Waits > 0
        BY <1>6, TakeEffect DEF GetRequest
      <3> QED BY <1>6, <3>1, FirstRequest, NoneAssumption DEF GetRequest
    <2> QED BY <1>0, <2>1, <2>2, <2>3, <2>4
  <1>7. CASE OtherVersion
    BY <1>0, <1>7 DEF OtherVersion
  <1>8. CASE Handle
    <2>1. Requesting' = Requesting /\ Answering' = Answering \cup {req}
      BY <1>8, HandleVCpus
    <2>2. version /\ version' = version
      BY <1>8, HandleTaken DEF Handle
    <2>3. pc = "handle" /\ pc' = "requests" /\ served' = served
      BY <1>8 DEF Handle
    <2> QED BY <1>0, <2>1, <2>2, <2>3
  <1>9. CASE PassDone
    <2>1. Waits = 0 /\ req = None /\ pc = "requests"
      BY <1>9, PassEnd DEF PassDone, TypeOK
    <2>2. Requesting = {}
      BY <2>1 DEF Requesting, VCpusFrom
    <2>3. UNCHANGED <<ring, indices, version, vrc, served>>
      BY <1>9 DEF PassDone
    <2> QED BY <1>0, <1>1, <2>1, <2>2, <2>3
  <1>10. CASE Defer
    <2>1. pc = "deferred" /\ pc' = "requests" /\ UNCHANGED <<ring, indices, version, served, req>>
      BY <1>10 DEF Defer
    <2>2. version
      BY <2>1 DEF PassInv
    <2> QED BY <1>0, <1>1, <2>1, <2>2
  <1>11. CASE Notify
    BY <1>0, <1>11 DEF Notify
  <1>12. CASE UNCHANGED vars
    BY <1>0, <1>1, <1>12 DEF vars
  <1> QED
    BY <1>2, <1>3, <1>4, <1>5, <1>6, <1>7, <1>8, <1>9, <1>10, <1>11, <1>12
    DEF Next, Listener

-----------------------------------------------------------------------------
(* The theorems. *)

\* All parts of the invariant together.
LEMMA Invariant == Spec => []IInv
  <1>1. ASSUME Init PROVE IInv
    <2>0. 0 \in Index /\ Minus(0, 0) = 0
      <3>1. 0 \in Index
        BY SizeAssumption DEF Index
      <3> QED BY <3>1, MinusZero
    <2>1. ring \in [0 .. Size - 1 -> [rsp : BOOLEAN, vcpu : VCpus] \cup {None}]
      BY <1>1 DEF Init
    <2>2. TypeOK
      <3>1. version \in Versions /\ waiting = {} /\ blocked = {} /\ served = {}
        BY <1>1 DEF Init
      <3>2. /\ port = FALSE /\ masked = FALSE /\ paused = FALSE /\ second = FALSE
            /\ deferred = FALSE /\ vrc = TRUE
        BY <1>1 DEF Init
      <3>3. /\ req_prod \in Index /\ rsp_prod \in Index
            /\ req_cons \in Index /\ rsp_cons \in Index
            /\ pc = "idle" /\ req = None
        BY <1>1, <2>0 DEF Init
      <3> QED BY <2>1, <3>1, <3>2, <3>3 DEF TypeOK
    <2>3. Answers = 0 /\ Taken = 0 /\ Waits = 0 /\ Minus(req_prod, rsp_cons) = 0
      BY <1>1, <2>0 DEF Init, Answers, Taken, Waits
    <2>4. IndicesInOrder /\ SlotsHoldTheirKind
      BY <2>3, SizeAssumption DEF IndicesInOrder, SlotsHoldTheirKind, Answers, Taken, Waits
    <2>5. PassInv /\ PortInv /\ ServedInv
      BY <1>1, <2>3 DEF Init, PassInv, PortInv, ServedInv
    <2> QED BY <2>2, <2>4, <2>5 DEF IInv, InOrder
  <1>2. ASSUME IInv, [Next]_vars PROVE IInv'
    BY <1>2, TypeStep, OrderStep, PassStep, PortStep, ServedStep DEF IInv, InOrder
  <1> QED BY <1>1, <1>2, PTL DEF Spec

(***************************************************************************)
(* Whatever the 32-bit indices have come to, requests and responses keep   *)
(* to their own slots of the shared ring (get_request, put_response).      *)
(***************************************************************************)
THEOREM RingInOrder == Spec => []InOrder
  <1>1. IInv => InOrder
    BY DEF IInv
  <1> QED BY <1>1, Invariant, PTL

(***************************************************************************)
(* No request is left on the ring without the event that wakes the next    *)
(* poll, unless unmasking failed (wait_for_event_or_timeout).              *)
(***************************************************************************)
THEOREM RequestsWake == Spec => []WakesUp
  <1>1. IInv => WakesUp
    BY DEF IInv, PortInv, WakesUp
  <1> QED BY <1>1, Invariant, PTL

(***************************************************************************)
(* xen_events_listen_48 returns VMI_SUCCESS only if every vCPU whose       *)
(* request was on the ring when it was called has been answered and let go *)
(* by Xen.                                                                 *)
(***************************************************************************)
THEOREM SuccessServes == Spec => ServedOnSuccess
  <1>1. ASSUME IInv, [Next]_vars, pc # "idle", pc' = "idle", vrc'
        PROVE  served \cap blocked' = {}
    <2>1. Notify
      <3>1. CASE PollFails
        BY <1>1, <3>1 DEF PollFails
      <3>2. CASE Unmask
        <4>1. PICK ok \in BOOLEAN : pc' = (IF ok THEN "requests" ELSE "idle") /\ vrc' = ok
          BY <3>2 DEF Unmask, Result
        <4> QED BY <1>1, <4>1
      <3>3. CASE PollTimeout \/ PollReady \/ GetRequest \/ Handle \/ Defer
        BY <1>1, <3>3 DEF PollTimeout, PollReady, GetRequest, Handle, Defer
      <3>4. CASE OtherVersion \/ PassDone
        BY <1>1, <3>4 DEF OtherVersion, PassDone, EndOfPass
      <3>5. CASE \E timeout \in {0, 1} : EventsListen(timeout)
        BY <1>1, <3>5 DEF EventsListen
      <3>6. CASE \E v \in VCpus : Trap(v) \/ Enqueue(v)
        BY <1>1, <3>6 DEF Trap, Enqueue, PutRequest, locals
      <3>7. CASE UNCHANGED vars
        BY <1>1, <3>7 DEF vars, locals
      <3> QED BY <1>1, <3>1, <3>2, <3>3, <3>4, <3>5, <3>6, <3>7 DEF Next, Listener
    <2>2. Consume /\ vrc' = vrc /\ pc = "notify"
      BY <1>1, <2>1 DEF Notify
    <2>3. served \subseteq VCpusFrom(rsp_cons, Answers)
      BY <1>1, <2>2 DEF IInv, ServedInv
    <2> QED BY <2>2, <2>3 DEF Consume, Answers
  <1>2. ASSUME IInv, [Next]_vars
        PROVE  [pc # "idle" /\ pc' = "idle" /\ vrc' => served \cap blocked' = {}]_vars
    BY <1>1, <1>2
  <1> QED BY <1>2, Invariant, PTL DEF Spec, ServedOnSuccess

-----------------------------------------------------------------------------
(* The refinement. *)

Requests == Between(req_cons, req_prod)
Responses == Between(rsp_cons, rsp_prod)

\* The queues, element by element.
LEMMA Queues ==
  ASSUME InOrder
  PROVE  /\ Requests \in Seq(VCpus) /\ Len(Requests) = Waits
         /\ \A k \in 1 .. Waits : Requests[k] = ring[Slot(Plus(req_cons, k - 1))].vcpu
         /\ Responses \in Seq(VCpus) /\ Len(Responses) = Answers
         /\ \A k \in 1 .. Answers : Responses[k] = ring[Slot(Plus(rsp_cons, k - 1))].vcpu
  <1>1. /\ Waits \in Nat /\ Answers \in Nat /\ Waits < Width /\ Answers < Width
        /\ Width \in Nat /\ req_cons \in Index /\ rsp_cons \in Index
    BY Layout DEF InOrder, TypeOK
  <1>2. ASSUME NEW i \in Index, NEW k \in 0 .. Width - 1, ring[Slot(Plus(i, k))] # None
        PROVE  ring[Slot(Plus(i, k))].vcpu \in VCpus
    <2>1. Slot(Plus(i, k)) \in 0 .. Size - 1
      BY IndexType, SlotType
    <2> QED BY <1>2, <2>1 DEF InOrder, TypeOK
  <1>3. ASSUME NEW k \in 1 .. Waits PROVE ring[Slot(Plus(req_cons, k - 1))].vcpu \in VCpus
    <2>1. k - 1 \in 0 .. Waits - 1 /\ k - 1 \in 0 .. Width - 1
      BY <1>1
    <2>2. ring[Slot(Plus(req_cons, k - 1))] # None
      BY <2>1 DEF InOrder, SlotsHoldTheirKind, Waits
    <2> QED BY <1>1, <1>2, <2>1, <2>2
  <1>4. ASSUME NEW k \in 1 .. Answers PROVE ring[Slot(Plus(rsp_cons, k - 1))].vcpu \in VCpus
    <2>1. k - 1 \in 0 .. Answers - 1 /\ k - 1 \in 0 .. Width - 1
      BY <1>1
    <2>2. ring[Slot(Plus(rsp_cons, k - 1))] # None
      BY <2>1 DEF InOrder, SlotsHoldTheirKind, Answers
    <2> QED BY <1>1, <1>2, <2>1, <2>2
  <1>5. Requests = [k \in 1 .. Waits |-> ring[Slot(Plus(req_cons, k - 1))].vcpu]
    BY DEF Requests, Between, Waits
  <1>6. Responses = [k \in 1 .. Answers |-> ring[Slot(Plus(rsp_cons, k - 1))].vcpu]
    BY DEF Responses, Between, Answers
  <1>7. Requests \in Seq(VCpus) /\ Len(Requests) = Waits
    BY <1>1, <1>3, <1>5
  <1>8. Responses \in Seq(VCpus) /\ Len(Responses) = Answers
    BY <1>1, <1>4, <1>6
  <1> QED BY <1>5, <1>6, <1>7, <1>8

\* A request is appended to the queue of requests.
LEMMA QueuePut ==
  ASSUME InOrder, InOrder', NEW v \in VCpus, PutRequest(v)
  PROVE  Requests' = Append(Requests, v) /\ Responses' = Responses
  <1>1. /\ Waits \in Nat /\ Answers \in Nat
        /\ Answers' = Answers /\ Waits' = Waits + 1
        /\ \A k \in 0 .. Answers - 1 :
             ring'[Slot(Plus(rsp_cons, k))] = ring[Slot(Plus(rsp_cons, k))]
        /\ \A k \in 0 .. Waits - 1 :
             ring'[Slot(Plus(req_cons, k))] = ring[Slot(Plus(req_cons, k))]
        /\ ring'[Slot(Plus(req_cons, Waits))] = Request(v)
        /\ UNCHANGED <<req_cons, rsp_cons>>
    BY PutEffect, Layout DEF InOrder, PutRequest, ResponsesKept, RequestsKept
  <1>2. Request(v).vcpu = v
    BY DEF Request
  <1>3. Requests' = Append(Requests, v)
    <2>1. /\ Requests \in Seq(VCpus) /\ Len(Requests) = Waits
          /\ \A k \in 1 .. Waits : Requests[k] = ring[Slot(Plus(req_cons, k - 1))].vcpu
      BY Queues
    <2>2. /\ Requests' \in Seq(VCpus) /\ Len(Requests') = Waits'
          /\ \A k \in 1 .. Waits' : Requests'[k] = ring'[Slot(Plus(req_cons', k - 1))].vcpu
      <3>1. (/\ Requests \in Seq(VCpus) /\ Len(Requests) = Waits
             /\ \A k \in 1 .. Waits :
                  Requests[k] = ring[Slot(Plus(req_cons, k - 1))].vcpu)'
        BY Queues, PTL
      <3> QED BY <3>1
    <2>3. ASSUME NEW k \in 1 .. Waits' PROVE Requests'[k] = Append(Requests, v)[k]
      <3>1. CASE k = Waits + 1
        <4>1. k - 1 = Waits
          BY <1>1, <3>1
        <4> QED BY <1>1, <1>2, <2>1, <2>2, <3>1, <4>1
      <3>2. CASE k # Waits + 1
        <4>1. k \in 1 .. Waits /\ k - 1 \in 0 .. Waits - 1
          BY <1>1, <3>2
        <4>2. Append(Requests, v)[k] = Requests[k]
          BY <2>1, <4>1
        <4> QED BY <1>1, <2>1, <2>2, <4>1, <4>2
      <3> QED BY <3>1, <3>2
    <2>4. Append(Requests, v) \in Seq(VCpus) /\ Len(Append(Requests, v)) = Waits'
      BY <1>1, <2>1
    <2> QED BY <2>2, <2>3, <2>4, SeqEqual
  <1>4. Responses' = Responses
    <2>1. \A k \in 1 .. Answers : k - 1 \in 0 .. Answers - 1
      BY <1>1
    <2>2. Responses' = [k \in 1 .. Answers' |-> ring'[Slot(Plus(rsp_cons', k - 1))].vcpu]
      BY DEF Responses, Between, Answers
    <2>3. Responses = [k \in 1 .. Answers |-> ring[Slot(Plus(rsp_cons, k - 1))].vcpu]
      BY DEF Responses, Between, Answers
    <2> QED BY <1>1, <2>1, <2>2, <2>3
  <1> QED BY <1>3, <1>4

\* A request is taken from the queue of requests.
LEMMA QueueTake ==
  ASSUME InOrder, InOrder', TakeStep
  PROVE  /\ Requests # <<>> /\ Requests' = Tail(Requests)
         /\ ring[Slot(req_cons)].vcpu = Head(Requests)
         /\ Responses' = Responses
  <1>1. /\ Waits \in Nat /\ Waits > 0 /\ Waits' = Waits - 1 /\ Answers' = Answers
        /\ \A k \in 0 .. Waits - 2 : Plus(req_cons', k) = Plus(req_cons, k + 1)
        /\ Plus(req_cons, 0) = req_cons
        /\ UNCHANGED <<ring, rsp_cons>>
    <2>1. Plus(req_cons, 0) = req_cons
      BY MinusZero DEF InOrder, TypeOK
    <2> QED BY <2>1, TakeEffect, Layout DEF InOrder, TakeStep
  <1>2. /\ Requests \in Seq(VCpus) /\ Len(Requests) = Waits
        /\ \A k \in 1 .. Waits : Requests[k] = ring[Slot(Plus(req_cons, k - 1))].vcpu
    BY Queues
  <1>3. /\ Requests' \in Seq(VCpus) /\ Len(Requests') = Waits'
        /\ \A k \in 1 .. Waits' : Requests'[k] = ring'[Slot(Plus(req_cons', k - 1))].vcpu
    <2>1. (/\ Requests \in Seq(VCpus) /\ Len(Requests) = Waits
           /\ \A k \in 1 .. Waits :
                Requests[k] = ring[Slot(Plus(req_cons, k - 1))].vcpu)'
      BY Queues, PTL
    <2> QED BY <2>1
  <1>4. /\ Tail(Requests) \in Seq(VCpus) /\ Len(Tail(Requests)) = Waits - 1
        /\ \A k \in 1 .. Waits - 1 : Tail(Requests)[k] = Requests[k + 1]
    BY <1>1, <1>2
  <1>5. ASSUME NEW k \in 1 .. Waits' PROVE Requests'[k] = Tail(Requests)[k]
    <2>1. k - 1 \in 0 .. Waits - 2 /\ (k - 1) + 1 = k /\ (k + 1) - 1 = k
            /\ k + 1 \in 1 .. Waits /\ k \in 1 .. Waits - 1
      BY <1>1
    <2>2. Requests'[k] = ring[Slot(Plus(req_cons, k))].vcpu
      BY <1>1, <1>3, <2>1
    <2>3. Requests[k + 1] = ring[Slot(Plus(req_cons, k))].vcpu
      BY <1>2, <2>1
    <2> QED BY <1>4, <2>1, <2>2, <2>3
  <1>6. Requests' = Tail(Requests)
    BY <1>1, <1>3, <1>4, <1>5, SeqEqual
  <1>7. Requests # <<>> /\ Head(Requests) = ring[Slot(req_cons)].vcpu
    <2>1. 1 \in 1 .. Waits /\ 1 - 1 = 0
      BY <1>1
    <2> QED BY <1>1, <1>2, <2>1
  <1>8. Responses' = Responses
    BY <1>1 DEF Responses, Between, Answers
  <1> QED BY <1>6, <1>7, <1>8

\* A response is appended to the queue of responses.
LEMMA QueueAnswer ==
  ASSUME InOrder, InOrder', PassInv, Handle
  PROVE  Requests' = Requests /\ Responses' = Append(Responses, req)
  <1>1. /\ Waits \in Nat /\ Answers \in Nat /\ req \in VCpus
        /\ Answers' = Answers + 1 /\ Waits' = Waits
        /\ \A k \in 0 .. Answers - 1 :
             ring'[Slot(Plus(rsp_cons, k))] = ring[Slot(Plus(rsp_cons, k))]
        /\ \A k \in 0 .. Waits - 1 :
             ring'[Slot(Plus(req_cons, k))] = ring[Slot(Plus(req_cons, k))]
        /\ ring'[Slot(Plus(rsp_cons, Answers))] = Response(req)
        /\ UNCHANGED <<req_cons, rsp_cons>>
    BY HandleTaken, AnswerEffect, Layout DEF InOrder, Handle, ResponsesKept, RequestsKept
  <1>2. Response(req).vcpu = req
    BY DEF Response
  <1>3. /\ Responses \in Seq(VCpus) /\ Len(Responses) = Answers
        /\ \A k \in 1 .. Answers : Responses[k] = ring[Slot(Plus(rsp_cons, k - 1))].vcpu
    BY Queues
  <1>4. /\ Responses' \in Seq(VCpus) /\ Len(Responses') = Answers'
        /\ \A k \in 1 .. Answers' : Responses'[k] = ring'[Slot(Plus(rsp_cons', k - 1))].vcpu
    <2>1. (/\ Responses \in Seq(VCpus) /\ Len(Responses) = Answers
           /\ \A k \in 1 .. Answers :
                Responses[k] = ring[Slot(Plus(rsp_cons, k - 1))].vcpu)'
      BY Queues, PTL
    <2> QED BY <2>1
  <1>5. ASSUME NEW k \in 1 .. Answers' PROVE Responses'[k] = Append(Responses, req)[k]
    <2>1. CASE k = Answers + 1
      <3>1. k - 1 = Answers
        BY <1>1, <2>1
      <3> QED BY <1>1, <1>2, <1>3, <1>4, <2>1, <3>1
    <2>2. CASE k # Answers + 1
      <3>1. k \in 1 .. Answers /\ k - 1 \in 0 .. Answers - 1
        BY <1>1, <2>2
      <3>2. Append(Responses, req)[k] = Responses[k]
        BY <1>3, <3>1
      <3> QED BY <1>1, <1>3, <1>4, <3>1, <3>2
    <2> QED BY <2>1, <2>2
  <1>6. Append(Responses, req) \in Seq(VCpus) /\ Len(Append(Responses, req)) = Answers'
    BY <1>1, <1>3
  <1>7. Responses' = Append(Responses, req)
    BY <1>4, <1>5, <1>6, SeqEqual
  <1>8. Requests' = Requests
    <2>1. \A k \in 1 .. Waits : k - 1 \in 0 .. Waits - 1
      BY <1>1
    <2>2. Requests' = [k \in 1 .. Waits' |-> ring'[Slot(Plus(req_cons', k - 1))].vcpu]
      BY DEF Requests, Between, Waits
    <2>3. Requests = [k \in 1 .. Waits |-> ring[Slot(Plus(req_cons, k - 1))].vcpu]
      BY DEF Requests, Between, Waits
    <2> QED BY <1>1, <2>1, <2>2, <2>3
  <1> QED BY <1>7, <1>8

\* Every step is one of the two queues, or leaves them alone.
LEMMA QueueStep ==
  ASSUME InOrder, InOrder', PassInv, [Next]_vars
  PROVE  [Queue!Next]_<<Requests, req, Responses>>
  <1>1. UNCHANGED <<ring, indices>> => UNCHANGED <<Requests, Responses>>
    BY DEF indices, Requests, Responses, Between
  <1>2. ASSUME NEW v \in VCpus, PutRequest(v) PROVE Queue!Put(v)
    BY <1>2, QueuePut DEF PutRequest, locals, Queue!Put, Requests, Responses
  <1>3. CASE GetRequest
    <2>1. TakeStep /\ req' = ring[Slot(req_cons)].vcpu /\ pc = "requests"
      BY <1>3 DEF GetRequest, TakeStep
    <2>2. req = None
      BY <2>1 DEF InOrder, TypeOK
    <2>3. Queue!Take
      BY <2>1, <2>2, QueueTake DEF Queue!Take, Requests, Responses
    <2> QED BY <2>3 DEF Queue!Next
  <1>4. CASE OtherVersion
    <2>1. TakeStep /\ req' = req /\ pc = "requests"
      BY <1>4 DEF OtherVersion, TakeStep
    <2>2. req = None
      BY <2>1 DEF InOrder, TypeOK
    <2>3. Queue!Drop
      BY <2>1, <2>2, QueueTake DEF Queue!Drop, Requests, Responses
    <2> QED BY <2>3 DEF Queue!Next
  <1>5. CASE Handle
    <2>1. req # None /\ req' = None
      BY <1>5 DEF Handle, InOrder, TypeOK
    <2>2. Queue!Answer
      BY <1>5, <2>1, QueueAnswer DEF Queue!Answer, Requests, Responses
    <2> QED BY <2>2 DEF Queue!Next
  <1>6. CASE Notify /\ ConsumeStep
    <2>1. Answers' = 0 /\ req' = req
      BY <1>6, ConsumeEffect DEF Notify, ConsumeStep, Consume, InOrder
    <2>2. Requests' = Requests
      BY <1>6 DEF ConsumeStep, Requests, Between
    <2>3. Responses' = <<>>
      BY <2>1 DEF Responses, Between, Answers
    <2>4. Queue!Consume
      BY <2>1, <2>2, <2>3 DEF Queue!Consume, Requests, Responses
    <2> QED BY <2>4 DEF Queue!Next
  <1>7. CASE UNCHANGED <<ring, indices, req>>
    BY <1>1, <1>7
  <1>8. ASSUME NEW v \in VCpus, Trap(v) \/ Enqueue(v)
        PROVE  [Queue!Next]_<<Requests, req, Responses>>
    BY <1>2, <1>7, <1>8 DEF Trap, Enqueue, locals, Queue!Next
  <1>9. CASE Notify
    BY <1>6, <1>7, <1>9 DEF Notify, ConsumeStep, indices
  <1>10. CASE \E timeout \in {0, 1} : EventsListen(timeout)
    BY <1>7, <1>10 DEF EventsListen
  <1>11. CASE PollTimeout \/ PollFails \/ PollReady \/ Unmask \/ PassDone \/ Defer
    BY <1>7, <1>11 DEF PollTimeout, PollFails, PollReady, Unmask, PassDone, Defer
  <1>12. CASE UNCHANGED vars
    BY <1>7, <1>12 DEF vars, locals
  <1> QED
    BY <1>3, <1>4, <1>5, <1>8, <1>9, <1>10, <1>11, <1>12 DEF Next, Listener

(***************************************************************************)
(* The shared ring implements the two queues that Xen and the listener     *)
(* expect: no message is lost, repeated or overtaken by another.           *)
(***************************************************************************)
THEOREM RingIsTwoQueues == Spec => QueueSpec
  <1>1. ASSUME Init PROVE Queue!Init
    <2>1. 0 \in Index /\ Minus(0, 0) = 0
      <3>1. 0 \in Index
        BY SizeAssumption DEF Index
      <3> QED BY <3>1, MinusZero
    <2>2. Between(0, 0) = <<>>
      BY <2>1 DEF Between
    <2>3. Between(req_cons, req_prod) = Between(0, 0) /\ Between(rsp_cons, rsp_prod) = Between(0, 0)
      BY <1>1 DEF Init
    <2> QED BY <1>1, <2>2, <2>3 DEF Init, Queue!Init
  <1>2. ASSUME IInv, IInv', [Next]_vars
        PROVE  [Queue!Next]_<<Requests, req, Responses>>
    BY <1>2, QueueStep DEF IInv
  <1>3. ASSUME [Queue!Next]_<<Requests, req, Responses>>
        PROVE  [Queue!Next]_<<Between(req_cons, req_prod), req, Between(rsp_cons, rsp_prod)>>
    BY <1>3 DEF Requests, Responses
  <1> QED BY <1>1, <1>2, <1>3, Invariant, PTL DEF Spec, QueueSpec, Queue!Spec
=============================================================================
