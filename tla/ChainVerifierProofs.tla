-------------------------- MODULE ChainVerifierProofs --------------------------
(***************************************************************************)
(* The verifier's loop computes the reference reading of the chain, for    *)
(* every table; so a serving process accepts all that is stored up to the  *)
(* first migrated row with a blank request, and finds the first row of an  *)
(* edit behind its back if a hash was taken of what it changed.            *)
(***************************************************************************)
EXTENDS AuditChainProofs, ChainTampering, SequenceTheorems, WellFoundedInduction

-----------------------------------------------------------------------------
(* Least elements.  A property of all naturals is proved by taking the     *)
(* least one that does not have it.                                        *)

Less == {pair \in Nat \X Nat : pair[1] < pair[2]}

\* The order of the naturals has no infinite descent.
LEMMA LessIsWellFounded == IsWellFoundedOn(Less, Nat)
<1>1. Less \cap (Nat \X Nat) \subseteq OpToRel(<, Nat)
  BY Zenon DEF Less, OpToRel
<1> QED
  BY <1>1, NatLessThanWellFounded, IsWellFoundedOnSubrelation, Zenon

\* Every set of naturals with an element has a least one.
LEMMA LeastNatural ==
    ASSUME NEW T \in SUBSET Nat, T # {}
    PROVE  \E x \in T : \A y \in T : x <= y
<1>1. PICK x \in T : \A y \in T : ~ (<<y, x>> \in Less)
  BY LessIsWellFounded, WFMin, Zenon
<1>2. ASSUME NEW y \in T PROVE x <= y
  <2>1. x \in Nat /\ y \in Nat
    OBVIOUS
  <2>2. <<y, x>> \in Nat \X Nat
    BY <2>1
  <2>3. ~ (<<y, x>>[1] < <<y, x>>[2])
    BY <1>1, <2>2 DEF Less
  <2> QED
    BY <2>1, <2>3
<1> QED
  BY <1>2

-----------------------------------------------------------------------------
(* The verifier's loop *)

\* The broken ones among the first n rows.
BrokenIn(t, n) == {i \in 1 .. n : ~ RowValid(t[i], DigestBefore(t, i))}

\* The outcome that the loop should have over the first n rows.
Verdict(t, n) ==
    IF BrokenIn(t, n) = {}
    THEN [valid |-> TRUE, checked_records |-> n,
          first_invalid_run_id |-> NoRun, head_record_sha256 |-> DigestBefore(t, n + 1)]
    ELSE [valid |-> FALSE, checked_records |-> Min(BrokenIn(t, n)),
          first_invalid_run_id |-> t[Min(BrokenIn(t, n))].run_id,
          head_record_sha256 |-> DigestBefore(t, Min(BrokenIn(t, n)))]

\* What Min stands for.
LEMMA MinIsLeast ==
    ASSUME NEW T \in SUBSET Nat, T # {}
    PROVE  Min(T) \in T /\ \A y \in T : Min(T) <= y
  BY LeastNatural DEF Min

\* There is only one least element.
LEMMA LeastIsMin ==
    ASSUME NEW T \in SUBSET Nat, NEW x \in T, \A y \in T : x <= y
    PROVE  Min(T) = x
<1>1. Min(T) \in T /\ \A y \in T : Min(T) <= y
  BY MinIsLeast
<1>2. Min(T) <= x /\ x <= Min(T)
  BY <1>1
<1>3. x \in Nat /\ Min(T) \in Nat
  BY <1>1
<1> QED
  BY <1>2, <1>3

\* What the recursive definition in VerifyChainRows asks of a function.
IsWalk(walk, t) ==
    walk = [i \in 0 .. Len(t) |-> IF i = 0 THEN Unread ELSE ReadRow(walk[i - 1], t[i])]

\* The verifier picks such a function.
LEMMA VerifyIsWalk ==
    ASSUME NEW t PROVE VerifyChainRows(t) = (CHOOSE walk : IsWalk(walk, t))[Len(t)]
  BY Zenon DEF VerifyChainRows, IsWalk

\* Before the first row the outcome is the loop's initial one.
LEMMA VerdictOfNothing ==
    ASSUME NEW t PROVE Verdict(t, 0) = Unread
<1>1. BrokenIn(t, 0) = {}
  BY DEF BrokenIn
<1> QED
  BY <1>1 DEF Verdict, Unread, DigestBefore

\* A broken row ends the loop.
LEMMA ReadRowAfterBroken ==
    ASSUME NEW before, before.valid = FALSE, NEW row
    PROVE  ReadRow(before, row) = before
  BY Zenon DEF ReadRow

\* One pass of the loop leads from the outcome over n - 1 rows to that over n.
LEMMA VerdictOfOneMore ==
    ASSUME NEW t, NEW n \in Nat \ {0}
    PROVE  Verdict(t, n) = ReadRow(Verdict(t, n - 1), t[n])
<1> DEFINE before == BrokenIn(t, n - 1)
           now == BrokenIn(t, n)
           valid == RowValid(t[n], DigestBefore(t, n))
<1>1. before \in SUBSET Nat /\ now \in SUBSET Nat /\ n \notin before
  BY DEF BrokenIn
<1>2. now = IF valid THEN before ELSE before \union {n}
  BY DEF BrokenIn
<1>3. \A i \in before : i < n
  BY DEF BrokenIn
<1>4. CASE before # {}
  <2>1. Min(before) \in now /\ \A y \in now : Min(before) <= y
    BY <1>1, <1>2, <1>3, <1>4, MinIsLeast
  <2>2. now # {} /\ Min(now) = Min(before)
    BY <1>1, <2>1, LeastIsMin
  <2>3. Verdict(t, n) = Verdict(t, n - 1)
    BY <1>4, <2>2 DEF Verdict
  <2>4. Verdict(t, n - 1).valid = FALSE
    BY <1>4 DEF Verdict
  <2> QED
    BY <2>3, <2>4, ReadRowAfterBroken
<1>5. CASE before = {}
  <2>1. /\ Verdict(t, n - 1).valid = TRUE
        /\ Verdict(t, n - 1).checked_records = n - 1
        /\ Verdict(t, n - 1).head_record_sha256 = DigestBefore(t, n)
    BY <1>5 DEF Verdict
  <2>0. n - 1 + 1 = n
    OBVIOUS
  <2>2. CASE valid
    <3>1. DigestBefore(t, n + 1) = t[n].record_sha256
      BY DEF DigestBefore
    <3>2. Verdict(t, n) =
            [valid |-> TRUE, checked_records |-> n,
             first_invalid_run_id |-> NoRun, head_record_sha256 |-> t[n].record_sha256]
      BY <1>2, <1>5, <2>2, <3>1 DEF Verdict
    <3>3. t[n].record_sha256 = RecordHash(DigestBefore(t, n), MaterialOf(t[n]))
      BY <2>2 DEF RowValid
    <3> QED
      BY <2>0, <2>1, <2>2, <3>2, <3>3, Zenon DEF ReadRow
  <2>3. CASE ~ valid
    <3>1. now = {n} /\ Min(now) = n
      BY <1>2, <1>5, <2>3, LeastIsMin
    <3>2. Verdict(t, n) =
            [valid |-> FALSE, checked_records |-> n,
             first_invalid_run_id |-> t[n].run_id, head_record_sha256 |-> DigestBefore(t, n)]
      BY <3>1 DEF Verdict
    <3>3. ReadRow(Verdict(t, n - 1), t[n]) =
            [valid |-> FALSE, checked_records |-> n,
             first_invalid_run_id |-> t[n].run_id, head_record_sha256 |-> DigestBefore(t, n)]
      BY <2>0, <2>1, <2>3, Zenon DEF ReadRow
    <3> QED
      BY <3>2, <3>3
  <2> QED
    BY <2>2, <2>3
<1> QED
  BY <1>4, <1>5

\* There is a function as the recursive definition asks for.
LEMMA VerdictWalks ==
    ASSUME NEW t, Len(t) \in Nat
    PROVE  IsWalk([n \in 0 .. Len(t) |-> Verdict(t, n)], t)
<1> DEFINE walk == [n \in 0 .. Len(t) |-> Verdict(t, n)]
<1>1. ASSUME NEW n \in 0 .. Len(t)
      PROVE  Verdict(t, n) = IF n = 0 THEN Unread ELSE ReadRow(walk[n - 1], t[n])
  <2>1. CASE n = 0
    BY <2>1, VerdictOfNothing
  <2>2. CASE n # 0
    <3>1. n \in Nat \ {0} /\ n - 1 \in 0 .. Len(t)
      BY <2>2
    <3>2. walk[n - 1] = Verdict(t, n - 1)
      BY <3>1
    <3> QED
      BY <2>2, <3>1, <3>2, VerdictOfOneMore
  <2> QED
    BY <2>1, <2>2
<1>2. walk = [i \in 0 .. Len(t) |-> IF i = 0 THEN Unread ELSE ReadRow(walk[i - 1], t[i])]
  BY <1>1, Zenon
<1> QED
  BY <1>2 DEF IsWalk

\* There is no other: at the least place where two differed, one pass would
\* tell them apart.
LEMMA WalksAgree ==
    ASSUME NEW t, Len(t) \in Nat, NEW walk, IsWalk(walk, t),
           NEW n \in 0 .. Len(t)
    PROVE  walk[n] = Verdict(t, n)
<1> DEFINE wrong == {i \in 0 .. Len(t) : walk[i] # Verdict(t, i)}
<1>1. SUFFICES ASSUME wrong # {} PROVE FALSE
  OBVIOUS
<1>2. PICK i \in wrong : \A j \in wrong : i <= j
  <2>1. wrong \in SUBSET Nat
    OBVIOUS
  <2> HIDE DEF wrong
  <2> QED
    BY <1>1, <2>1, LeastNatural
<1>3. walk[i] = IF i = 0 THEN Unread ELSE ReadRow(walk[i - 1], t[i])
  BY Zenon DEF IsWalk
<1>4. i # 0
  BY <1>3, VerdictOfNothing
<1>5. i \in Nat \ {0} /\ i - 1 \in 0 .. Len(t) /\ i - 1 \notin wrong
  BY <1>2, <1>4
<1>6. walk[i - 1] = Verdict(t, i - 1)
  BY <1>5
<1> QED
  BY <1>3, <1>4, <1>5, <1>6, VerdictOfOneMore

\* The loop computes the reference reading, for every table.
LEMMA VerifierIsExact ==
    ASSUME NEW S, NEW t \in Seq(S)
    PROVE  VerifyChainRows(t) = VerdictOn(t, Broken(t))
<1>0. Len(t) \in Nat /\ (Len(t) = 0 <=> t = <<>>)
  OBVIOUS
<1> DEFINE walk == CHOOSE w : IsWalk(w, t)
<1>1. IsWalk(walk, t)
  BY <1>0, VerdictWalks, Zenon
<1> HIDE DEF walk
<1>2. walk[Len(t)] = Verdict(t, Len(t))
  BY <1>0, <1>1, WalksAgree
<1>3. VerifyChainRows(t) = Verdict(t, Len(t))
  BY <1>2, VerifyIsWalk DEF walk
<1>4. DigestBefore(t, Len(t) + 1) = HeadOf(t)
  BY <1>0 DEF DigestBefore, HeadOf
<1>5. BrokenIn(t, Len(t)) = Broken(t)
  BY DEF BrokenIn, Broken
<1> QED
  BY <1>3, <1>4, <1>5 DEF Verdict, VerdictOn

-----------------------------------------------------------------------------
(* What a serving process says of its table *)

\* A row that was sealed on a digest is valid there unless its request is
\* blank: then the stored digest is that of {} and the verifier's that of ''.
LEMMA SealedRowValid ==
    ASSUME NEW row \in Rows, NEW digest, SealedOn(row, digest)
    PROVE  RowValid(row, digest) <=> row.request_json # Blank
<1>1. CASE row.request_json # Blank
  BY <1>1, FilledRow DEF SealedOn
<1>2. CASE row.request_json = Blank
  <2>1. row.request_sha256 = Sha256Text(EmptyObject)
    BY <1>2, FilledRow DEF SealedOn, RowValid
  <2>2. Sha256Text(EmptyObject) # Sha256Text(row.request_json)
    BY <1>2, ColumnAssumption DEF Sha256Text
  <2> QED
    BY <1>2, <2>1, <2>2 DEF RowValid
<1> QED
  BY <1>1, <1>2

\* Of a chain the verifier rejects exactly the rows whose request is blank.
LEMMA ChainVerdict ==
    ASSUME NEW t \in Seq(Rows), Chain(t)
    PROVE  VerifyChainRows(t) = VerdictOn(t, BlankRequests(t))
<1>1. ASSUME NEW i \in 1 .. Len(t)
      PROVE  RowValid(t[i], DigestBefore(t, i)) <=> t[i].request_json # Blank
  BY SealedRowValid DEF Chain
<1>2. Broken(t) = BlankRequests(t)
  BY <1>1 DEF Broken, BlankRequests
<1> QED
  BY <1>2, VerifierIsExact

\* A process that answers requests has the whole schema and both triggers
\* under it, and however many threads, processes, clocks and migrations were
\* at work, verification accepts every row before the first migrated one whose
\* request is blank, and names that one.
THEOREM ServingProcessVerifies == Spec => []ServingVerifies
<1>1. IInv /\ ColumnsInv => ServingVerifies
  <2> SUFFICES ASSUME IInv, ColumnsInv, NEW s \in Services, service[s] = "serving"
               PROVE  /\ columns = Columns
                      /\ triggers = Kinds
                      /\ VerifyChainRows(rows) = VerdictOn(rows, BlankRequests(rows))
    BY Zenon DEF ServingVerifies
  <2>1. columns = Columns
    BY DEF ColumnsInv
  <2>2. triggers = Kinds
    BY DEF IInv, ProtectInv
  <2>3. rows \in Seq(Rows) /\ Chain(rows)
    BY <2>2 DEF IInv, TypeOK, ProtectInv, SealedChain, Kinds
  <2> QED
    BY <2>1, <2>2, <2>3, ChainVerdict
<1> QED
  BY <1>1, Invariance, SchemaComplete, PTL

-----------------------------------------------------------------------------
(* An edit breaks the chain where it begins *)

\* Row i is not valid on top of the row before it; the rows before are as they
\* were sealed.
Located(t, i) ==
    /\ \E S : t \in Seq(S)
    /\ i \in 1 .. Len(t)
    /\ ~ RowValid(t[i], DigestBefore(t, i))
    /\ \A j \in 1 .. i - 1 : t[j] \in Rows /\ SealedOn(t[j], DigestBefore(t, j))

Earlier(t, i) == {j \in BlankRequests(t) : j < i}

\* The verdict depends on the first of the broken rows only.
LEMMA SameVerdict ==
    ASSUME NEW t, NEW T \in SUBSET Nat, T # {}, NEW U \in SUBSET Nat, U # {}, Min(T) = Min(U)
    PROVE  VerdictOn(t, T) = VerdictOn(t, U)
  BY Zenon DEF VerdictOn

\* The verifier stops at that row and names it, or at a blank request before.
LEMMA LocatedVerdict ==
    ASSUME NEW t, NEW i, Located(t, i)
    PROVE  VerifyChainRows(t) = VerdictOn(t, Earlier(t, i) \union {i})
<1> DEFINE broken == Broken(t)
           named == Earlier(t, i) \union {i}
<1>1. PICK S : t \in Seq(S)
  BY DEF Located
<1>2. Len(t) \in Nat /\ i \in 1 .. Len(t)
  BY <1>1 DEF Located
<1>3. broken \in SUBSET (1 .. Len(t)) /\ i \in broken
  BY <1>2 DEF Located, Broken
<1>4. named \in SUBSET (1 .. i) /\ i \in named
  BY <1>2 DEF Earlier, BlankRequests
<1>5. ASSUME NEW j \in 1 .. i - 1 PROVE j \in broken <=> j \in named
  <2>1. t[j] \in Rows /\ SealedOn(t[j], DigestBefore(t, j)) /\ j \in 1 .. Len(t)
    BY <1>2 DEF Located
  <2>2. RowValid(t[j], DigestBefore(t, j)) <=> t[j].request_json # Blank
    BY <2>1, SealedRowValid
  <2> QED
    BY <1>2, <2>1, <2>2 DEF Broken, Earlier, BlankRequests
<1> HIDE DEF broken, named
<1>a. broken \in SUBSET Nat /\ named \in SUBSET Nat
  BY <1>2, <1>3, <1>4
<1>6. Min(named) \in named /\ \A y \in named : Min(named) <= y
  BY <1>4, <1>a, MinIsLeast
<1> DEFINE least == Min(named)
<1> HIDE DEF least
<1>b. least \in 1 .. i /\ least \in named /\ \A y \in named : least <= y
  BY <1>4, <1>6 DEF least
<1>c. least \in broken
  BY <1>2, <1>3, <1>5, <1>b
<1>d. ASSUME NEW y \in broken PROVE least <= y
  <2>1. CASE y < i
    BY <1>2, <1>3, <1>5, <1>b, <2>1
  <2>2. CASE y >= i
    BY <1>2, <1>3, <1>b, <2>2
  <2> QED
    BY <1>2, <1>3, <2>1, <2>2
<1>7. Min(named) \in broken /\ \A y \in broken : Min(named) <= y
  BY <1>c, <1>d DEF least
<1>8. Min(broken) = Min(named)
  BY <1>a, <1>7, LeastIsMin
<1>9. VerifyChainRows(t) = VerdictOn(t, broken)
  BY <1>1, VerifierIsExact DEF broken
<1> QED
  BY <1>3, <1>4, <1>a, <1>8, <1>9, SameVerdict DEF named

\* A row that is recorded later does not move it.
LEMMA LocatedAppend ==
    ASSUME NEW t, NEW i, Located(t, i), NEW row
    PROVE  Located(Append(t, row), i)
<1>1. PICK S : t \in Seq(S)
  BY DEF Located
<1>2. t \in Seq(S \union {row}) /\ row \in S \union {row}
  BY <1>1
<1>3. /\ Append(t, row) \in Seq(S \union {row})
      /\ Len(Append(t, row)) = Len(t) + 1
      /\ \A j \in 1 .. Len(t) : Append(t, row)[j] = t[j]
  BY <1>2
<1>4. Len(t) \in Nat /\ i \in 1 .. Len(t)
  BY <1>1 DEF Located
<1>5. \A j \in 1 .. i : DigestBefore(Append(t, row), j) = DigestBefore(t, j)
  BY <1>3, <1>4 DEF DigestBefore
<1> QED
  BY <1>3, <1>4, <1>5 DEF Located

\* What a row of a chain was sealed over.
LEMMA SealedRow ==
    ASSUME NEW row \in Rows, NEW digest, SealedOn(row, digest)
    PROVE  /\ row.previous_record_sha256 = digest
           /\ row.record_sha256 = RecordHash(digest, MaterialOf(Filled(row)))
           /\ row.request_sha256 = Sha256Text(Filled(row).request_json)
           /\ row.result_sha256 = Sha256Text(Canonical(row.result_json))
           /\ row.result_json \in Documents
<1>1. RowValid(Filled(row), digest)
  BY DEF SealedOn
<1> QED
  BY <1>1, FilledRow DEF RowValid, Rows

\* A digest grows by one with every record chained into it, and tells the last
\* one of them.
LEMMA DigestGrows ==
    ASSUME NEW digest \in Digests, NEW material
    PROVE  /\ Len(RecordHash(digest, material)) = Len(digest) + 1
           /\ RecordHash(digest, material)[Len(digest) + 1] = material
<1>1. digest \in Seq(Material \union {material}) /\ material \in Material \union {material}
  BY DEF Digests
<1> QED
  BY <1>1 DEF RecordHash

\* The digests along a chain: what the i-th row stores is i records long.
LEMMA DigestLength ==
    ASSUME NEW t \in Seq(Rows), SealedChain(t), NEW n \in 0 .. Len(t)
    PROVE  /\ DigestBefore(t, n + 1) \in Digests
           /\ Len(DigestBefore(t, n + 1)) = n
<1> DEFINE good(i) == DigestBefore(t, i + 1) \in Digests /\ Len(DigestBefore(t, i + 1)) = i
           wrong == {i \in 0 .. Len(t) : ~ good(i)}
<1>1. SUFFICES ASSUME wrong # {} PROVE FALSE
  OBVIOUS
<1>2. PICK i \in wrong : \A j \in wrong : i <= j
  <2>1. wrong \in SUBSET Nat
    OBVIOUS
  <2> HIDE DEF wrong
  <2> QED
    BY <1>1, <2>1, LeastNatural
<1>3. i \in 0 .. Len(t) /\ ~ good(i)
  OBVIOUS
<1>4. i # 0
  BY <1>3 DEF DigestBefore, GENESIS_HASH, Digests
<1>5. i \in 1 .. Len(t) /\ i - 1 \in 0 .. Len(t) /\ i - 1 \notin wrong
  BY <1>2, <1>3, <1>4
<1>6. DigestBefore(t, i) \in Digests /\ Len(DigestBefore(t, i)) = i - 1
  BY <1>5
<1>7. /\ DigestBefore(t, i + 1) = t[i].record_sha256
      /\ t[i].record_sha256 = RecordHash(DigestBefore(t, i), MaterialOf(Filled(t[i])))
      /\ t[i].record_sha256 \in Digests
  <2>1. t[i] \in Rows /\ SealedOn(t[i], DigestBefore(t, i)) /\ t[i].record_sha256 \in Digests
    BY <1>5 DEF SealedChain, Chain
  <2> QED
    BY <1>5, <2>1, SealedRow DEF DigestBefore
<1> QED
  BY <1>3, <1>6, <1>7, DigestGrows

\* An overwritten row has values of the columns in its columns.
LEMMA OverwrittenRows ==
    ASSUME rows \in Seq(Rows), SealedChain(rows), NEW row \in Rows, NEW new \in Overwritten(row)
    PROVE  new \in Rows
<1>1. \A i \in 1 .. Len(rows) : rows[i].record_sha256 \in Digests
  BY DEF SealedChain
<1>2. ASSUME NEW a \in {Blank} \union {rows[i].record_sha256 : i \in 1 .. Len(rows)}, NEW p \in Payloads
      PROVE  [body |-> p, audit |-> a] \in Documents
  BY <1>1, <1>2 DEF Documents
<1>3. ASSUME NEW x \in [body : Payloads,
                    audit : {Blank} \union {rows[i].record_sha256 : i \in 1 .. Len(rows)}]
      PROVE  x \in Documents
  BY <1>1 DEF Documents
<1> QED
  BY <1>1, <1>3 DEF Overwritten, Rows

\* No column of a valid row can be overwritten and leave it valid, unless the
\* result that is stored has the same canonical form.
LEMMA OverwriteValid ==
    ASSUME NEW row \in Rows, NEW digest \in Digests, RowValid(row, digest),
           NEW new \in Overwritten(row), RowValid(new, digest)
    PROVE  \/ new = row
           \/ \E x : new = [row EXCEPT !.result_json = x]
<1> SUFFICES ASSUME new # row, \A x : new # [row EXCEPT !.result_json = x] PROVE FALSE
  OBVIOUS
<1>1. /\ row.previous_record_sha256 = digest /\ new.previous_record_sha256 = digest
      /\ row.request_sha256 = Sha256Text(row.request_json)
      /\ new.request_sha256 = Sha256Text(new.request_json)
      /\ row.result_sha256 = Sha256Text(Canonical(row.result_json))
      /\ new.result_sha256 = Sha256Text(Canonical(new.result_json))
      /\ row.record_sha256 = RecordHash(digest, MaterialOf(row))
      /\ new.record_sha256 = RecordHash(digest, MaterialOf(new))
  BY DEF RowValid
<1>2. ASSUME new.record_sha256 = row.record_sha256 PROVE MaterialOf(new) = MaterialOf(row)
  <2>1. RecordHash(digest, MaterialOf(row))[Len(digest) + 1] = MaterialOf(row)
    BY DigestGrows
  <2>2. RecordHash(digest, MaterialOf(new))[Len(digest) + 1] = MaterialOf(new)
    BY DigestGrows
  <2> QED
    BY <1>1, <1>2, <2>1, <2>2
<1>3. ASSUME NEW x, new = [row EXCEPT !.run_id = x] PROVE FALSE
  <2>1. MaterialOf(new).run_id = x /\ MaterialOf(row).run_id = row.run_id
    BY <1>3 DEF MaterialOf, Rows
  <2>2. new.record_sha256 = row.record_sha256
    BY <1>3 DEF Rows
  <2> QED
    BY <1>2, <1>3, <2>1, <2>2 DEF Rows
<1>4. ASSUME NEW x, new = [row EXCEPT !.created_at = x] PROVE FALSE
  <2>1. MaterialOf(new).created_at = x /\ MaterialOf(row).created_at = row.created_at
    BY <1>4 DEF MaterialOf, Rows
  <2>2. new.record_sha256 = row.record_sha256
    BY <1>4 DEF Rows
  <2> QED
    BY <1>2, <1>4, <2>1, <2>2 DEF Rows
<1>5. ASSUME NEW x, new = [row EXCEPT !.labels = x] PROVE FALSE
  <2>1. MaterialOf(new).labels = x /\ MaterialOf(row).labels = row.labels
    BY <1>5 DEF MaterialOf, Rows
  <2>2. new.record_sha256 = row.record_sha256
    BY <1>5 DEF Rows
  <2> QED
    BY <1>2, <1>5, <2>1, <2>2 DEF Rows
<1>6. ASSUME NEW x, new = [row EXCEPT !.request_json = x] PROVE FALSE
  <2>1. new.request_sha256 = row.request_sha256 /\ new.request_json = x
    BY <1>6 DEF Rows
  <2>2. x = row.request_json
    BY <1>1, <2>1 DEF Sha256Text
  <2> QED
    BY <1>6, <2>2 DEF Rows
<1>7. ASSUME NEW x, new = [row EXCEPT !.result_json = x] PROVE FALSE
  BY <1>7
<1>8. ASSUME NEW x, new = [row EXCEPT !.request_sha256 = x] PROVE FALSE
  <2>1. new.request_json = row.request_json /\ new.request_sha256 = x
    BY <1>8 DEF Rows
  <2> QED
    BY <1>1, <1>8, <2>1 DEF Rows
<1>9. ASSUME NEW x, new = [row EXCEPT !.result_sha256 = x] PROVE FALSE
  <2>1. new.result_json = row.result_json /\ new.result_sha256 = x
    BY <1>9 DEF Rows
  <2> QED
    BY <1>1, <1>9, <2>1 DEF Rows
<1>10. ASSUME NEW x, new = [row EXCEPT !.record_sha256 = x] PROVE FALSE
  <2>1. MaterialOf(new) = MaterialOf(row) /\ new.record_sha256 = x
    BY <1>10 DEF MaterialOf, Rows
  <2> QED
    BY <1>1, <1>10, <2>1 DEF Rows
<1>11. ASSUME NEW x, new = [row EXCEPT !.previous_record_sha256 = x] PROVE FALSE
  <2>1. new.previous_record_sha256 = x
    BY <1>11 DEF Rows
  <2> QED
    BY <1>1, <1>11, <2>1 DEF Rows
<1> QED
  BY <1>3, <1>4, <1>5, <1>6, <1>7, <1>8, <1>9, <1>10, <1>11 DEF Overwritten

\* Two rows are sealed over the same if they differ in nothing but the text of
\* a result with the same canonical form.
LEMMA SameHashed ==
    ASSUME NEW row \in Rows, row.result_json \in Documents, NEW x \in Documents,
           NEW new, new = [row EXCEPT !.result_json = x], Canonical(x) = Canonical(row.result_json)
    PROVE  Hashed(new) = Hashed(row)
<1>1. new \in Rows /\ new.result_json = x /\ new.request_json = row.request_json
  BY DEF Rows
<1>2. x # Malformed /\ row.result_json # Malformed
  BY BlankAssumption
<1>3. Filled(new) = [Filled(row) EXCEPT !.result_json = x]
  BY <1>1 DEF Filled, Rows
<1>4. Filled(row) \in Rows /\ Filled(row).result_json = row.result_json
  BY FilledRow
<1>5. Hashed(new) = [Filled(new) EXCEPT !.result_json = Canonical(x)]
  BY <1>1, <1>2, FilledRow DEF Hashed
<1>6. Hashed(row) = [Filled(row) EXCEPT !.result_json = Canonical(x)]
  BY <1>2, <1>4 DEF Hashed
<1> QED
  BY <1>3, <1>4, <1>5, <1>6 DEF Rows

\* Every overwrite that the verifier lets pass left alone what was hashed.
LEMMA PassedUnhashed ==
    ASSUME rows \in Seq(Rows), SealedChain(rows),
           NEW row \in Rows, NEW digest \in Digests, SealedOn(row, digest),
           NEW new \in Overwritten(row), RowValid(new, digest)
    PROVE  Hashed(new) = Hashed(row)
<1>0. /\ row.request_sha256 = Sha256Text(Filled(row).request_json)
      /\ row.result_sha256 = Sha256Text(Canonical(row.result_json))
      /\ row.result_json \in Documents
      /\ new.request_sha256 = Sha256Text(new.request_json)
      /\ new.result_sha256 = Sha256Text(Canonical(new.result_json))
      /\ new.result_json # Malformed
  BY SealedRow DEF RowValid
<1>1. CASE row.request_json # Blank
  <2>1. RowValid(row, digest)
    BY <1>1, SealedRowValid
  <2>2. CASE new = row
    BY <2>2
  <2>3. CASE new # row
    <3>1. PICK x : new = [row EXCEPT !.result_json = x]
      BY <2>1, <2>3, OverwriteValid
    <3>2. new.result_json = x /\ new.result_sha256 = row.result_sha256
      BY <3>1 DEF Rows
    <3>3. Canonical(x) = Canonical(row.result_json)
      BY <1>0, <3>2 DEF Sha256Text
    <3>4. new.result_json \in Documents
      BY <1>0, OverwrittenRows DEF Rows
    <3> QED
      BY <1>0, <3>1, <3>2, <3>3, <3>4, SameHashed
  <2> QED
    BY <2>2, <2>3
<1>2. CASE row.request_json = Blank
  <2>1. Filled(row).request_json = EmptyObject
    BY <1>2, FilledRow
  <2>2. ASSUME NEW x, new = [row EXCEPT !.request_json = x] PROVE Hashed(new) = Hashed(row)
    <3>1. new.request_json = x /\ new.request_sha256 = row.request_sha256
      BY <2>2 DEF Rows
    <3>2. x = EmptyObject
      BY <1>0, <2>1, <3>1 DEF Sha256Text
    <3>3. Filled(new) = Filled(row)
      BY <1>2, <2>2, <3>2, ColumnAssumption DEF Filled, Rows
    <3> QED
      BY <3>3 DEF Hashed
  <2>3. ASSUME NEW x \in Payloads, new = [row EXCEPT !.request_sha256 = Sha256Text(x)] PROVE FALSE
    <3>1. new.request_json = Blank /\ new.request_sha256 = Sha256Text(x)
      BY <1>2, <2>3 DEF Rows
    <3> QED
      BY <1>0, <3>1, ColumnAssumption DEF Sha256Text
  <2>4. ASSUME new.request_json = row.request_json, new.request_sha256 = row.request_sha256
        PROVE  FALSE
    <3>1. Sha256Text(Blank) = Sha256Text(EmptyObject)
      BY <1>0, <1>2, <2>1, <2>4
    <3> QED
      BY <3>1, ColumnAssumption DEF Sha256Text
  <2> QED
    BY <2>2, <2>3, <2>4 DEF Overwritten, Rows
<1> QED
  BY <1>1, <1>2

\* An overwrite of what was not hashed leaves a row sealed where it was.
LEMMA UnhashedSealed ==
    ASSUME NEW row \in Rows, NEW digest, SealedOn(row, digest),
           NEW new \in Rows, Hashed(new) = Hashed(row)
    PROVE  /\ SealedOn(new, digest)
           /\ new.run_id = row.run_id
           /\ new.record_sha256 = row.record_sha256
<1>1. RowValid(Filled(row), digest) /\ row.result_json \in Documents
  BY SealedRow DEF SealedOn
<1>2. row.result_json # Malformed /\ Canonical(row.result_json) \in Payloads
  BY <1>1, BlankAssumption DEF Documents, Canonical
<1>3. /\ Filled(new) \in Rows /\ Filled(row) \in Rows
      /\ Filled(new).result_json = new.result_json /\ Filled(row).result_json = row.result_json
  BY FilledRow
<1>4. /\ Hashed(row).result_json = Canonical(row.result_json)
      /\ Hashed(new).result_json =
           (IF new.result_json = Malformed THEN Malformed ELSE Canonical(new.result_json))
  BY <1>2, <1>3 DEF Hashed, Rows
<1>5. new.result_json # Malformed /\ Canonical(new.result_json) = Canonical(row.result_json)
  BY <1>2, <1>4, ColumnAssumption
<1>6. /\ Filled(new).run_id = Filled(row).run_id
      /\ Filled(new).created_at = Filled(row).created_at
      /\ Filled(new).labels = Filled(row).labels
      /\ Filled(new).request_json = Filled(row).request_json
      /\ Filled(new).request_sha256 = Filled(row).request_sha256
      /\ Filled(new).result_sha256 = Filled(row).result_sha256
      /\ Filled(new).previous_record_sha256 = Filled(row).previous_record_sha256
      /\ Filled(new).record_sha256 = Filled(row).record_sha256
  BY <1>3 DEF Hashed, Rows
<1>7. MaterialOf(Filled(new)) = MaterialOf(Filled(row))
  BY <1>3, <1>5, <1>6 DEF MaterialOf
<1>8. RowValid(Filled(new), digest)
  BY <1>1, <1>3, <1>5, <1>6, <1>7 DEF RowValid
<1> QED
  BY <1>6, <1>8, FilledRow DEF SealedOn

\* A table with a new row in place of row i is broken there first.
LEMMA BrokenAt ==
    ASSUME NEW old \in Seq(Rows), SealedChain(old), NEW t, NEW S, t \in Seq(S),
           NEW i \in 1 .. Len(old), i <= Len(t),
           \A j \in 1 .. i - 1 : t[j] = old[j],
           ~ RowValid(t[i], DigestBefore(old, i))
    PROVE  Located(t, i)
<1>1. Len(old) \in Nat /\ Len(t) \in Nat
  OBVIOUS
<1>2. \A j \in 1 .. i : DigestBefore(t, j) = DigestBefore(old, j)
  BY <1>1 DEF DigestBefore
<1>3. \A j \in 1 .. i - 1 : old[j] \in Rows /\ SealedOn(old[j], DigestBefore(old, j))
  BY <1>1 DEF SealedChain, Chain
<1> QED
  BY <1>1, <1>2, <1>3 DEF Located

\* A row of a chain is not valid on the digest before another row.
LEMMA NotElsewhere ==
    ASSUME NEW t \in Seq(Rows), SealedChain(t),
           NEW i \in 1 .. Len(t), NEW j \in 1 .. Len(t), i # j
    PROVE  ~ RowValid(t[j], DigestBefore(t, i))
<1>1. t[j].previous_record_sha256 = DigestBefore(t, j)
  BY SealedRow DEF SealedChain, Chain
<1>2. i - 1 \in 0 .. Len(t) /\ j - 1 \in 0 .. Len(t) /\ i - 1 + 1 = i /\ j - 1 + 1 = j
  OBVIOUS
<1>3. Len(DigestBefore(t, i)) = i - 1 /\ Len(DigestBefore(t, j)) = j - 1
  BY <1>2, DigestLength
<1>4. DigestBefore(t, i) # DigestBefore(t, j)
  BY <1>2, <1>3
<1> QED
  BY <1>1, <1>4 DEF RowValid

\* The rows after a deleted one move up.
LEMMA RowRemoved ==
    ASSUME NEW t \in Seq(Rows), NEW i \in 1 .. Len(t), i < Len(t)
    PROVE  /\ RemoveAt(t, i) \in Seq(Rows) /\ i <= Len(RemoveAt(t, i))
           /\ \A j \in 1 .. i - 1 : RemoveAt(t, i)[j] = t[j]
           /\ RemoveAt(t, i)[i] = t[i + 1]
<1> DEFINE front == SubSeq(t, 1, i - 1)
           back == SubSeq(t, i + 1, Len(t))
<1>1. /\ front \in Seq(Rows) /\ Len(front) = i - 1
      /\ \A j \in 1 .. i - 1 : front[j] = t[j]
  OBVIOUS
<1>2. back \in Seq(Rows) /\ Len(back) = Len(t) - i /\ back[1] = t[i + 1]
  OBVIOUS
<1>3. RemoveAt(t, i) = front \o back
  BY DEF RemoveAt
<1> HIDE DEF front, back
<1>4. /\ front \o back \in Seq(Rows)
      /\ Len(front \o back) = Len(front) + Len(back)
      /\ \A j \in 1 .. Len(front) + Len(back) :
           (front \o back)[j] = IF j <= Len(front) THEN front[j] ELSE back[j - Len(front)]
  BY <1>1, <1>2, ConcatProperties
<1>5. Len(front) + Len(back) = Len(t) - 1 /\ i - Len(front) = 1
  BY <1>1, <1>2
<1> QED
  BY <1>1, <1>2, <1>3, <1>4, <1>5

\* Every edit of what was hashed in a sealed chain is located at the row where
\* it begins.
LEMMA EditBreaks ==
    ASSUME rows \in Seq(Rows), SealedChain(rows), NEW i \in 1 .. Len(rows),
           \/ Overwrite(i) /\ Hashed(rows'[i]) # Hashed(rows[i])
           \/ Delete(i) \/ Exchange(i)
    PROVE  Located(rows', i)
<1>1. Len(rows) \in Nat /\ rows[i] \in Rows
  OBVIOUS
<1>2. CASE Overwrite(i) /\ Hashed(rows'[i]) # Hashed(rows[i])
  <2>1. PICK new \in Overwritten(rows[i]) : new # rows[i] /\ rows' = [rows EXCEPT ![i] = new]
    BY <1>2 DEF Overwrite
  <2>2. DigestBefore(rows, i) \in Digests
    <3>1. i - 1 \in 0 .. Len(rows) /\ i - 1 + 1 = i
      BY <1>1
    <3> QED
      BY <3>1, DigestLength
  <2>0. rows'[i] = new
    BY <1>1, <2>1
  <2>3. ~ RowValid(new, DigestBefore(rows, i))
    BY <1>1, <1>2, <2>0, <2>1, <2>2, PassedUnhashed DEF SealedChain, Chain
  <2>4. /\ rows' \in Seq(Rows \union {new}) /\ i <= Len(rows')
        /\ \A j \in 1 .. i - 1 : rows'[j] = rows[j]
        /\ rows'[i] = new
    BY <1>1, <2>1
  <2> QED
    BY <2>3, <2>4, BrokenAt
<1>3. CASE Delete(i)
  <2>1. i < Len(rows)
    BY <1>3 DEF Delete
  <2>2. /\ rows' \in Seq(Rows) /\ i <= Len(rows')
        /\ \A j \in 1 .. i - 1 : rows'[j] = rows[j]
        /\ rows'[i] = rows[i + 1]
    BY <1>3, <2>1, RowRemoved DEF Delete
  <2>3. ~ RowValid(rows[i + 1], DigestBefore(rows, i))
    BY <1>1, <2>1, NotElsewhere
  <2> QED
    BY <2>2, <2>3, BrokenAt
<1>4. CASE Exchange(i)
  <2>1. PICK j \in i + 1 .. Len(rows) : rows' = [rows EXCEPT ![i] = rows[j], ![j] = rows[i]]
    BY <1>4 DEF Exchange
  <2>2. /\ rows' \in Seq(Rows) /\ i <= Len(rows')
        /\ \A k \in 1 .. i - 1 : rows'[k] = rows[k]
        /\ rows'[i] = rows[j]
    BY <1>1, <2>1
  <2>3. ~ RowValid(rows[j], DigestBefore(rows, i))
    BY <1>1, <2>1, NotElsewhere
  <2> QED
    BY <2>2, <2>3, BrokenAt
<1> QED
  BY <1>2, <1>3, <1>4

-----------------------------------------------------------------------------
(* The repository under an edit *)

\* Until an edit of what was hashed the repository keeps its own invariant.
\* From then on the table has the triggers and is not being migrated, so it
\* only grows, and the edit stays where it is.
TamperInv ==
    /\ edit \in Nat \union {Unseen}
    /\ edit \in {0, Unseen} => IInv
    /\ edit # 0 => triggers = Kinds
    /\ edit > 0 => lock \notin Services /\ Located(rows, edit)

\* An edit of what was never hashed leaves the invariant as it is.
LEMMA UnseenEdit ==
    ASSUME IInv, triggers = Kinds, lock = Free,
           UNCHANGED <<columns, triggers, lock, opening, recording>>,
           NEW i \in 1 .. Len(rows), Overwrite(i), Hashed(rows'[i]) = Hashed(rows[i])
    PROVE  IInv'
<1> USE DEF opening, recording
<1>0. rows \in Seq(Rows) /\ SealedChain(rows) /\ Len(rows) \in Nat
  BY DEF IInv, TypeOK, ProtectInv, Kinds
<1>1. PICK new \in Overwritten(rows[i]) : rows' = [rows EXCEPT ![i] = new]
  BY DEF Overwrite
<1>2. new \in Rows /\ rows[i] \in Rows
  BY <1>0, <1>1, OverwrittenRows
<1>3. /\ rows' \in Seq(Rows) /\ Len(rows') = Len(rows) /\ rows'[i] = new
      /\ \A j \in 1 .. Len(rows) : j # i => rows'[j] = rows[j]
  BY <1>0, <1>1, <1>2
<1>4. /\ SealedOn(new, DigestBefore(rows, i))
      /\ new.run_id = rows[i].run_id
      /\ new.record_sha256 = rows[i].record_sha256
  BY <1>0, <1>2, <1>3, UnhashedSealed DEF SealedChain, Chain
<1>5. \A j \in 1 .. Len(rows) :
        /\ rows'[j].run_id = rows[j].run_id
        /\ rows'[j].record_sha256 = rows[j].record_sha256
  BY <1>3, <1>4
<1>6. \A j \in 1 .. Len(rows) : DigestBefore(rows', j) = DigestBefore(rows, j)
  BY <1>0, <1>5 DEF DigestBefore
<1>7. SealedChain(rows')
  BY <1>0, <1>3, <1>4, <1>5, <1>6 DEF SealedChain, Chain
<1>8. HeadOf(rows') = HeadOf(rows)
  BY <1>0, <1>3, <1>5 DEF HeadOf
<1>9. TypeOK'
  BY <1>3 DEF IInv, TypeOK
<1>10. LockInv' /\ ProtectInv' /\ LegacyInv'
  BY <1>7 DEF IInv, LockInv, ProtectInv, LegacyInv, Kinds
<1>11. HeadInv' /\ EntryInv'
  BY <1>3, <1>5, <1>8 DEF IInv, HeadInv, EntryInv
<1>12. PendingInv' /\ DraftInv'
  BY RepositoryAssumption DEF PendingInv, DraftInv, Kinds
<1> QED
  BY <1>9, <1>10, <1>11, <1>12 DEF IInv

\* A step of the repository after the edit stores nothing, or one more row.
LEMMA AfterEdit ==
    ASSUME triggers = Kinds, lock \notin Services, Next
    PROVE  /\ triggers' = Kinds
           /\ lock' \notin Services
           /\ rows' = rows \/ \E row : rows' = Append(rows, row)
<1> USE RepositoryAssumption DEF database, opening, recording
<1>1. ASSUME NEW s \in Services, Stop(s)
      PROVE  triggers' = Kinds /\ lock' \notin Services /\ rows' = rows
  BY <1>1 DEF Stop, Forget
<1>2. ASSUME NEW s \in Services, CreateTable(s) \/ Open(s) \/ Crash(s)
      PROVE  triggers' = Kinds /\ lock' \notin Services /\ rows' = rows
  BY <1>1, <1>2 DEF CreateTable, Open, Crash, ReadColumns, AddColumn, ScanPending, ScanHead,
     BackfillRow, CommitBackfill, CreateTrigger, OpenFails, Kinds
<1>3. ASSUME NEW s \in Services, NEW c \in Calls, NEW job \in Jobs, Submit(s, c, job)
      PROVE  triggers' = Kinds /\ lock' \notin Services /\ rows' = rows
  BY <1>3 DEF Submit
<1>4. ASSUME NEW c \in Calls, Work(c)
      PROVE  /\ triggers' = Kinds /\ lock' \notin Services
             /\ rows' = rows \/ rows' = Append(rows, entry[c])
  BY <1>4 DEF Work, BeginImmediate, ReadHead, Insert, Commit, Return, RecordFails
<1> QED
  BY <1>2, <1>3, <1>4 DEF Next

\* One invariant holds up to the edit, the other from there on.
LEMMA TamperStep == TamperInv /\ [NextTampering]_tamperVars => TamperInv'
<1> SUFFICES ASSUME TamperInv, [NextTampering]_tamperVars PROVE TamperInv'
  OBVIOUS
<1> USE DEF Unseen
<1>0. edit \in {0, Unseen} \/ edit > 0
  BY DEF TamperInv
<1>1. CASE UNCHANGED tamperVars
  <2>1. UNCHANGED vars /\ edit' = edit
    BY <1>1 DEF tamperVars
  <2>2. IInv => IInv'
    BY <2>1, NextInv
  <2> QED
    BY <2>1, <2>2 DEF TamperInv, vars, database
<1>2. CASE Next /\ UNCHANGED edit
  <2>1. CASE edit = 0
    BY <1>2, <2>1, NextInv DEF TamperInv
  <2>2. CASE edit = Unseen
    <3>1. IInv /\ triggers = Kinds
      BY <2>2 DEF TamperInv
    <3>2. lock \notin Services
      BY <3>1 DEF IInv, DraftInv, Kinds
    <3> QED
      BY <1>2, <2>2, <3>1, <3>2, AfterEdit, NextInv DEF TamperInv
  <2>3. CASE edit > 0
    <3>1. edit # 0 /\ edit # Unseen /\ edit \in Nat
      BY <2>3 DEF TamperInv
    <3> QED
      BY <1>2, <2>3, <3>1, AfterEdit, LocatedAppend DEF TamperInv
  <2> QED
    BY <1>0, <2>1, <2>2, <2>3
<1>3. CASE Tamper
  <2>1. IInv /\ triggers = Kinds /\ lock = Free
    BY <1>3 DEF Tamper, TamperInv
  <2>2. rows \in Seq(Rows) /\ SealedChain(rows)
    BY <2>1 DEF IInv, TypeOK, ProtectInv, Kinds
  <2>3. UNCHANGED <<columns, triggers, lock, opening, recording>>
    BY <1>3 DEF Tamper
  <2>4. PICK i \in 1 .. Len(rows) :
          \/ /\ Overwrite(i)
             /\ edit' = IF Hashed(rows'[i]) = Hashed(rows[i]) THEN Unseen ELSE i
          \/ (Delete(i) \/ Exchange(i)) /\ edit' = i
    BY <1>3 DEF Tamper
  <2>5. CASE Overwrite(i) /\ Hashed(rows'[i]) = Hashed(rows[i]) /\ edit' = Unseen
    <3>1. IInv'
      BY <2>1, <2>3, <2>5, UnseenEdit
    <3> QED
      BY <2>1, <2>3, <2>5, <3>1 DEF TamperInv
  <2>6. CASE /\ edit' = i
             /\ \/ Overwrite(i) /\ Hashed(rows'[i]) # Hashed(rows[i])
                \/ Delete(i) \/ Exchange(i)
    <3>1. Located(rows', i)
      BY <2>2, <2>6, EditBreaks
    <3>2. edit' = i /\ i \in Nat /\ i > 0
      BY <2>2, <2>6
    <3>3. triggers' = Kinds /\ lock' \notin Services
      BY <2>1, <2>3, RepositoryAssumption
    <3> QED
      BY <3>1, <3>2, <3>3 DEF TamperInv
  <2> QED
    BY <2>4, <2>5, <2>6
<1> QED
  BY <1>1, <1>2, <1>3 DEF NextTampering

\* Both invariants hold throughout.
LEMMA TamperInvariance == SpecTampering => []TamperInv
<1>1. InitTampering => TamperInv
  BY InitInv DEF InitTampering, TamperInv, Unseen
<1> QED
  BY <1>1, TamperStep, PTL DEF SpecTampering

\* One edit of what was hashed, a deletion or an exchange is reported at the
\* first row it touched, or at a blank request before it, and stays so whatever
\* is recorded, fails or restarts; an edit of what was never hashed changes no
\* verdict but that on a blank request.
THEOREM EditsAreLocated == SpecTampering => []EditLocated
<1>1. ASSUME TamperInv, edit > 0
      PROVE  VerifyChainRows(rows) = VerdictOn(rows, Earlier(rows, edit) \union {edit})
  BY <1>1, LocatedVerdict DEF TamperInv
<1>2. ASSUME TamperInv, edit = Unseen
      PROVE  VerifyChainRows(rows) = VerdictOn(rows, BlankRequests(rows))
  <2>1. rows \in Seq(Rows) /\ Chain(rows)
    BY <1>2 DEF TamperInv, IInv, TypeOK, ProtectInv, SealedChain, Kinds, Unseen
  <2> QED
    BY <2>1, ChainVerdict
<1>3. TamperInv => EditLocated
  BY <1>1, <1>2, Zenon DEF EditLocated, Earlier
<1> QED
  BY <1>3, TamperInvariance, PTL

\* Whatever is stored, before, during and after a migration or an edit, the
\* loop's verdict is the reference reading of the chain.
THEOREM VerdictsAreExact == SpecTampering => []VerdictExact
<1>1. TamperInv => \E S : rows \in Seq(S)
  <2>1. ASSUME TamperInv, edit \in {0, Unseen} PROVE \E S : rows \in Seq(S)
    BY <2>1 DEF TamperInv, IInv, TypeOK
  <2>2. ASSUME TamperInv, edit > 0 PROVE \E S : rows \in Seq(S)
    BY <2>2 DEF TamperInv, Located
  <2> QED
    BY <2>1, <2>2 DEF TamperInv, Unseen
<1>2. ASSUME NEW S, rows \in Seq(S) PROVE VerdictExact
  BY <1>2, VerifierIsExact DEF VerdictExact
<1>3. TamperInv => VerdictExact
  BY <1>1, <1>2
<1> QED
  BY <1>3, TamperInvariance, PTL
=============================================================================
