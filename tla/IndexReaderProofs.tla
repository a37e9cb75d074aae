------------------------- MODULE IndexReaderProofs -------------------------
(***************************************************************************)
(* Proofs about IndexReader for documents of any length and depth, as long *)
(* as their integers fit 32 bits (reader_int64 shows what happens beyond). *)
(***************************************************************************)
EXTENDS IndexReader, TLAPS, SequenceTheorems

InRange == Ints \subseteq (-IntMax - 1)..UIntMax

-----------------------------------------------------------------------------
(* The inductive invariant.                                                 *)

\* The state the reader must be in, from where it is in the document.
StateAt ==
    IF Depth = 0 THEN IF place = "start" THEN "NEW" ELSE "DONE"
    ELSE IF Depth = 1 THEN "MSG_ARRAY"
    ELSE IF Depth = 2 THEN IF name = NoName THEN "MSG_OBJ" ELSE StateOf(name)
    ELSE "SKIP"

\* The document is a message file so far, and the reader knows where it is.
InPlace ==
    /\ valid
    /\ place = "inside" <=> Depth > 0
    /\ place # "broken"
    /\ Depth > 0 => ctx[1] = "array"
    /\ Depth > 1 => ctx[2] = "object"
    /\ name # NoName => Depth > 0 /\ ctx[Depth] = "object"
    /\ level = Depth
    /\ state = StateAt

\* The reader has the attributes the current object has given.
Content ==
    /\ attrs = said
    /\ \A a \in Attrs : said[a] # Absent => said[a] \in Scalar /\ Fits(a, said[a])
    /\ Depth < 2 => said = Nothing

\* What the reader has gathered from the objects it has passed.
Results ==
    /\ ~Clash
    /\ msgCount = Len(entries)
    /\ lastEnd = IF entries = << >> THEN -1 ELSE entries[Len(entries)].end
    /\ \A i \in DOMAIN entries : entries[i].id <= maxId
    /\ maxId # 0 => \E i \in DOMAIN entries : entries[i].id = maxId
    /\ \A e \in Asked : ids[e.key] = e.id
    /\ \A k \in Msgs : ids[k] = Known[k] \/ (Known[k] = 0 /\ \E e \in Asked : e.key = k)
    /\ found = {e.id : e \in {a \in Asked : Known[a.key] = 0}}

ReaderInv ==
    /\ TypeOK
    /\ status = "parsing" => InPlace /\ Content
    /\ status # "thrown" => valid /\ Results
    /\ ThrowsOnlyAtErrors

-----------------------------------------------------------------------------
(* Values.                                                                  *)

\* A value that fits "id" is an int, and passes the reader's check unchanged.
LEMMA FitsId ==
    ASSUME InRange, NEW v \in Scalar
    PROVE  /\ Fits("id", v) <=> GoodInt(v)
           /\ GoodInt(v) => /\ v = [kind |-> "int", int |-> ToInt(v.int)]
                            /\ v.int \in 1..IntMax
<1>1. CASE v \in [kind : {"int"}, int : Ints]
  <2>1. v.kind = "int" /\ v.int \in Ints /\ v.int \in (-IntMax - 1)..UIntMax /\ v.int \in Int
    BY <1>1, IntsAssumption DEF InRange
  <2>2. v = [kind |-> "int", int |-> v.int]
    BY <1>1
  <2>3. v.int \in 1..IntMax <=> ToInt(v.int) > 0
    BY <2>1, IntsAssumption DEF ToInt, UIntMax
  <2>4. v.int \in 1..IntMax => ToInt(v.int) = v.int
    BY <2>1, IntsAssumption DEF ToInt
  <2>5. Fits("id", v) <=> v.int \in 1..IntMax
    BY <2>1 DEF Fits
  <2>6. GoodInt(v) <=> ToInt(v.int) > 0
    BY <2>1, <2>3, <2>4, IntsAssumption DEF GoodInt, INVALID_MSG_ID
  <2> QED
    BY <2>2, <2>3, <2>4, <2>5, <2>6
<1>2. CASE v \notin [kind : {"int"}, int : Ints]
  <2>1. v.kind \in {"str", "null"}
    BY <1>2 DEF Scalar
  <2> QED
    BY <2>1 DEF Fits, GoodInt
<1> QED
  BY <1>1, <1>2

\* A value that is a string.
LEMMA StringType ==
    ASSUME NEW v \in Scalar, v.kind = "str"
    PROVE  v \in [kind : {"str"}, str : Strings]
BY DEF Scalar

\* HandlerAdapter passes on every integer of 32 bits.
LEMMA AllDelivered ==
    ASSUME InRange, NEW v \in Scalar
    PROVE  Delivered(v)
<1>1. v.kind = "int" => v \in [kind : {"int"}, int : Ints]
  BY DEF Scalar
<1> QED
  BY <1>1 DEF Delivered, InRange

\* A complete object makes an entry with the types of one.
LEMMA EntryType ==
    ASSUME InRange, TypeOK, Content, Complete
    PROVE  /\ said["id"].int \in 1..IntMax
           /\ KeyOf(said) \in Key
<1>1. said["id"] \in Scalar /\ Fits("id", said["id"])
  BY DEF Content, Complete, Attrs
<1>2. said["id"].int \in 1..IntMax
  BY <1>1, FitsId
<1>3. ASSUME NEW a \in {"msg", "hint", "help"}, said[a] # Absent
      PROVE  said[a] \in [kind : {"str"}, str : Strings]
  <2>1. said[a] \in Scalar /\ Fits(a, said[a])
    BY <1>3 DEF Content, Attrs
  <2>2. said[a].kind = "str"
    BY <2>1 DEF Fits
  <2> QED
    BY <2>1, <2>2, StringType
<1>4. said["msg"] # Absent
  BY DEF Complete
<1> QED
  BY <1>2, <1>3, <1>4 DEF Key, KeyOf

-----------------------------------------------------------------------------
(* Positions.                                                               *)

\* Entering a container.
LEMMA Enter ==
    ASSUME TypeOK, NEW kind \in {"array", "object"}, ctx' = Append(ctx, kind)
    PROVE  /\ ctx' \in Seq({"array", "object"})
           /\ Depth \in Nat /\ Depth' = Depth + 1
           /\ \A i \in 1..Depth : ctx'[i] = ctx[i]
           /\ ctx'[Depth + 1] = kind
BY AppendProperties DEF TypeOK, DocTypeOK, Depth

\* Leaving one.
LEMMA Leave ==
    ASSUME TypeOK, Depth > 0, ctx' = SubSeq(ctx, 1, Depth - 1)
    PROVE  /\ ctx' \in Seq({"array", "object"})
           /\ Depth \in Nat /\ Depth' = Depth - 1
           /\ \A i \in 1..(Depth - 1) : ctx'[i] = ctx[i]
<1>1. Depth \in Nat /\ ctx \in Seq({"array", "object"})
  BY DEF TypeOK, DocTypeOK, Depth
<1>2. Depth - 1 \in 0..Len(ctx)
  BY <1>1 DEF Depth
<1>3. \A i \in 1..(Depth - 1) : i \in 1..Len(ctx)
  BY <1>1 DEF Depth
<1>4. /\ ctx' \in Seq({"array", "object"})
      /\ Len(ctx') = Depth - 1
      /\ \A i \in 1..(Depth - 1) : ctx'[i] = ctx[1 + i - 1]
  BY <1>1, <1>2, <1>3, SubSeqProperties
<1> QED
  BY <1>1, <1>4 DEF Depth

\* Where a value may come, and the state the reader is in there.
LEMMA ValueHere ==
    ASSUME TypeOK, InPlace, ValueDue
    PROVE  /\ Depth \in Nat
           /\ \/ Depth = 0 /\ state = "NEW"
              \/ Depth = 1 /\ state = "MSG_ARRAY"
              \/ Depth = 2 /\ name \in Names /\ state = StateOf(name)
              \/ Depth > 2 /\ state = "SKIP"
<1>1. Depth \in Nat
  BY DEF TypeOK, DocTypeOK, Depth
<1>2. CASE Depth = 0
  BY <1>2 DEF ValueDue, Inside, InPlace, StateAt
<1>3. CASE Depth = 1
  BY <1>3 DEF InPlace, StateAt
<1>4. CASE Depth = 2
  <2>1. ctx[2] = "object"
    BY <1>4 DEF InPlace
  <2>2. name # NoName
    BY <1>4, <2>1 DEF ValueDue, Inside, InPlace
  <2>3. name \in Names
    BY <2>2 DEF TypeOK, DocTypeOK
  <2> QED
    BY <1>4, <2>2, <2>3 DEF InPlace, StateAt
<1>5. CASE Depth > 2
  BY <1>5, <1>1 DEF InPlace, StateAt
<1> QED
  BY <1>1, <1>2, <1>3, <1>4, <1>5

\* The states for the members of a message object.
LEMMA StateOfNames ==
    /\ StateOf("id") = "MSG_ID"
    /\ StateOf("msg") = "FMT_STR"
    /\ StateOf("hint") = "HINT_MSG"
    /\ StateOf("help") = "HELP_ID"
    /\ StateOf("other") = "SKIP"
BY DEF StateOf

-----------------------------------------------------------------------------
(* Steps that gather nothing.                                               *)

\* An exception with a reason.
LEMMA Thrown ==
    ASSUME TypeOK', status' = "thrown", place' = "broken" \/ ~valid' \/ Clash'
    PROVE  ReaderInv'
BY DEF ReaderInv, ThrowsOnlyAtErrors

\* What has been gathered stays as it is.
LEMMA ResultsKept ==
    ASSUME Results, UNCHANGED <<entries, found, lastEnd, maxId, msgCount, ids>>
    PROVE  Results'
BY DEF Results, Clash, Asked

\* So does the content of the current object.
LEMMA ContentKept ==
    ASSUME Content, UNCHANGED <<attrs, said>>, Depth' < 2 => said = Nothing
    PROVE  Content'
BY DEF Content, Fits

-----------------------------------------------------------------------------
(* Containers begin.                                                        *)

\* The document's variables keep their types.
LEMMA BeginTypes ==
    ASSUME TypeOK, NEW kind \in {"array", "object"}, DocBegin(kind)
    PROVE  DocTypeOK'
<1>1. ctx' \in Seq({"array", "object"})
  BY Enter DEF DocBegin
<1>2. said' \in [Attrs -> Value \cup {Absent}]
  BY DEF DocBegin, Meaning, TypeOK, DocTypeOK, Value, Container
<1> QED
  BY <1>1, <1>2 DEF DocBegin, Advance, Meaning, TypeOK, DocTypeOK

\* A container where it may not be makes the reader throw: the document is no
\* message file.
LEMMA BeginRefused ==
    ASSUME TypeOK, InPlace, NEW kind \in {"array", "object"}, DocBegin(kind), Throw,
           state \notin {IF kind = "array" THEN "NEW" ELSE "MSG_ARRAY", "SKIP"}
    PROVE  ReaderInv'
<1>1. ~Allowed([kind |-> kind])
  BY ValueHere, StateOfNames DEF DocBegin, Allowed, Fits, Names, Attrs
<1>2. ~valid'
  BY <1>1 DEF DocBegin, Meaning
<1>3. TypeOK'
  BY BeginTypes DEF TypeOK, Throw, readerVars
<1> QED
  BY <1>2, <1>3, Thrown DEF Throw

\* The reader enters a container with the document.
LEMMA BeginAccepted ==
    ASSUME TypeOK, InPlace, Content, Results, status = "parsing",
           NEW kind \in {"array", "object"}, DocBegin(kind),
           \/ state = "SKIP" /\ state' = "SKIP"
           \/ state = "NEW" /\ kind = "array" /\ state' = "MSG_ARRAY"
           \/ state = "MSG_ARRAY" /\ kind = "object" /\ state' = "MSG_OBJ",
           level' = level + 1,
           UNCHANGED <<status, attrs, found, lastEnd, maxId, msgCount, ids>>
    PROVE  ReaderInv'
<1>1. /\ \A i \in 1..Depth : ctx'[i] = ctx[i]
      /\ ctx'[Depth + 1] = kind
      /\ Depth' = Depth + 1
  BY Enter DEF DocBegin
<1>2. \/ Depth = 0 /\ kind = "array" /\ state = "NEW"
      \/ Depth = 1 /\ kind = "object" /\ state = "MSG_ARRAY"
      \/ Depth = 2 /\ name = "other" /\ state = "SKIP"
      \/ Depth > 2 /\ state = "SKIP"
  BY ValueHere, StateOfNames DEF DocBegin, Names, Attrs
<1>3. Depth \in Nat
  BY DEF TypeOK, DocTypeOK, Depth
<1>4. TypeOK'
  BY BeginTypes DEF TypeOK, States
<1>5. InPlace'
  <2>1. Allowed([kind |-> kind])
    BY <1>2 DEF Allowed, Fits
  <2>2. valid' /\ place' = "inside" /\ name' = NoName
    BY <2>1 DEF DocBegin, Meaning, InPlace
  <2>3. state' = StateAt'
    BY <1>1, <1>2, <1>3, <2>2 DEF StateAt
  <2>4. (Depth > 0 => ctx[1] = "array")' /\ (Depth > 1 => ctx[2] = "object")'
    BY <1>1, <1>2, <1>3 DEF InPlace
  <2>5. level' = Depth'
    BY <1>1 DEF InPlace
  <2> QED
    BY <1>1, <1>3, <2>2, <2>3, <2>4, <2>5 DEF InPlace
<1>6. Content'
  <2>1. said' = said
    BY <1>2 DEF DocBegin, Meaning, Attrs
  <2>2. Depth' < 2 => said = Nothing
    BY <1>1, <1>2, <1>3 DEF Content
  <2> QED
    BY <2>1, <2>2, ContentKept
<1>7. Results'
  BY ResultsKept DEF DocBegin
<1> QED
  BY <1>4, <1>5, <1>6, <1>7 DEF ReaderInv, ThrowsOnlyAtErrors, InPlace

LEMMA BeginObjectStep ==
    ASSUME TypeOK, InPlace, Content, Results, BeginObject
    PROVE  ReaderInv'
<1>1. DocBegin("object") /\ status = "parsing"
  BY DEF BeginObject
<1>2. CASE state \in {"MSG_ARRAY", "SKIP"}
  BY <1>1, <1>2, BeginAccepted DEF BeginObject, Checked
<1>3. CASE state \notin {"MSG_ARRAY", "SKIP"}
  BY <1>1, <1>3, BeginRefused DEF BeginObject, Checked
<1> QED
  BY <1>2, <1>3

LEMMA BeginArrayStep ==
    ASSUME TypeOK, InPlace, Content, Results, BeginArray
    PROVE  ReaderInv'
<1>1. DocBegin("array") /\ status = "parsing"
  BY DEF BeginArray
<1>2. CASE state \in {"NEW", "SKIP"}
  BY <1>1, <1>2, BeginAccepted DEF BeginArray, Checked
<1>3. CASE state \notin {"NEW", "SKIP"}
  BY <1>1, <1>3, BeginRefused DEF BeginArray, Checked
<1> QED
  BY <1>2, <1>3

-----------------------------------------------------------------------------
(* Names and values.                                                        *)

LEMMA NameStep ==
    ASSUME TypeOK, InPlace, Content, Results, Name
    PROVE  ReaderInv'
<1>1. PICK n \in Names : DocName(n) /\ Checked({"MSG_OBJ", "SKIP"},
                     /\ state' = IF state = "MSG_OBJ" THEN StateOf(n) ELSE state
                     /\ UNCHANGED <<level, attrs, found, lastEnd, maxId, msgCount, ids>>)
  BY DEF Name
<1>2. Depth \in Nat /\ Depth > 0 /\ ctx[Depth] = "object" /\ name = NoName
  BY <1>1 DEF DocName, Inside, InPlace, TypeOK, DocTypeOK, Depth
<1>3. Depth # 1
  BY <1>2 DEF InPlace
<1>4. \/ Depth = 2 /\ state = "MSG_OBJ"
      \/ Depth > 2 /\ state = "SKIP"
  BY <1>2, <1>3 DEF InPlace, StateAt
<1>5. /\ status' = status
      /\ state' = IF state = "MSG_OBJ" THEN StateOf(n) ELSE state
      /\ UNCHANGED <<level, attrs, found, lastEnd, maxId, msgCount, ids>>
  BY <1>1, <1>4 DEF Checked
<1>6. UNCHANGED <<ctx, place, said, valid, entries>> /\ name' = n /\ at' = at + 1
  BY <1>1 DEF DocName, Advance
<1>7. Depth' = Depth /\ n # NoName
  BY <1>6 DEF Depth, Names, Attrs, NoName
<1>8. TypeOK'
  <2>1. state' \in States
    BY <1>5, StateOfNames DEF TypeOK, Names, Attrs, States
  <2>2. DocTypeOK'
    BY <1>6 DEF TypeOK, DocTypeOK
  <2> QED
    BY <2>1, <2>2, <1>5 DEF TypeOK
<1>9. InPlace'
  BY <1>2, <1>4, <1>5, <1>6, <1>7 DEF InPlace, StateAt
<1>10. Content'
  BY <1>5, <1>6, <1>7, ContentKept DEF Content
<1>11. Results'
  BY <1>5, <1>6, ResultsKept
<1>12. status = "parsing"
  BY DEF Name
<1> QED
  BY <1>5, <1>8, <1>9, <1>10, <1>11, <1>12 DEF ReaderInv, ThrowsOnlyAtErrors, InPlace

\* A value where it may not be, or of the wrong kind, is refused.
LEMMA ValueRefused ==
    ASSUME InRange, TypeOK, InPlace, NEW v \in Scalar, DocScalar(v), Throw,
           \/ state \notin {"MSG_ID", "FMT_STR", "HINT_MSG", "HELP_ID", "SKIP"}
           \/ state = "MSG_ID" /\ ~GoodInt(v)
           \/ state \in {"FMT_STR", "HINT_MSG", "HELP_ID"} /\ v.kind # "str"
    PROVE  ReaderInv'
<1>1. v.kind \in {"int", "str", "null"}
  BY DEF Scalar
<1>2. ~Allowed(v)
  BY <1>1, ValueHere, StateOfNames, FitsId DEF DocScalar, Allowed, Fits, Names, Attrs
<1>3. ~valid'
  BY <1>2 DEF DocScalar, Meaning
<1>4. TypeOK'
  BY DEF TypeOK, DocTypeOK, Throw, readerVars, DocScalar, Meaning, Advance, Value
<1> QED
  BY <1>3, <1>4, Thrown DEF Throw

\* The reader takes the value the document gives a member.
LEMMA ValueAccepted ==
    ASSUME InRange, TypeOK, InPlace, Content, Results, status = "parsing",
           NEW v \in Scalar, DocScalar(v), HandleValue(v), UNCHANGED status,
           state \in {"MSG_ID", "FMT_STR", "HINT_MSG", "HELP_ID", "SKIP"},
           state = "MSG_ID" => GoodInt(v),
           state \in {"FMT_STR", "HINT_MSG", "HELP_ID"} => v.kind = "str"
    PROVE  ReaderInv'
<1>1. \/ Depth = 2 /\ name \in Attrs /\ state = StateOf(name)
      \/ Depth = 2 /\ name = "other" /\ state = "SKIP"
      \/ Depth > 2 /\ state = "SKIP"
  BY ValueHere, StateOfNames DEF DocScalar, Names
<1>2. Depth \in Nat /\ level = Depth
  BY DEF TypeOK, DocTypeOK, Depth, InPlace
<1>3. name \in Attrs /\ Depth = 2 => Fits(name, v)
  BY <1>1, StateOfNames, FitsId DEF Fits, Attrs
<1>4. Allowed(v)
  BY <1>1, <1>3 DEF Allowed, Fits, Attrs
<1>5. /\ valid' /\ name' = NoName /\ at' = at + 1
      /\ said' = IF Depth = 2 /\ name \in Attrs THEN [said EXCEPT ![name] = v] ELSE said
      /\ UNCHANGED <<ctx, place, entries>>
  <2>1. Depth # 0 /\ valid
    BY <1>1, <1>2 DEF InPlace
  <2>2. valid'
    BY <2>1, <1>4 DEF DocScalar, Meaning
  <2>3. place' = place
    BY <2>1 DEF DocScalar
  <2> QED
    BY <2>2, <2>3 DEF DocScalar, Meaning, Advance
<1>6. Depth' = Depth
  BY <1>5 DEF Depth
<1>7. /\ attrs' = said'
      /\ state' = IF Depth = 2 THEN "MSG_OBJ" ELSE "SKIP"
      /\ UNCHANGED <<level, found, lastEnd, maxId, msgCount, ids>>
  <2>1. attrs = said
    BY DEF Content
  <2>2. state = "MSG_ID" => v = [kind |-> "int", int |-> ToInt(v.int)]
    BY FitsId
  <2>3. CASE Depth = 2 /\ name = "id"
    BY <2>1, <2>2, <2>3, <1>1, <1>5, StateOfNames DEF HandleValue, Gives, Attrs
  <2>4. CASE Depth = 2 /\ name \in {"msg", "hint", "help"}
    BY <2>1, <2>4, <1>1, <1>5, StateOfNames DEF HandleValue, Gives, Attrs
  <2>5. CASE Depth > 2 \/ name = "other"
    BY <2>1, <2>5, <1>1, <1>2, <1>5, StateOfNames
    DEF HandleValue, Gives, Attrs, MSG_OBJ_LEVEL
  <2> QED
    BY <2>3, <2>4, <2>5, <1>1 DEF Attrs
<1>8. \A a \in Attrs : said'[a] = said[a] \/ (said'[a] = v /\ Fits(a, v))
  BY <1>3, <1>5 DEF TypeOK, DocTypeOK
<1>9. TypeOK'
  <2>1. DocTypeOK'
    BY <1>5 DEF TypeOK, DocTypeOK, Value
  <2>2. attrs' \in [Attrs -> Scalar \cup [kind : {"int"}, int : Int] \cup {Absent}]
    <3>1. \A a \in Attrs : said'[a] \in Scalar \cup {Absent}
      BY <1>8 DEF Content
    <3>2. said' \in [Attrs -> Value \cup {Absent}]
      BY <2>1 DEF DocTypeOK
    <3> QED
      BY <3>1, <3>2, <1>7
  <2> QED
    BY <2>1, <2>2, <1>7 DEF TypeOK, States
<1>10. InPlace'
  BY <1>1, <1>2, <1>5, <1>6, <1>7 DEF InPlace, StateAt
<1>11. Content'
  BY <1>1, <1>2, <1>6, <1>7, <1>8 DEF Content, Fits
<1>12. Results'
  BY <1>5, <1>7, ResultsKept
<1> QED
  BY <1>9, <1>10, <1>11, <1>12 DEF ReaderInv, ThrowsOnlyAtErrors, InPlace

LEMMA ScalarValueStep ==
    ASSUME InRange, TypeOK, InPlace, Content, Results, ScalarValue
    PROVE  ReaderInv'
<1>1. PICK v \in Scalar : HandleScalar(v)
  BY DEF ScalarValue
<1>2. Delivered(v) /\ status = "parsing"
  BY AllDelivered DEF ScalarValue
<1> QED
  BY <1>1, <1>2, ValueRefused, ValueAccepted DEF HandleScalar, Checked

LEMMA SyntaxErrorStep ==
    ASSUME TypeOK, SyntaxError
    PROVE  ReaderInv'
<1>1. TypeOK'
  BY DEF TypeOK, DocTypeOK, SyntaxError, DocSyntaxError, Throw, readerVars
<1> QED
  BY <1>1, Thrown DEF SyntaxError, DocSyntaxError, Throw

LEMMA FinishStep ==
    ASSUME TypeOK, InPlace, Content, Results, Finish
    PROVE  ReaderInv'
<1>1. Depth = 0
  BY DEF Finish, DocOver, InPlace, TypeOK, DocTypeOK, Depth
<1>2. status' = "done"
  BY <1>1 DEF Finish, InPlace, StateAt
<1>3. TypeOK' /\ valid'
  BY <1>2 DEF TypeOK, DocTypeOK, Finish, docVars, readerVars, InPlace
<1>4. Results'
  BY ResultsKept DEF Finish, docVars, readerVars
<1> QED
  BY <1>2, <1>3, <1>4 DEF ReaderInv, ThrowsOnlyAtErrors

-----------------------------------------------------------------------------
(* Containers end.                                                          *)

\* Leaving a container that is not a message object.
LEMMA EndInner ==
    ASSUME TypeOK, InPlace, Content, Results, status = "parsing",
           NEW kind \in {"array", "object"}, DocEnd(kind), Depth # 2,
           level' = level - 1,
           state' = IF Depth = 1 THEN "DONE" ELSE IF Depth = 3 THEN "MSG_OBJ" ELSE "SKIP",
           UNCHANGED <<status, attrs, found, lastEnd, maxId, msgCount, ids>>
    PROVE  ReaderInv'
<1>1. Depth \in Nat /\ Depth > 0 /\ level = Depth
  BY DEF DocEnd, Inside, InPlace, TypeOK, DocTypeOK, Depth
<1>2. /\ ctx' \in Seq({"array", "object"})
      /\ Depth' = Depth - 1
      /\ \A i \in 1..(Depth - 1) : ctx'[i] = ctx[i]
  BY <1>1, Leave DEF DocEnd
<1>3. /\ UNCHANGED <<valid, entries, said, name>> /\ name = NoName /\ at' = at + 1
      /\ place' = IF Depth = 1 THEN "end" ELSE place
  BY DEF DocEnd, Advance
<1>4. TypeOK'
  <2>1. DocTypeOK'
    BY <1>2, <1>3 DEF TypeOK, DocTypeOK
  <2> QED
    BY <2>1, <1>1 DEF TypeOK, States
<1>5. InPlace'
  <2>1. state' = StateAt'
    BY <1>1, <1>2, <1>3 DEF StateAt
  <2>2. (Depth > 0 => ctx[1] = "array")' /\ (Depth > 1 => ctx[2] = "object")'
    BY <1>1, <1>2 DEF InPlace
  <2>3. (place = "inside" <=> Depth > 0)' /\ (place # "broken")'
    BY <1>1, <1>2, <1>3 DEF InPlace
  <2> QED
    BY <1>1, <1>2, <1>3, <2>1, <2>2, <2>3 DEF InPlace
<1>6. Content'
  <2>1. Depth' < 2 => said = Nothing
    BY <1>1, <1>2 DEF Content
  <2> QED
    BY <2>1, <1>3, ContentKept
<1>7. Results'
  BY <1>3, ResultsKept
<1> QED
  BY <1>4, <1>5, <1>6, <1>7 DEF ReaderInv, ThrowsOnlyAtErrors, InPlace

LEMMA EndArrayStep ==
    ASSUME TypeOK, InPlace, Content, Results, EndArray
    PROVE  ReaderInv'
<1>1. DocEnd("array") /\ ctx[Depth] = "array" /\ Depth > 0 /\ level = Depth
  BY DEF EndArray, DocEnd, Inside, InPlace
<1>2. Depth # 2
  BY <1>1 DEF InPlace
<1>3. Depth \in Nat
  BY DEF TypeOK, DocTypeOK, Depth
<1>4. Depth > 2 => state = "SKIP"
  BY <1>3 DEF InPlace, StateAt
<1>5. state' = IF Depth = 1 THEN "DONE" ELSE IF Depth = 3 THEN "MSG_OBJ" ELSE "SKIP"
  BY <1>1, <1>2, <1>3, <1>4 DEF EndArray, AfterArray, MSG_OBJ_LEVEL
<1> QED
  BY <1>1, <1>2, <1>5, EndInner DEF EndArray

\* A message object joins the messages the translation unit asks for, if it is
\* one of them.
LEMMA AskedGrows ==
    ASSUME TypeOK, NEW e, entries' = Append(entries, e), e \in Entry
    PROVE  Asked' = Asked \cup (IF e.key \in Msgs THEN {e} ELSE {})
<1>1. /\ entries \in Seq(Entry)
      /\ Len(entries') = Len(entries) + 1
      /\ \A i \in 1..Len(entries) : entries'[i] = entries[i]
      /\ entries'[Len(entries) + 1] = e
      /\ entries' \in Seq(Entry)
  BY AppendProperties DEF TypeOK, DocTypeOK
<1>2. DOMAIN entries = 1..Len(entries) /\ Len(entries) \in Nat
  BY <1>1
<1>3. DOMAIN entries' = 1..(Len(entries) + 1)
  BY <1>1
<1>4. ASSUME NEW a \in Asked
      PROVE  a \in Asked'
  BY <1>1, <1>2, <1>3, <1>4 DEF Asked
<1>5. ASSUME NEW a \in Asked', a # e
      PROVE  a \in Asked
  BY <1>1, <1>2, <1>3, <1>5 DEF Asked
<1>6. e.key \in Msgs => e \in Asked'
  BY <1>1, <1>2, <1>3 DEF Asked
<1>7. \A a \in Asked' : a.key \in Msgs
  BY DEF Asked
<1> QED
  BY <1>4, <1>5, <1>6, <1>7

\* The messages asked for have a key and a positive ID.
LEMMA AskedTypes ==
    ASSUME TypeOK, NEW a \in Asked
    PROVE  a.key \in Msgs /\ a.id \in Nat /\ a.id # 0
<1>1. PICK i \in DOMAIN entries : a = entries[i] /\ a.key \in Msgs
  BY DEF Asked
<1>2. a \in Entry
  BY <1>1 DEF TypeOK, DocTypeOK
<1>3. a.id \in 1..IntMax
  BY <1>2 DEF Entry
<1> QED
  BY <1>1, <1>3, IntsAssumption

\* endObject() throws at a message only if the file clashes with itself or with
\* what was known before.
LEMMA RefusedClashes ==
    ASSUME TypeOK, Results, NEW e \in Entry, entries' = Append(entries, e),
           Refused(e.key, e.id)
    PROVE  Clash'
<1>1. e.key \in Msgs /\ Asked' = Asked \cup {e}
  BY AskedGrows DEF Refused
<1>2. ids[e.key] = Known[e.key]
      \/ (Known[e.key] = 0 /\ \E a \in Asked : a.key = e.key)
  BY <1>1 DEF Results
<1>3. \A a \in Asked : ids[a.key] = a.id
  BY DEF Results
<1>4. CASE ids[e.key] = INVALID_MSG_ID
  <2>1. Known[e.key] = 0
    BY <1>2, <1>4 DEF INVALID_MSG_ID
  <2>2. PICK a \in Asked : a.id = e.id /\ Known[a.key] = 0
    BY <1>4 DEF Refused, Results
  <2>3. a.key # e.key
    BY <1>3, <1>4, AskedTypes DEF INVALID_MSG_ID
  <2> QED
    BY <1>1, <2>1, <2>2, <2>3 DEF Clash
<1>5. CASE ids[e.key] # INVALID_MSG_ID
  <2>1. ids[e.key] # e.id
    BY <1>5 DEF Refused
  <2>2. CASE \E a \in Asked : a.key = e.key
    BY <1>1, <1>3, <2>1, <2>2 DEF Clash
  <2>3. CASE ids[e.key] = Known[e.key]
    BY <1>1, <1>5, <2>1, <2>3 DEF Clash, INVALID_MSG_ID
  <2> QED
    BY <1>2, <2>2, <2>3
<1> QED
  BY <1>4, <1>5

\* A message endObject() takes leaves the results as they should be.
LEMMA NewMessage ==
    ASSUME TypeOK, Results, NEW e \in Entry, entries' = Append(entries, e),
           ~Refused(e.key, e.id), Take(e.key, e.id),
           maxId' = IF maxId = INVALID_MSG_ID \/ e.id > maxId THEN e.id ELSE maxId,
           lastEnd' = e.end, msgCount' = msgCount + 1
    PROVE  Results'
<1>1. /\ entries \in Seq(Entry)
      /\ Len(entries') = Len(entries) + 1
      /\ \A i \in 1..Len(entries) : entries'[i] = entries[i]
      /\ entries'[Len(entries) + 1] = e
      /\ entries' # << >>
      /\ entries' \in Seq(Entry)
  BY AppendProperties DEF TypeOK, DocTypeOK
<1>2. /\ DOMAIN entries = 1..Len(entries) /\ Len(entries) \in Nat
      /\ DOMAIN entries' = 1..(Len(entries) + 1)
  BY <1>1
<1>3. \A a \in Asked : a.key \in Msgs /\ a.id \in Nat /\ a.id # 0
  BY AskedTypes
<1>4. e.id \in Nat /\ e.id # 0
  <2>1. e.id \in 1..IntMax
    BY DEF Entry
  <2> QED
    BY <2>1, IntsAssumption
<1>5. msgCount' = Len(entries')
  BY <1>1 DEF Results
<1>6. lastEnd' = entries'[Len(entries')].end
  BY <1>1
<1>7. (\A i \in DOMAIN entries : entries[i].id <= maxId)'
  <2>1. \A i \in 1..Len(entries) : entries[i].id \in 1..IntMax /\ entries[i].id <= maxId
    <3>1. \A i \in 1..Len(entries) : entries[i] \in Entry
      BY <1>1
    <3>2. \A x \in Entry : x.id \in 1..IntMax
      BY DEF Entry
    <3> QED
      BY <1>2, <3>1, <3>2 DEF Results
  <2>2. maxId \in Nat
    BY DEF TypeOK
  <2>3. e.id <= maxId' /\ (maxId <= maxId' \/ maxId = 0)
    BY <1>4, <2>2 DEF INVALID_MSG_ID
  <2>4. \A i \in 1..Len(entries) : entries[i].id <= maxId'
    BY <1>4, <2>1, <2>2, <2>3, IntsAssumption DEF INVALID_MSG_ID
  <2> QED
    BY <1>1, <1>2, <2>3, <2>4
<1>8. (maxId # 0 => \E i \in DOMAIN entries : entries[i].id = maxId)'
  <2>1. CASE maxId' = e.id
    BY <1>1, <1>2, <2>1
  <2>2. CASE maxId' # e.id
    <3>1. maxId' = maxId /\ maxId # 0
      BY <2>2 DEF INVALID_MSG_ID
    <3> QED
      BY <1>1, <1>2, <3>1 DEF Results
  <2> QED
    BY <2>1, <2>2
<1>9. CASE e.key \notin Msgs
  <2>1. Asked' = Asked
    BY <1>9, AskedGrows
  <2>2. UNCHANGED <<ids, found>>
    BY <1>9 DEF Take
  <2> QED
    BY <1>1, <1>5, <1>6, <1>7, <1>8, <2>1, <2>2 DEF Results, Clash
<1>10. CASE e.key \in Msgs
  <2>1. Asked' = Asked \cup {e}
    BY <1>10, AskedGrows
  <2>2. /\ \A a \in Asked : ids[a.key] = a.id
        /\ \A k \in Msgs : ids[k] = Known[k] \/ (Known[k] = 0 /\ \E a \in Asked : a.key = k)
        /\ found = {a.id : a \in {b \in Asked : Known[b.key] = 0}}
        /\ ids \in [Msgs -> Nat]
    BY DEF Results, TypeOK
  <2>3. ~Clash
    BY DEF Results
  <2>4. CASE ids[e.key] = INVALID_MSG_ID
    <3>1. /\ ids' = [ids EXCEPT ![e.key] = e.id]
          /\ found' = found \cup {e.id}
          /\ e.id \notin found
      BY <1>10, <2>4 DEF Take, Refused
    <3>2. \A a \in Asked : a.key # e.key
      BY <1>3, <2>2, <2>4 DEF INVALID_MSG_ID
    <3>3. Known[e.key] = 0
      BY <1>10, <2>2, <2>4 DEF INVALID_MSG_ID
    <3>4. \A a \in Asked : Known[a.key] = 0 => a.id # e.id
      BY <2>2, <3>1
    <3>5. ~Clash'
      BY <2>1, <2>3, <3>2, <3>3, <3>4 DEF Clash
    <3>6. \A a \in Asked' : ids'[a.key] = a.id
      BY <1>3, <1>10, <2>1, <2>2, <3>1, <3>2
    <3>7. \A k \in Msgs : ids'[k] = Known[k] \/ (Known[k] = 0 /\ \E a \in Asked' : a.key = k)
      BY <1>10, <2>1, <2>2, <3>1, <3>3
    <3>8. found' = {a.id : a \in {b \in Asked' : Known[b.key] = 0}}
      BY <2>1, <2>2, <3>1, <3>3
    <3> QED
      BY <1>1, <1>5, <1>6, <1>7, <1>8, <3>5, <3>6, <3>7, <3>8 DEF Results
  <2>5. CASE ids[e.key] # INVALID_MSG_ID
    <3>1. UNCHANGED <<ids, found>> /\ ids[e.key] = e.id
      BY <1>10, <2>5 DEF Take, Refused
    <3>2. \A a \in Asked : a.key = e.key => a.id = e.id
      BY <2>2, <3>1
    <3>3. Known[e.key] = e.id \/ (Known[e.key] = 0 /\ \E a \in Asked : a.key = e.key /\ a.id = e.id)
      BY <1>10, <2>2, <3>1, <3>2
    <3>4. ~Clash'
      BY <1>4, <2>1, <2>3, <3>2, <3>3 DEF Clash
    <3>5. \A a \in Asked' : ids'[a.key] = a.id
      BY <2>1, <2>2, <3>1
    <3>6. \A k \in Msgs : ids'[k] = Known[k] \/ (Known[k] = 0 /\ \E a \in Asked' : a.key = k)
      BY <2>1, <2>2, <3>1
    <3>7. found' = {a.id : a \in {b \in Asked' : Known[b.key] = 0}}
      <4>1. Known[e.key] = 0 => e.id \in found
        BY <1>4, <2>2, <3>3
      <4> QED
        BY <2>1, <2>2, <3>1, <4>1
    <3> QED
      BY <1>1, <1>5, <1>6, <1>7, <1>8, <3>4, <3>5, <3>6, <3>7 DEF Results
  <2> QED
    BY <2>4, <2>5
<1> QED
  BY <1>9, <1>10

\* The end of a message object.
LEMMA EndMsgObjectStep ==
    ASSUME InRange, TypeOK, InPlace, Content, Results, EndObject, Depth = 2
    PROVE  ReaderInv'
<1>1. /\ DocEnd("object") /\ status = "parsing"
      /\ name = NoName /\ state = "MSG_OBJ" /\ level = 2 /\ valid
  BY DEF EndObject, DocEnd, InPlace, StateAt
<1>2. EndMsgObject
  BY <1>1 DEF EndObject
<1>3. /\ ctx' \in Seq({"array", "object"})
      /\ Depth' = 1
      /\ ctx'[1] = ctx[1]
  BY <1>1, Leave DEF DocEnd
<1>4. /\ UNCHANGED <<name, place>> /\ said' = Nothing /\ at' = at + 1
      /\ valid' \in BOOLEAN /\ (valid' <=> Complete)
      /\ ~Complete => entries' = entries
  <2>1. /\ valid' = (valid /\ Complete)
        /\ said' = Nothing /\ at' = at + 1 /\ name' = name
        /\ valid' \/ entries' = entries
    BY <1>1 DEF DocEnd, Advance
  <2>2. place' = place
    BY <1>1 DEF DocEnd
  <2>3. valid' \in BOOLEAN
    BY <2>1 DEF Complete
  <2> QED
    BY <1>1, <2>1, <2>2, <2>3
<1>5. attrs = said
  BY DEF Content
<1>6. Nothing \in [Attrs -> Value \cup {Absent}]
      /\ Nothing \in [Attrs -> Scalar \cup [kind : {"int"}, int : Int] \cup {Absent}]
  BY DEF Nothing
<1>7. at \in Nat
  BY DEF TypeOK, DocTypeOK
<1>8. CASE ~Complete
  <2>1. Throw
    BY <1>2, <1>5, <1>8 DEF EndMsgObject, Complete
  <2>2. DocTypeOK'
    BY <1>3, <1>4, <1>6, <1>8 DEF TypeOK, DocTypeOK
  <2>3. TypeOK'
    BY <2>1, <2>2 DEF TypeOK, Throw, readerVars
  <2> QED
    BY <1>4, <1>8, <2>1, <2>3, Thrown DEF Throw
<1>9. CASE Complete
  <2> DEFINE e == [key |-> KeyOf(said), id |-> said["id"].int, end |-> at + 1]
  <2>1. e \in Entry
    BY <1>7, <1>9, EntryType DEF Entry
  <2>2. entries' = Append(entries, e)
    BY <1>1, <1>4, <1>9 DEF DocEnd
  <2>3. entries' \in Seq(Entry)
    BY <2>1, <2>2, AppendProperties DEF TypeOK, DocTypeOK
  <2>4. DocTypeOK'
    BY <1>3, <1>4, <1>6, <2>3 DEF TypeOK, DocTypeOK
  <2>5. CASE Refused(e.key, e.id)
    <3>1. Throw
      BY <1>2, <1>5, <1>9, <2>5 DEF EndMsgObject
    <3>2. TypeOK'
      BY <2>4, <3>1 DEF TypeOK, Throw, readerVars
    <3>3. Clash'
      BY <2>1, <2>2, <2>5, RefusedClashes
    <3> QED
      BY <3>1, <3>2, <3>3, Thrown DEF Throw
  <2>6. CASE ~Refused(e.key, e.id)
    <3>1. /\ Take(e.key, e.id)
          /\ maxId' = IF maxId = INVALID_MSG_ID \/ e.id > maxId THEN e.id ELSE maxId
          /\ lastEnd' = e.end
          /\ msgCount' = msgCount + 1
          /\ attrs' = Nothing /\ state' = "MSG_ARRAY" /\ level' = 1
          /\ UNCHANGED status
      BY <1>1, <1>2, <1>5, <1>9, <2>6 DEF EndMsgObject, FreshAttrs, Complete
    <3>2. Results'
      BY <2>1, <2>2, <2>6, <3>1, NewMessage
    <3>3. e.id \in Nat
      BY <2>1, IntsAssumption DEF Entry
    <3>4. ids' \in [Msgs -> Nat] /\ found' \subseteq Int
      <4>1. ids \in [Msgs -> Nat] /\ found \subseteq Int
        BY DEF TypeOK
      <4>2. CASE ids' = [ids EXCEPT ![e.key] = e.id] /\ found' = found \cup {e.id}
        <5> DEFINE k == e.key
                   i == e.id
        <5>1. i \in Nat /\ i \in Int
          BY <3>3
        <5>2. ids' = [ids EXCEPT ![k] = i] /\ found' = found \cup {i}
          BY <4>2
        <5> HIDE DEF k, i
        <5>3. ids' \in [Msgs -> Nat]
          BY <4>1, <5>1, <5>2
        <5>4. found' \subseteq Int
          BY <4>1, <5>1, <5>2
        <5> QED
          BY <5>3, <5>4
      <4>3. CASE UNCHANGED <<ids, found>>
        BY <4>1, <4>3
      <4> QED
        BY <3>1, <4>2, <4>3 DEF Take
    <3>5. TypeOK'
      BY <1>6, <1>7, <2>4, <3>1, <3>3, <3>4 DEF TypeOK, States
    <3>6. InPlace'
      BY <1>1, <1>3, <1>4, <1>9, <3>1 DEF InPlace, StateAt
    <3>7. Content'
      BY <1>4, <3>1 DEF Content, Nothing
    <3> QED
      BY <1>1, <3>1, <3>2, <3>5, <3>6, <3>7 DEF ReaderInv, ThrowsOnlyAtErrors, InPlace
  <2> QED
    BY <2>5, <2>6
<1> QED
  BY <1>8, <1>9

LEMMA EndObjectStep ==
    ASSUME InRange, TypeOK, InPlace, Content, Results, EndObject
    PROVE  ReaderInv'
<1>1. DocEnd("object") /\ ctx[Depth] = "object" /\ Depth > 0 /\ level = Depth
  BY DEF EndObject, DocEnd, Inside, InPlace
<1>2. Depth # 1
  BY <1>1 DEF InPlace
<1>3. Depth \in Nat
  BY DEF TypeOK, DocTypeOK, Depth
<1>4. CASE Depth = 2
  BY <1>4, EndMsgObjectStep
<1>5. CASE Depth # 2
  <2>1. state = "SKIP"
    BY <1>1, <1>2, <1>3, <1>5 DEF InPlace, StateAt
  <2>2. /\ level' = level - 1
        /\ state' = IF level - 1 = MSG_OBJ_LEVEL THEN "MSG_OBJ" ELSE state
        /\ UNCHANGED <<status, attrs, found, lastEnd, maxId, msgCount, ids>>
    BY <2>1 DEF EndObject
  <2>3. state' = IF Depth = 1 THEN "DONE" ELSE IF Depth = 3 THEN "MSG_OBJ" ELSE "SKIP"
    BY <1>1, <1>2, <1>3, <2>1, <2>2 DEF MSG_OBJ_LEVEL
  <2>4. status = "parsing"
    BY DEF EndObject
  <2> QED
    BY <1>1, <1>5, <2>2, <2>3, <2>4, EndInner
<1> QED
  BY <1>4, <1>5

-----------------------------------------------------------------------------
(* The theorems.                                                            *)

LEMMA ReaderInit ==
    ASSUME Init
    PROVE  ReaderInv
<1>1. ctx = << >> /\ entries = << >> /\ Depth = 0
  BY DEF Init, DocInit, Depth
<1>2. Nothing \in [Attrs -> Value \cup {Absent}]
      /\ Nothing \in [Attrs -> Scalar \cup [kind : {"int"}, int : Int] \cup {Absent}]
  BY DEF Nothing
<1>3. TypeOK
  <2>1. DocTypeOK
    BY <1>1, <1>2 DEF Init, DocInit, DocTypeOK
  <2> QED
    BY <1>2, <2>1, KnownAssumption, IntsAssumption DEF Init, TypeOK, States, INVALID_MSG_ID
<1>4. Asked = {}
  BY <1>1 DEF Asked
<1>5. Results
  BY <1>1, <1>4 DEF Init, Results, Clash, INVALID_MSG_ID
<1>6. InPlace /\ Content
  BY <1>1 DEF Init, DocInit, InPlace, StateAt, Content, Nothing
<1> QED
  BY <1>3, <1>5, <1>6 DEF ReaderInv, ThrowsOnlyAtErrors, Init, DocInit

LEMMA ReaderStep ==
    ASSUME InRange, ReaderInv, [Next]_vars
    PROVE  ReaderInv'
<1>1. CASE Next
  <2>1. status = "parsing"
    BY <1>1 DEF Next, BeginObject, BeginArray, EndObject, EndArray, Name, ScalarValue,
                SyntaxError, Finish
  <2>2. TypeOK /\ InPlace /\ Content /\ Results
    BY <2>1 DEF ReaderInv
  <2> QED
    BY <1>1, <2>2, BeginObjectStep, BeginArrayStep, EndObjectStep, EndArrayStep, NameStep,
       ScalarValueStep, SyntaxErrorStep, FinishStep DEF Next
<1>2. CASE UNCHANGED vars
  <2>1. UNCHANGED <<ctx, name, place, at, said, valid, entries, status, state, level, attrs,
                    found, lastEnd, maxId, msgCount, ids>>
    BY <1>2 DEF vars, docVars, readerVars
  <2>2. TypeOK'
    BY <2>1 DEF ReaderInv, TypeOK, DocTypeOK
  <2>3. InPlace => InPlace'
    BY <2>1 DEF InPlace, StateAt, Depth
  <2>4. Depth' < 2 => Depth < 2
    BY <2>1 DEF Depth
  <2>5. Content => Content'
    BY <2>1, <2>4, ContentKept DEF Content
  <2>6. Results => Results'
    BY <2>1, ResultsKept
  <2>7. Clash => Clash'
    BY <2>1 DEF Clash, Asked
  <2> QED
    BY <2>1, <2>2, <2>3, <2>5, <2>6, <2>7 DEF ReaderInv, ThrowsOnlyAtErrors
<1> QED
  BY <1>1, <1>2

\* The reader keeps step with every document whose integers fit 32 bits, at any
\* depth and after any number of messages.
THEOREM KeepsStep == InRange => (Spec => []ReaderInv)
<1> SUFFICES ASSUME InRange
             PROVE  Spec => []ReaderInv
  OBVIOUS
<1>1. Init => ReaderInv
  BY ReaderInit
<1>2. ReaderInv /\ [Next]_vars => ReaderInv'
  BY ReaderStep
<1> QED
  BY <1>1, <1>2, PTL DEF Spec

\* The types of the reader's members.
THEOREM ReaderTypes == InRange => (Spec => []TypeOK)
<1>1. ReaderInv => TypeOK
  BY DEF ReaderInv
<1> QED
  BY <1>1, KeepsStep, PTL

\* parse() accepts nothing but message files.
THEOREM Acceptance == InRange => (Spec => []AcceptsMessages)
<1>1. ReaderInv => AcceptsMessages
  BY DEF ReaderInv, AcceptsMessages
<1> QED
  BY <1>1, KeepsStep, PTL

\* parse() throws at nothing else.
THEOREM Rejection == InRange => (Spec => []ThrowsOnlyAtErrors)
<1>1. ReaderInv => ThrowsOnlyAtErrors
  BY DEF ReaderInv
<1> QED
  BY <1>1, KeepsStep, PTL

\* When parse() returns, the messages, the greatest ID, the end of the last
\* message and the IDs of the translation unit are what the document says.
THEOREM ResultsRight == InRange => (Spec => []ReadsRight)
<1>1. ReaderInv => ReadsRight
  <2> SUFFICES ASSUME ReaderInv, status = "done"
               PROVE  ReadsRight
    BY DEF ReadsRight
  <2>1. Results
    BY DEF ReaderInv
  <2>2. \A k \in Msgs : ids[k] # Known[k] => \E e \in Asked : e.key = k
    BY <2>1 DEF Results
  <2>3. \A e \in {entries[i] : i \in DOMAIN entries} : e.id <= maxId
    BY <2>1 DEF Results
  <2> QED
    BY <2>1, <2>2, <2>3 DEF Results, ReadsRight
<1> QED
  BY <1>1, KeepsStep, PTL

=============================================================================
