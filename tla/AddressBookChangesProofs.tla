---------------------- MODULE AddressBookChangesProofs ----------------------
(***************************************************************************)
(* Proofs about AddressBookChanges, for every set of folders and requests, *)
(* every length of the log and every number of rows that may be checked.   *)
(***************************************************************************)
EXTENDS AddressBookChanges, SequenceTheorems, TLAPS

LogRow == [v : 1..MaxVersion, row : Row]

\* Whoever asks for what came after version n is told of Watched.
Due(n) ==
    /\ n < version
    /\ \/ recent = <<>>
       \/ n + 1 < oldest_complete
       \/ \E i \in DOMAIN recent : recent[i].v > n /\ Tells(recent[i].row)

\* The copy is old, it matters, and only the log can tell the page.
Hangs == stale /\ open /\ ~Pending /\ ~unlogged /\ ~early

\* The log is in the order of its versions.
Ordered ==
    \A i \in DOMAIN recent : recent[i].v <= version /\ \A j \in 1..i : recent[j].v <= recent[i].v

\* Versions and epochs seen are not ahead of the log, and the requests that
\* wrote Watched will be logged with a row that tells of it.
Seen ==
    /\ liveEpoch <= epoch /\ answer.epoch <= epoch
    /\ liveEpoch = epoch => liveVersion <= version
    /\ answer.epoch = epoch => answer.version <= version
    /\ \A r \in Req : wrote[r] => request[r].writes

\* Between polls the log still has what the page must be told.
LogTells ==
    Hangs /\ liveVersion # NoVersion => liveEpoch # epoch \/ Due(liveVersion)

\* While a poll is answered, its answer has it, or the log has it for the next.
AnswerTells ==
    Hangs /\ poll \in {"logged", "answered"} =>
        \/ answer.epoch # epoch
        \/ Due(answer.version)
        \/ liveVersion # NoVersion /\ answer.epoch # liveEpoch
        \/ liveVersion # NoVersion /\ \E row \in answer.rows \cup checked : Tells(row)

RowsPlaced == poll # "logged" => checked = {}

ChangesInv == TypeOK /\ Ordered /\ Seen /\ LogTells /\ AnswerTells /\ RowsPlaced

-----------------------------------------------------------------------------
(* Rows and requests *)

\* The rows of two lists together.
LEMMA RowsConcat ==
    ASSUME NEW s \in Seq(Row), NEW t \in Seq(Row)
    PROVE  Rows(s \o t) = Rows(s) \cup Rows(t)
<1>1. Rows(s \o t) \subseteq Rows(s) \cup Rows(t)
  BY ConcatProperties DEF Rows
<1>2. Rows(s) \subseteq Rows(s \o t)
  BY ConcatProperties DEF Rows
<1>3. ASSUME NEW j \in 1..Len(t) PROVE t[j] \in Rows(s \o t)
  <2>1. Len(s) + j \in 1..Len(s \o t) /\ (s \o t)[Len(s) + j] = t[j]
    BY ConcatProperties
  <2> QED
    BY <2>1 DEF Rows
<1> QED
  BY <1>1, <1>2, <1>3 DEF Rows

\* Lists of up to two rows.
LEMMA ShortLists ==
    ASSUME NEW a \in Row, NEW b \in Row
    PROVE  /\ <<>> \in Seq(Row) /\ <<a>> \in Seq(Row) /\ <<a, b>> \in Seq(Row)
           /\ <<a>> # <<>> /\ <<a, b>> # <<>>
           /\ Rows(<<>>) = {} /\ Rows(<<a>>) = {a} /\ Rows(<<a, b>>) = {a, b}
<1>1. <<>> \in Seq(Row) /\ <<a>> \in Seq(Row) /\ <<a, b>> \in Seq(Row) /\ <<a>> # <<>> /\ <<a, b>> # <<>>
  OBVIOUS
<1>2. Rows(<<>>) = {} /\ Rows(<<a>>) = {a}
  BY DEF Rows
<1>3. Rows(<<a, b>>) = {a, b}
  BY DEF Rows
<1> QED
  BY <1>1, <1>2, <1>3

\* Requests name rows, and a success is logged with one at least, which tells
\* of Watched if it was written; a move that fails half-way reports all that
\* it would have been logged with.
LEMMA RequestRows ==
    ASSUME NEW q \in ab_changes_for_request
    PROVE  /\ Found(q) \in Seq(Row) /\ Found(q) # <<>>
           /\ q.writes => \E row \in Rows(Found(q)) : Tells(row)
           /\ q \in Moves => /\ q.reported \in Seq(Row) /\ q.reported # <<>>
                            /\ Rows(Found(q)) = Rows(q.reported)
<1> DEFINE tail == IF q.complete \/ q.reported # <<>> THEN <<>> ELSE <<All>>
           Told(rows) == \E row \in rows : Tells(row)
<1>1. \A f \in Folder : Entries(f) \in Row /\ Tree(f) \in Row
  BY DEF Entries, Tree, Row
<1>2. All \in Row /\ Tells(All) /\ Tells(Entries(Watched)) /\ \A f \in Above : Tells(Tree(f))
  BY DEF All, Row, Tells, Entries, Tree
<1>3. ASSUME q \in Moves
      PROVE  /\ q.path \in Seq(Row) /\ q.reported \in Seq(Row) /\ q.path # <<>> /\ q.reported # <<>>
             /\ Rows(q.path) \subseteq Rows(q.reported) /\ (q.writes => Told(Rows(q.reported)))
  <2>1. PICK f \in Folder, g \in Folder :
           \/ q = Request(<<Entries(f)>>, FALSE, <<Entries(f), Entries(g)>>, Watched \in {f, g})
           \/ q = Request(<<Entries(f)>>, TRUE, <<Entries(g), Entries(f)>>, Watched \in {f, g})
    BY <1>3, Zenon DEF Moves
  <2>2. /\ q.path = <<Entries(f)>> /\ q.writes = (Watched \in {f, g})
        /\ q.reported \in {<<Entries(f), Entries(g)>>, <<Entries(g), Entries(f)>>}
    BY <2>1 DEF Request
  <2>3. PICK a \in Row, b \in Row : a = Entries(f) /\ b = Entries(g)
    BY <1>1
  <2>4. /\ <<a>> \in Seq(Row) /\ <<a>> # <<>> /\ Rows(<<a>>) = {a}
        /\ <<a, b>> \in Seq(Row) /\ <<a, b>> # <<>> /\ Rows(<<a, b>>) = {a, b}
        /\ <<b, a>> \in Seq(Row) /\ <<b, a>> # <<>> /\ Rows(<<b, a>>) = {a, b}
    <3>1. {a, b} = {b, a}
      OBVIOUS
    <3> QED
      BY <3>1, ShortLists
  <2>5. q.path = <<a>> /\ q.reported \in {<<a, b>>, <<b, a>>} /\ (q.writes => Told({a, b}))
    BY <1>2, <2>2, <2>3
  <2>6. CASE q.reported = <<a, b>>
    BY <2>4, <2>5, <2>6
  <2>7. CASE q.reported = <<b, a>>
    BY <2>4, <2>5, <2>7
  <2> QED
    BY <2>5, <2>6, <2>7
<1>4. ASSUME q \in Bulk
      PROVE  /\ q.path = <<>> /\ q.reported \in Seq(Row) /\ q.reported # <<>>
             /\ q.writes => Told(Rows(q.reported))
  <2>1. PICK f \in Folder :
           \/ q = Request(<<>>, FALSE, <<Entries(f)>>, f = Watched)
           \/ \E g \in Folder : q = Request(<<>>, FALSE, <<Entries(f), Entries(g)>>, Watched \in {f, g})
    <3>1. PICK f \in Folder :
             q \in {Request(<<>>, FALSE, <<Entries(f)>>, f = Watched)}
                   \cup {Request(<<>>, FALSE, <<Entries(f), Entries(g)>>, Watched \in {f, g}) : g \in Folder \ {f}}
      BY <1>4, Zenon DEF Bulk
    <3>2. CASE q \in {Request(<<>>, FALSE, <<Entries(f)>>, f = Watched)}
      BY <3>2, Zenon
    <3>3. CASE q \in {Request(<<>>, FALSE, <<Entries(f), Entries(g)>>, Watched \in {f, g}) : g \in Folder \ {f}}
      <4>1. PICK g \in Folder \ {f} : q = Request(<<>>, FALSE, <<Entries(f), Entries(g)>>, Watched \in {f, g})
        BY <3>3, Zenon
      <4>2. \E h \in Folder : q = Request(<<>>, FALSE, <<Entries(f), Entries(h)>>, Watched \in {f, h})
        BY <4>1, Zenon
      <4> QED
        BY <4>2, Zenon
    <3> QED
      BY <3>1, <3>2, <3>3, Zenon
  <2>2. CASE q = Request(<<>>, FALSE, <<Entries(f)>>, f = Watched)
    <3>1. q.path = <<>> /\ q.reported = <<Entries(f)>> /\ q.writes = (f = Watched)
      BY <2>2 DEF Request
    <3>2. <<Entries(f)>> \in Seq(Row) /\ <<Entries(f)>> # <<>> /\ Rows(<<Entries(f)>>) = {Entries(f)}
      BY <1>1, ShortLists
    <3> QED
      BY <1>2, <3>1, <3>2
  <2>3. ASSUME NEW g \in Folder, q = Request(<<>>, FALSE, <<Entries(f), Entries(g)>>, Watched \in {f, g})
        PROVE  /\ q.path = <<>> /\ q.reported \in Seq(Row) /\ q.reported # <<>>
               /\ q.writes => Told(Rows(q.reported))
    <3>1. q.path = <<>> /\ q.reported = <<Entries(f), Entries(g)>> /\ q.writes = (Watched \in {f, g})
      BY <2>3 DEF Request
    <3>2. /\ <<Entries(f), Entries(g)>> \in Seq(Row) /\ <<Entries(f), Entries(g)>> # <<>>
          /\ Rows(<<Entries(f), Entries(g)>>) = {Entries(f), Entries(g)}
      BY <1>1, ShortLists
    <3> QED
      BY <1>2, <3>1, <3>2
  <2> QED
    BY <2>1, <2>2, <2>3
<1>5. ASSUME q \in EntryRequests \cup FolderRequests
      PROVE  /\ q.path \in Seq(Row) /\ q.reported \in Seq(Row)
             /\ q.path # <<>> \/ q.reported # <<>> \/ ~q.complete
             /\ q.writes => \/ Told(Rows(q.path)) \/ Told(Rows(q.reported))
                            \/ ~q.complete /\ q.reported = <<>>
  <2>1. PICK f \in Folder :
           \/ q = Request(<<Entries(f)>>, TRUE, <<>>, f = Watched)
           \/ q = Request(<<Tree(f)>>, TRUE, <<>>, f \in Above)
           \/ q = Request(<<>>, FALSE, <<Tree(f)>>, f = Watched)
           \/ q = Request(<<>>, FALSE, <<>>, f \in Above)
    BY <1>5, Zenon DEF EntryRequests, FolderRequests
  <2>2. PICK a \in Row, b \in Row : a = Entries(f) /\ b = Tree(f)
    BY <1>1
  <2>3. \/ q.path = <<a>> /\ q.reported = <<>> /\ (q.writes => f = Watched)
        \/ q.path = <<b>> /\ q.reported = <<>> /\ (q.writes => f \in Above)
        \/ q.path = <<>> /\ q.reported = <<b>> /\ (q.writes => f = Watched)
        \/ q.path = <<>> /\ q.reported = <<>> /\ ~q.complete
    <3>1. CASE q = Request(<<Entries(f)>>, TRUE, <<>>, f = Watched)
      BY <2>2, <3>1 DEF Request
    <3>2. CASE q = Request(<<Tree(f)>>, TRUE, <<>>, f \in Above)
      BY <2>2, <3>2 DEF Request
    <3>3. CASE q = Request(<<>>, FALSE, <<Tree(f)>>, f = Watched)
      BY <2>2, <3>3 DEF Request
    <3>4. CASE q = Request(<<>>, FALSE, <<>>, f \in Above)
      BY <3>4 DEF Request
    <3> QED
      BY <2>1, <3>1, <3>2, <3>3, <3>4
  <2>4. (f = Watched => Tells(a) /\ Tells(b)) /\ (f \in Above => Tells(b))
    BY <1>2, <2>2, FolderAssumption
  <2>5. /\ <<>> \in Seq(Row) /\ <<a>> \in Seq(Row) /\ <<a>> # <<>> /\ Rows(<<a>>) = {a}
        /\ <<b>> \in Seq(Row) /\ <<b>> # <<>> /\ Rows(<<b>>) = {b}
    BY ShortLists
  <2> QED
    BY <2>3, <2>4, <2>5
<1>6. q.path \in Seq(Row) /\ q.reported \in Seq(Row)
  <2>1. <<>> \in Seq(Row)
    BY EmptySeq
  <2> QED
    BY <1>3, <1>4, <1>5, <2>1 DEF ab_changes_for_request
<1>7. tail \in Seq(Row) /\ (q.path # <<>> \/ q.reported # <<>> \/ tail # <<>>)
  <2>1. <<>> \in Seq(Row) /\ <<All>> \in Seq(Row) /\ <<All>> # <<>>
    BY <1>2, ShortLists
  <2> QED
    BY <1>3, <1>4, <1>5, <2>1 DEF ab_changes_for_request
<1>8. Found(q) = (q.path \o q.reported) \o tail
  BY DEF Found
<1>9. q.reported # <<>> => tail = <<>>
  OBVIOUS
<1> HIDE DEF tail
<1>10. /\ q.path \o q.reported \in Seq(Row)
       /\ Len(q.path \o q.reported) = Len(q.path) + Len(q.reported)
  BY <1>6, ConcatProperties
<1>11. Found(q) \in Seq(Row) /\ Len(Found(q)) = Len(q.path) + Len(q.reported) + Len(tail)
  BY <1>7, <1>8, <1>10, ConcatProperties
<1>12. Rows(Found(q)) = Rows(q.path) \cup Rows(q.reported) \cup Rows(tail)
  BY <1>6, <1>7, <1>8, <1>10, RowsConcat
<1>13. Found(q) # <<>>
  <2>1. Len(q.path) \in Nat /\ Len(q.reported) \in Nat /\ Len(tail) \in Nat
        /\ (Len(q.path) # 0 \/ Len(q.reported) # 0 \/ Len(tail) # 0)
    <3>1. \A s \in Seq(Row) : Len(s) \in Nat /\ (s # <<>> => Len(s) # 0)
      OBVIOUS
    <3> QED
      BY <3>1, <1>6, <1>7
  <2> QED
    <3>1. Len(Found(q)) # 0
      <4>1. PICK x \in Nat, y \in Nat, z \in Nat :
               x = Len(q.path) /\ y = Len(q.reported) /\ z = Len(tail)
        BY <2>1
      <4>2. Len(Found(q)) = x + y + z /\ (x # 0 \/ y # 0 \/ z # 0)
        BY <1>11, <2>1, <4>1
      <4> QED
        BY <4>2
    <3>2. Len(<<>>) = 0
      OBVIOUS
    <3> QED
      BY <3>1, <3>2
<1>14. Rows(<<>>) = {} /\ Rows(<<All>>) = {All}
  BY <1>2, ShortLists
<1>15. q.writes => Told(Rows(Found(q)))
  BY <1>2, <1>3, <1>4, <1>5, <1>12, <1>14 DEF tail, ab_changes_for_request
<1> QED
  BY <1>3, <1>9, <1>11, <1>12, <1>13, <1>14, <1>15

\* What record makes of the log.
LEMMA RecordLog ==
    ASSUME TypeOK, Ordered, version < MaxVersion,
           NEW rows \in Seq(Row), rows # <<>>, record(rows)
    PROVE  /\ version' \in 1..MaxVersion /\ version' = version + 1 /\ epoch' = epoch
           /\ recent' \in Seq(LogRow) /\ recent' # <<>> /\ Len(recent') <= LogLen /\ Ordered'
           /\ oldest_complete' \in 0..(MaxVersion + 1)
           /\ recent # <<>> => oldest_complete <= oldest_complete'
           /\ recent = <<>> => version + 1 <= oldest_complete'
           /\ \A i \in DOMAIN recent :
                 \/ recent[i].v + 1 <= oldest_complete'
                 \/ \E j \in DOMAIN recent' : recent'[j] = recent[i]
           /\ \A i \in DOMAIN rows :
                 \/ version + 2 <= oldest_complete'
                 \/ \E j \in DOMAIN recent' : recent'[j].v = version + 1 /\ recent'[j].row = rows[i]
<1> DEFINE P == Pushed(rows)
           e == Evicted(rows)
           new == [i \in 1..Len(rows) |-> [v |-> version + 1, row |-> rows[i]]]
<1>1. version \in Nat /\ MaxVersion \in Nat /\ LogLen \in Nat /\ LogLen > 0 /\ recent \in Seq(LogRow)
      /\ Len(recent) <= LogLen /\ oldest_complete \in 0..(MaxVersion + 1)
  BY BoundAssumption DEF TypeOK, LogType, LogRow
<1>2. new \in Seq(LogRow) /\ Len(new) = Len(rows)
  BY <1>1 DEF LogRow
<1>3. P = recent \o new
  BY DEF Pushed
<1> HIDE DEF new, P, e
<1>4. P \in Seq(LogRow) /\ Len(P) = Len(recent) + Len(rows)
  <2>1. recent \o new \in Seq(LogRow) /\ Len(recent \o new) = Len(recent) + Len(new)
    BY <1>1, <1>2, ConcatProperties
  <2> QED
    BY <2>1, <1>2, <1>3
<1>5. Len(recent) \in Nat /\ Len(rows) \in Nat /\ Len(rows) > 0
      /\ DOMAIN recent = 1..Len(recent) /\ DOMAIN rows = 1..Len(rows)
  BY <1>1
<1>6. \A i \in 1..Len(recent) : P[i] = recent[i]
  BY <1>1, <1>2, <1>3, <1>5, ConcatProperties
<1>7. \A i \in 1..Len(rows) :
         P[Len(recent) + i].v = version + 1 /\ P[Len(recent) + i].row = rows[i]
  <2> SUFFICES ASSUME NEW i \in 1..Len(rows)
               PROVE  P[Len(recent) + i].v = version + 1 /\ P[Len(recent) + i].row = rows[i]
    OBVIOUS
  <2>1. Len(recent) + i \in 1..(Len(recent) + Len(rows)) /\ ~(Len(recent) + i <= Len(recent))
        /\ (Len(recent) + i) - Len(recent) = i
    BY <1>5
  <2>2. P[Len(recent) + i] = new[i]
    BY <1>1, <1>2, <1>3, <2>1, ConcatProperties
  <2> QED
    BY <2>2 DEF new
<1>8. e \in Nat /\ e < Len(P) /\ Len(P) - e <= LogLen
  BY <1>1, <1>4, <1>5 DEF Evicted, Larger, P, e
<1>9. /\ recent' = SubSeq(P, e + 1, Len(P))
      /\ version' = version + 1 /\ epoch' = epoch
      /\ oldest_complete' = Complete(rows)
  BY DEF record, P, e
<1>10. /\ recent' \in Seq(LogRow) /\ Len(recent') = Len(P) - e
       /\ \A i \in 1..(Len(P) - e) : recent'[i] = P[e + i]
  BY <1>4, <1>8, <1>9
<1>11. DOMAIN recent' = 1..(Len(P) - e) /\ recent' # <<>>
  BY <1>4, <1>8, <1>10
<1>12. \A i \in 1..Len(P) : i > e => \E j \in DOMAIN recent' : recent'[j] = P[i]
  <2> SUFFICES ASSUME NEW i \in 1..Len(P), i > e
               PROVE  \E j \in DOMAIN recent' : recent'[j] = P[i]
    OBVIOUS
  <2>1. i - e \in 1..(Len(P) - e) /\ e + (i - e) = i
    BY <1>4, <1>8
  <2> QED
    BY <2>1, <1>10, <1>11
\* The whole of what was pushed is in the order of its versions.
<1>13. \A i \in 1..Len(P) :
          P[i].v \in 1..MaxVersion /\ P[i].v <= version + 1 /\ \A j \in 1..i : P[j].v <= P[i].v
  <2> SUFFICES ASSUME NEW i \in 1..Len(P)
               PROVE  /\ P[i].v \in 1..MaxVersion /\ P[i].v <= version + 1
                      /\ \A j \in 1..i : P[j].v <= P[i].v
    OBVIOUS
  <2>1. \A j \in 1..Len(P) : P[j].v \in 1..MaxVersion
    <3>1. \A j \in 1..Len(P) : P[j] \in LogRow
      BY <1>4
    <3> QED
      BY <3>1 DEF LogRow
  <2>2. \A j \in 1..Len(recent) : P[j].v <= version
    BY <1>5, <1>6 DEF Ordered
  <2>3. \A j \in 1..Len(P) : j > Len(recent) => P[j].v = version + 1
    <3> SUFFICES ASSUME NEW j \in 1..Len(P), j > Len(recent) PROVE P[j].v = version + 1
      OBVIOUS
    <3>1. j - Len(recent) \in 1..Len(rows) /\ Len(recent) + (j - Len(recent)) = j
      BY <1>4, <1>5
    <3> QED
      BY <3>1, <1>7
  <2>4. CASE i > Len(recent)
    <3>1. P[i].v = version + 1
      BY <2>3, <2>4
    <3>2. ASSUME NEW j \in 1..i PROVE P[j].v <= version + 1
      <4>1. j \in 1..Len(P) /\ (j > Len(recent) \/ j \in 1..Len(recent))
        BY <1>4, <1>5
      <4> QED
        BY <4>1, <1>1, <2>1, <2>2, <2>3
    <3> QED
      BY <1>1, <2>1, <3>1, <3>2
  <2>5. CASE i <= Len(recent)
    <3>1. i \in DOMAIN recent /\ P[i] = recent[i] /\ \A j \in 1..i : P[j] = recent[j]
      BY <1>5, <1>6, <2>5
    <3>2. \A j \in 1..i : P[j].v <= P[i].v
      BY <3>1 DEF Ordered
    <3>3. P[i].v \in 1..MaxVersion /\ P[i].v <= version
      BY <2>1, <2>2, <1>5, <2>5
    <3> QED
      BY <1>1, <3>2, <3>3
  <2> QED
    BY <1>5, <2>4, <2>5
<1> DEFINE base == IF recent = <<>> THEN version + 1 ELSE oldest_complete
<1>14. /\ base \in 0..(MaxVersion + 1) /\ base \in Int
       /\ (recent # <<>> => oldest_complete <= base) /\ (recent = <<>> => version + 1 <= base)
  BY <1>1
<1>15. oldest_complete' = IF e = 0 THEN base ELSE Larger(base, P[e].v + 1)
  BY <1>9 DEF Complete, e, P
<1> HIDE DEF base
<1>16. /\ oldest_complete' \in 0..(MaxVersion + 1) /\ base <= oldest_complete'
       /\ \A i \in 1..e : P[i].v + 1 <= oldest_complete'
  <2>1. CASE e = 0
    BY <1>14, <1>15, <2>1
  <2>2. CASE e # 0
    <3>1. e \in 1..Len(P) /\ P[e].v \in 1..MaxVersion /\ \A i \in 1..e : P[i].v <= P[e].v /\ P[i].v \in Int
      BY <1>4, <1>8, <1>13, <2>2
    <3>2. oldest_complete' = Larger(base, P[e].v + 1)
      BY <1>15, <2>2
    <3>3. /\ oldest_complete' \in {base, P[e].v + 1}
          /\ base <= oldest_complete' /\ P[e].v + 1 <= oldest_complete'
      BY <1>14, <3>1, <3>2 DEF Larger
    <3>4. oldest_complete' \in 0..(MaxVersion + 1)
      BY <1>1, <1>14, <3>1, <3>3
    <3>5. ASSUME NEW i \in 1..e PROVE P[i].v + 1 <= oldest_complete'
      BY <3>1, <3>3, <3>4
    <3> QED
      BY <3>3, <3>4, <3>5
  <2> QED
    BY <2>1, <2>2
<1>17. \A i \in 1..Len(P) :
          P[i].v + 1 <= oldest_complete' \/ \E j \in DOMAIN recent' : recent'[j] = P[i]
  BY <1>4, <1>8, <1>12, <1>16
<1>18. \A i \in DOMAIN recent :
          \/ recent[i].v + 1 <= oldest_complete'
          \/ \E j \in DOMAIN recent' : recent'[j] = recent[i]
  BY <1>4, <1>5, <1>6, <1>17
<1>19. \A i \in DOMAIN rows :
          \/ version + 2 <= oldest_complete'
          \/ \E j \in DOMAIN recent' : recent'[j].v = version + 1 /\ recent'[j].row = rows[i]
  <2> SUFFICES ASSUME NEW i \in 1..Len(rows)
               PROVE  \/ version + 2 <= oldest_complete'
                      \/ \E j \in DOMAIN recent' : recent'[j].v = version + 1 /\ recent'[j].row = rows[i]
    BY <1>5
  <2>1. Len(recent) + i \in 1..Len(P)
    BY <1>4, <1>5
  <2> QED
    <3>1. P[Len(recent) + i].v = version + 1 /\ P[Len(recent) + i].row = rows[i]
      BY <1>7
    <3>2. CASE P[Len(recent) + i].v + 1 <= oldest_complete'
      BY <1>1, <3>1, <3>2
    <3>3. CASE \E j \in DOMAIN recent' : recent'[j] = P[Len(recent) + i]
      BY <3>1, <3>3
    <3> QED
      BY <2>1, <1>17, <3>2, <3>3
<1>20. Ordered'
  <2> SUFFICES ASSUME NEW i \in DOMAIN recent'
               PROVE  recent'[i].v <= version' /\ \A j \in 1..i : recent'[j].v <= recent'[i].v
    BY DEF Ordered
  <2>1. e + i \in 1..Len(P) /\ recent'[i] = P[e + i]
    BY <1>4, <1>8, <1>10, <1>11
  <2>2. \A j \in 1..i : e + j \in 1..(e + i) /\ recent'[j] = P[e + j]
    BY <1>4, <1>8, <1>10, <1>11
  <2> QED
    BY <2>1, <2>2, <1>9, <1>13
<1>21. version' \in 1..MaxVersion /\ Len(recent') <= LogLen
  BY <1>1, <1>8, <1>9, <1>10
<1>22. (recent # <<>> => oldest_complete <= oldest_complete') /\ (recent = <<>> => version + 1 <= oldest_complete')
  BY <1>1, <1>14, <1>16
<1> QED
  BY <1>9, <1>10, <1>11, <1>16, <1>18, <1>19, <1>20, <1>21, <1>22

\* A page that was to be told still is after a record, and any page that has
\* not seen the version is told of what a row of it tells.
LEMMA RecordDue ==
    ASSUME TypeOK, Ordered, version < MaxVersion,
           NEW rows \in Seq(Row), rows # <<>>, record(rows),
           NEW n \in Int, n <= version
    PROVE  /\ Due(n) => Due(n)'
           /\ (\E row \in Rows(rows) : Tells(row)) => Due(n)'
<1>1. /\ version \in Nat /\ version' = version + 1 /\ oldest_complete \in Int /\ oldest_complete' \in Int
      /\ recent \in Seq(LogRow)
  BY RecordLog DEF TypeOK, LogType, LogRow
<1>2. /\ recent # <<>> => oldest_complete <= oldest_complete'
      /\ recent = <<>> => version + 1 <= oldest_complete'
      /\ \A i \in DOMAIN recent :
            \/ recent[i].v + 1 <= oldest_complete'
            \/ \E j \in DOMAIN recent' : recent'[j] = recent[i]
      /\ \A i \in DOMAIN rows :
            \/ version + 2 <= oldest_complete'
            \/ \E j \in DOMAIN recent' : recent'[j].v = version + 1 /\ recent'[j].row = rows[i]
  BY RecordLog
<1>3. n < version'
  BY <1>1
<1>4. \A row : Tells(row)' = Tells(row)
  BY DEF Tells
<1>5. ASSUME Due(n) PROVE Due(n)'
  <2>1. CASE recent = <<>>
    <3>1. n + 1 < oldest_complete'
      BY <1>1, <1>2, <1>5, <2>1 DEF Due
    <3> QED
      BY <3>1, <1>3 DEF Due
  <2>2. CASE recent # <<>> /\ n + 1 < oldest_complete
    <3>1. n + 1 < oldest_complete'
      BY <1>1, <1>2, <2>2
    <3> QED
      BY <3>1, <1>3 DEF Due
  <2>3. CASE \E i \in DOMAIN recent : recent[i].v > n /\ Tells(recent[i].row)
    <3>1. PICK i \in DOMAIN recent : recent[i].v > n /\ Tells(recent[i].row)
      BY <2>3
    <3>2. recent[i].v \in Int
      <4>1. recent[i] \in LogRow
        BY <1>1
      <4> QED
        BY <4>1 DEF LogRow
    <3>3. CASE recent[i].v + 1 <= oldest_complete'
      <4>1. n + 1 < oldest_complete'
        BY <1>1, <3>1, <3>2, <3>3
      <4> QED
        BY <4>1, <1>3 DEF Due
    <3>4. CASE \E j \in DOMAIN recent' : recent'[j] = recent[i]
      BY <3>1, <3>4, <1>3, <1>4 DEF Due
    <3> QED
      BY <1>2, <3>3, <3>4
  <2> QED
    BY <1>5, <2>1, <2>2, <2>3 DEF Due
<1>6. ASSUME NEW row \in Rows(rows), Tells(row) PROVE Due(n)'
  <2>1. PICK i \in DOMAIN rows : rows[i] = row
    BY DEF Rows
  <2>2. CASE version + 2 <= oldest_complete'
    <3>1. n + 1 < oldest_complete'
      BY <1>1, <2>2
    <3> QED
      BY <3>1, <1>3 DEF Due
  <2>3. CASE \E j \in DOMAIN recent' : recent'[j].v = version + 1 /\ recent'[j].row = rows[i]
    <3>1. PICK j \in DOMAIN recent' : recent'[j].v = version + 1 /\ recent'[j].row = row
      BY <2>1, <2>3
    <3>2. recent'[j].v > n
      BY <1>1, <3>1
    <3> QED
      BY <3>1, <3>2, <1>3, <1>4, <1>6 DEF Due
  <2> QED
    BY <1>2, <2>2, <2>3
<1> QED
  BY <1>5, <1>6

\* What is due is in the answer of since.
LEMMA SinceTells ==
    ASSUME TypeOK, NEW n \in Int, Due(n)
    PROVE  \E row \in Bounded(since(n)) : Tells(row)
<1>1. Tells(All) /\ Tells(TreeAnywhere)
  BY DEF Tells, All, TreeAnywhere, Tree
<1>2. n < version /\ version \in Nat
  BY DEF Due, TypeOK, LogType
<1>3. \E row \in since(n) : Tells(row)
  <2> DEFINE rows == {recent[i].row : i \in {j \in DOMAIN recent : recent[j].v > n}}
  <2>1. since(n) = IF n > version \/ recent = <<>> \/ n + 1 < oldest_complete \/ All \in rows
                   THEN {All} ELSE rows
    BY <1>2 DEF since
  <2>2. CASE since(n) = {All}
    BY <2>2, <1>1
  <2>3. CASE since(n) # {All}
    BY <2>1, <2>3 DEF Due
  <2> QED
    BY <2>2, <2>3
<1> QED
  BY <1>1, <1>3 DEF Bounded

-----------------------------------------------------------------------------
(* The invariant *)

LEMMA ChangesInit == Init => ChangesInv
<1> SUFFICES ASSUME Init PROVE ChangesInv
  OBVIOUS
<1>1. recent \in Seq([v : 1..MaxVersion, row : Row]) /\ Len(recent) = 0 /\ DOMAIN recent = {}
  BY DEF Init
<1>2. TypeOK
  <2>1. LogType
    BY <1>1, BoundAssumption DEF Init, LogType
  <2>2. BookType
    BY DEF Init, BookType
  <2>3. PollType
    BY BoundAssumption DEF Init, PollType
  <2>4. PageType
    <3>1. liveVersion \in {NoVersion} \cup 0..MaxVersion /\ liveEpoch \in 0..MaxEpoch
      BY BoundAssumption DEF Init
    <3>2. loaded = FALSE /\ stale = FALSE /\ unlogged = FALSE /\ early = FALSE
      BY DEF Init
    <3> QED
      BY <3>1, <3>2, Zenon DEF PageType
  <2> QED
    BY <2>1, <2>2, <2>3, <2>4 DEF TypeOK
<1>3. Ordered
  BY <1>1 DEF Ordered
<1>4. Seen
  BY DEF Init, Seen, NoVersion
<1>5. stale = FALSE /\ checked = {}
  BY DEF Init
<1>6. ~Hangs
  BY <1>5 DEF Hangs
<1> QED
  BY <1>2, <1>3, <1>4, <1>5, <1>6 DEF ChangesInv, LogTells, AnswerTells, RowsPlaced

\* Ending a request takes its slot back, and nothing else is pending for it.
LEMMA Forgotten ==
    ASSUME TypeOK, NEW r \in Req, Forget(r)
    PROVE  /\ request' \in [Req -> ab_changes_for_request \cup {Idle}] /\ wrote' \in [Req -> BOOLEAN]
           /\ \A s \in Req : wrote'[s] => wrote[s] /\ request'[s] = request[s]
           /\ Pending /\ ~Pending' => wrote[r]
  BY DEF TypeOK, BookType, Forget, Pending

\* A request that is logged, with rows that tell of all it may have written.
LEMMA LoggedStep ==
    ASSUME ChangesInv, NEW r \in Req, version < MaxVersion, Forget(r),
           NEW rows \in Seq(Row), rows # <<>>, record(rows),
           request[r].writes => \E row \in Rows(rows) : Tells(row),
           UNCHANGED <<open, admin, polling, page>>
    PROVE  ChangesInv'
<1> USE DEF ChangesInv
<1>1. TypeOK'
  <2>1. LogType'
    <3>1. version' \in 1..MaxVersion /\ oldest_complete' \in 0..(MaxVersion + 1) /\ epoch' = epoch
          /\ recent' \in Seq(LogRow) /\ Len(recent') <= LogLen
      BY RecordLog
    <3>2. version' \in 0..MaxVersion /\ epoch' \in 0..MaxEpoch
      BY <3>1 DEF TypeOK, LogType
    <3> QED
      BY <3>1, <3>2 DEF LogType, LogRow
  <2>2. request' \in [Req -> ab_changes_for_request \cup {Idle}] /\ wrote' \in [Req -> BOOLEAN]
    BY Forgotten
  <2>3. BookType'
    BY <2>2 DEF TypeOK, BookType
  <2>4. PollType'
    BY DEF TypeOK, PollType, polling
  <2>5. PageType'
    BY DEF TypeOK, PageType, page
  <2> QED
    BY <2>1, <2>3, <2>4, <2>5 DEF TypeOK
<1>2. Ordered'
  BY RecordLog
<1>3. version \in Nat /\ version' = version + 1 /\ epoch' = epoch
  BY RecordLog DEF TypeOK, LogType
<1>4. /\ liveVersion' = liveVersion /\ liveEpoch' = liveEpoch /\ answer' = answer /\ poll' = poll
      /\ checked' = checked /\ stale' = stale /\ unlogged' = unlogged /\ early' = early /\ open' = open
  BY DEF polling, page
<1>5. liveVersion \in Int /\ answer.version \in Int /\ epoch \in Int /\ liveEpoch \in Int /\ answer.epoch \in Int
  BY BoundAssumption DEF TypeOK, LogType, PollType, PageType, NoVersion
<1>7. Seen'
  <2>1. \A s \in Req : wrote'[s] => request'[s].writes
    BY Forgotten DEF Seen
  <2> QED
    BY <2>1, <1>3, <1>4, <1>5 DEF Seen
\* Whoever was to be told still is; and if r was the last to write, its rows tell.
<1>8. ASSUME Hangs', NEW n \in Int, n <= version, Hangs => Due(n) PROVE Due(n)'
  <2>1. (Due(n) => Due(n)') /\ ((\E row \in Rows(rows) : Tells(row)) => Due(n)')
    BY <1>8, RecordDue
  <2>2. CASE Pending
    <3>1. wrote[r]
      BY <2>2, <1>8, Forgotten DEF Hangs
    <3>2. \E row \in Rows(rows) : Tells(row)
      BY <3>1 DEF Seen
    <3> QED
      BY <3>2, <2>1
  <2>3. CASE ~Pending
    BY <2>1, <2>3, <1>4, <1>8 DEF Hangs
  <2> QED
    BY <2>2, <2>3
<1>9. LogTells'
  <2> SUFFICES ASSUME Hangs', liveVersion # NoVersion, liveEpoch = epoch PROVE Due(liveVersion)'
    BY <1>3, <1>4 DEF LogTells
  <2>1. PICK n \in Int : n = liveVersion
    BY <1>5
  <2>2. n <= version /\ (Hangs => Due(n))
    BY <2>1 DEF Seen, LogTells
  <2>3. Due(n)'
    BY <2>2, <1>8
  <2> QED
    BY <2>1, <2>3, <1>4 DEF Due
<1>10. AnswerTells'
  <2> DEFINE told == \/ liveVersion # NoVersion /\ answer.epoch # liveEpoch
                     \/ liveVersion # NoVersion /\ \E row \in answer.rows \cup checked : Tells(row)
  <2> SUFFICES ASSUME Hangs', poll \in {"logged", "answered"}, answer.epoch = epoch, ~told
               PROVE  Due(answer.version)'
    BY <1>3, <1>4 DEF AnswerTells, Tells
  <2>1. PICK n \in Int : n = answer.version
    BY <1>5
  <2>2. n <= version /\ (Hangs => Due(n))
    BY <2>1 DEF Seen, AnswerTells
  <2>3. Due(n)'
    BY <2>2, <1>8
  <2> QED
    BY <2>1, <2>3, <1>4 DEF Due
<1> QED
  BY <1>1, <1>2, <1>4, <1>7, <1>9, <1>10 DEF RowsPlaced

\* The conjuncts that a step which leaves the log alone has to show.
LEMMA QuietStep ==
    ASSUME ChangesInv, UNCHANGED log, TypeOK', RowsPlaced', Seen',
           \/ ~Hangs'
           \/ /\ Hangs /\ UNCHANGED <<liveVersion, liveEpoch>>
              /\ \/ poll' \notin {"logged", "answered"}
                 \/ /\ poll \in {"logged", "answered"}
                    /\ answer'.version = answer.version /\ answer'.epoch = answer.epoch
                    /\ \A row \in answer.rows \cup checked :
                          Tells(row) => \E row2 \in answer'.rows \cup checked' : Tells(row2)
    PROVE  ChangesInv'
<1>1. version' = version /\ recent' = recent /\ oldest_complete' = oldest_complete /\ epoch' = epoch
  BY DEF log
<1>2. Ordered'
  BY <1>1 DEF ChangesInv, Ordered
<1>3. CASE ~Hangs'
  BY <1>2, <1>3 DEF ChangesInv, LogTells, AnswerTells
<1>4. CASE /\ Hangs /\ UNCHANGED <<liveVersion, liveEpoch>>
           /\ \/ poll' \notin {"logged", "answered"}
              \/ /\ poll \in {"logged", "answered"}
                 /\ answer'.version = answer.version /\ answer'.epoch = answer.epoch
                 /\ \A row \in answer.rows \cup checked :
                       Tells(row) => \E row2 \in answer'.rows \cup checked' : Tells(row2)
  <2>1. LogTells'
    BY <1>1, <1>4 DEF ChangesInv, LogTells, Due, Tells
  <2>2. AnswerTells'
    BY <1>1, <1>4 DEF ChangesInv, AnswerTells, Due, Tells
  <2> QED
    BY <1>2, <2>1, <2>2 DEF ChangesInv
<1> QED
  BY <1>3, <1>4

\* What since answers is rows.
LEMMA SinceRows == ASSUME TypeOK PROVE Bounded(since(liveVersion)) \subseteq Row
<1>1. All \in Row /\ TreeAnywhere \in Row
  <2>1. All \in Row
    BY DEF Row
  <2>2. TreeAnywhere \in Row
    BY Zenon DEF Row
  <2> QED
    BY <2>1, <2>2
<1>2. \A i \in DOMAIN recent : recent[i] \in LogRow
  <2>1. recent \in Seq(LogRow)
    BY DEF TypeOK, LogType, LogRow
  <2> QED
    BY <2>1
<1>3. \A i \in DOMAIN recent : recent[i].row \in Row
  BY <1>2 DEF LogRow
<1>4. since(liveVersion) \subseteq Row
  BY <1>1, <1>3 DEF since
<1> QED
  BY <1>1, <1>4 DEF Bounded

LEMMA ChangesStep == ChangesInv /\ [Next]_vars => ChangesInv'
<1> SUFFICES ASSUME ChangesInv, [Next]_vars PROVE ChangesInv'
  OBVIOUS
<1>t. TypeOK /\ LogType /\ BookType /\ PollType /\ PageType /\ Seen /\ RowsPlaced
  BY DEF ChangesInv, TypeOK
<1>1. ASSUME NEW r \in Req, Begin(r) PROVE ChangesInv'
  <2>1. BookType'
    BY <1>t, <1>1 DEF Begin, BookType
  <2>2. UNCHANGED <<log, wrote, open, polling, page>> /\ (Hangs <=> Hangs')
    BY <1>1 DEF Begin, Hangs, Pending, page
  <2>3. TypeOK'
    BY <1>t, <2>1, <2>2 DEF TypeOK, LogType, PollType, PageType, log, polling, page
  <2>4. \A s \in Req : wrote'[s] => request'[s].writes
    <3>1. ~Idle.writes
      BY DEF Idle, Request
    <3> QED
      BY <1>t, <1>1, <3>1 DEF Begin, Seen, BookType
  <2>5. Seen' /\ RowsPlaced'
    BY <1>t, <2>2, <2>4 DEF Seen, RowsPlaced, log, polling, page
  <2> QED
    BY <2>2, <2>3, <2>5, QuietStep DEF polling, page
<1>2. ASSUME NEW r \in Req, Write(r) PROVE ChangesInv'
  <2>1. /\ UNCHANGED <<log, request, admin, polling, liveVersion, liveEpoch, loaded, unlogged, early>>
        /\ stale' = loaded
        /\ wrote' = [wrote EXCEPT ![r] = TRUE]
        /\ request[r].writes
    BY <1>2 DEF Write
  <2>2. open' \in BOOLEAN
    BY <1>2, <1>t DEF Write, BookType
  <2>3. BookType'
    BY <1>t, <2>1, <2>2 DEF BookType
  <2>4. PageType'
    BY <1>t, <2>1 DEF PageType
  <2>5. TypeOK'
    BY <1>t, <2>1, <2>3, <2>4 DEF TypeOK, LogType, PollType, log, polling
  <2>6. Pending'
    BY <1>t, <2>1 DEF Pending, BookType
  <2>7. \A s \in Req : wrote'[s] => request'[s].writes
    BY <1>t, <2>1 DEF Seen, BookType
  <2>8. Seen' /\ RowsPlaced'
    BY <1>t, <2>1, <2>7 DEF Seen, RowsPlaced, log, polling
  <2> QED
    BY <2>1, <2>5, <2>6, <2>8, QuietStep DEF Hangs
<1>3. ASSUME NEW r \in Req, Succeed(r) PROVE ChangesInv'
  <2>1. request[r] \in ab_changes_for_request
    BY <1>t, <1>3 DEF Succeed, BookType
  <2>2. PICK rows \in Seq(Row) : rows = Found(request[r]) /\ rows # <<>>
    BY <2>1, RequestRows
  <2>3. request[r].writes => \E row \in Rows(rows) : Tells(row)
    BY <2>1, <2>2, RequestRows
  <2>4. record(rows)
    BY <1>3, <2>2 DEF Succeed
  <2> QED
    BY <1>3, <2>2, <2>3, <2>4, LoggedStep DEF Succeed
<1>4. ASSUME NEW r \in Req, FailIncomplete(r) PROVE ChangesInv'
  <2>1. request[r] \in ab_changes_for_request /\ request[r] \in Moves
    BY <1>4 DEF FailIncomplete, ab_changes_for_request
  <2>2. PICK rows \in Seq(Row) : rows = request[r].reported /\ rows # <<>> /\ Rows(Found(request[r])) = Rows(rows)
    BY <2>1, RequestRows
  <2>3. request[r].writes => \E row \in Rows(rows) : Tells(row)
    BY <2>1, <2>2, RequestRows
  <2>4. record(rows)
    BY <1>4, <2>2 DEF FailIncomplete
  <2> QED
    BY <1>4, <2>2, <2>3, <2>4, LoggedStep DEF FailIncomplete
<1>5. ASSUME NEW r \in Req, Fail(r) PROVE ChangesInv'
  <2>1. /\ UNCHANGED <<log, open, admin, polling, liveVersion, liveEpoch, loaded, stale, early>>
        /\ unlogged' = (unlogged \/ (stale /\ wrote[r])) /\ Forget(r)
    BY <1>5 DEF Fail
  <2>2. /\ request' \in [Req -> ab_changes_for_request \cup {Idle}] /\ wrote' \in [Req -> BOOLEAN]
        /\ \A s \in Req : wrote'[s] => wrote[s] /\ request'[s] = request[s]
        /\ Pending /\ ~Pending' => wrote[r]
    BY <1>t, <2>1, Forgotten
  <2>3. BookType'
    BY <1>t, <2>1, <2>2 DEF BookType
  <2>4. unlogged' \in BOOLEAN
    BY <2>1
  <2>5. PageType'
    BY <1>t, <2>1, <2>4 DEF PageType
  <2>6. TypeOK'
    BY <1>t, <2>1, <2>3, <2>5 DEF TypeOK, LogType, PollType, log, polling
  <2>7. Seen' /\ RowsPlaced'
    BY <1>t, <2>1, <2>2 DEF Seen, RowsPlaced, log, polling
  <2>8. Hangs' => Hangs
    BY <2>1, <2>2 DEF Hangs
  <2> QED
    BY <2>1, <2>6, <2>7, <2>8, QuietStep DEF polling
<1>6. CASE Restart
  <2>1. /\ epoch' = epoch + 1 /\ version' = 0 /\ recent' = <<>> /\ oldest_complete' = 0
        /\ request' = [s \in Req |-> Idle] /\ wrote' = [s \in Req |-> FALSE]
        /\ epoch < MaxEpoch /\ answer' = answer /\ UNCHANGED <<open, admin, page>>
        /\ \/ poll' = "answered" /\ poll = "answered" /\ checked' = checked
           \/ poll' = "idle" /\ checked' = {}
    BY <1>6 DEF Restart, polling
  <2>2. LogType'
    <3>1. <<>> \in Seq([v : 1..MaxVersion, row : Row]) /\ Len(<<>>) = 0
      OBVIOUS
    <3> QED
      BY <1>t, <2>1, <3>1, BoundAssumption DEF LogType
  <2>3. BookType'
    BY <1>t, <2>1 DEF BookType
  <2>4. PollType'
    BY <1>t, <2>1 DEF PollType
  <2>5. PageType'
    BY <1>t, <2>1 DEF PageType, page
  <2>6. Ordered'
    BY <2>1 DEF Ordered
  <2>7. liveEpoch' = liveEpoch /\ liveEpoch < epoch' /\ answer'.epoch < epoch' /\ epoch' \in Int
        /\ liveEpoch \in Int /\ answer.epoch \in Int
    BY <1>t, <2>1, BoundAssumption DEF Seen, LogType, PollType, PageType, page
  <2>8. \A s \in Req : ~wrote'[s]
    BY <2>1
  <2>9. Seen'
    <3>1. /\ liveEpoch' <= epoch' /\ liveEpoch' # epoch'
          /\ answer'.epoch <= epoch' /\ answer'.epoch # epoch'
      BY <2>1, <2>7
    <3> QED
      BY <2>8, <3>1 DEF Seen
  <2>10. LogTells' /\ AnswerTells'
    BY <2>7 DEF LogTells, AnswerTells
  <2>11. RowsPlaced'
    BY <1>t, <2>1 DEF RowsPlaced
  <2> QED
    BY <2>2, <2>3, <2>4, <2>5, <2>6, <2>9, <2>10, <2>11 DEF ChangesInv, TypeOK
<1>7. CASE Load
  <2>1. UNCHANGED <<log, book, polling, liveVersion, liveEpoch, stale, unlogged, early>> /\ loaded' = TRUE
    BY <1>7 DEF Load
  <2>2. PageType'
    BY <1>t, <2>1 DEF PageType
  <2>3. TypeOK'
    BY <1>t, <2>1, <2>2 DEF TypeOK, LogType, BookType, PollType, log, book, polling
  <2>4. Seen' /\ RowsPlaced'
    BY <1>t, <2>1 DEF Seen, RowsPlaced, log, book, polling
  <2>5. Hangs' => Hangs
    BY <2>1 DEF Hangs, Pending, book
  <2> QED
    BY <2>1, <2>3, <2>4, <2>5, QuietStep DEF polling
<1>8. CASE Poll \/ PollFails
  <2>1. /\ UNCHANGED <<log, book, page>> /\ poll' \in {"idle", "sent"} /\ checked' = {}
        /\ answer' \in {answer, NoAnswer}
    BY <1>8, <1>t DEF Poll, PollFails, RowsPlaced
  <2>2. NoAnswer \in [version : 0..MaxVersion, epoch : 0..MaxEpoch, rows : SUBSET Row]
        /\ NoAnswer.epoch = 0 /\ NoAnswer.version = 0
    BY BoundAssumption DEF NoAnswer
  <2>3. PollType'
    BY <1>t, <2>1, <2>2 DEF PollType
  <2>4. TypeOK'
    BY <1>t, <2>1, <2>3 DEF TypeOK, LogType, BookType, PageType, log, book, page
  <2>5. answer'.epoch <= epoch /\ (answer'.epoch = epoch => answer'.version <= version)
    BY <1>t, <2>1, <2>2 DEF Seen, LogType
  <2>6. Seen' /\ RowsPlaced'
    BY <1>t, <2>1, <2>5 DEF Seen, RowsPlaced, log, book, page
  <2>7. (Hangs' => Hangs) /\ UNCHANGED <<liveVersion, liveEpoch>>
    BY <2>1 DEF Hangs, Pending, book, page
  <2> QED
    BY <2>1, <2>4, <2>6, <2>7, QuietStep
<1>9. CASE ab_version
  <2>1. /\ UNCHANGED <<log, book, liveVersion, liveEpoch, loaded, stale, unlogged>>
        /\ poll' = "logged" /\ checked' = {}
        /\ answer' = [version |-> version, epoch |-> epoch,
                       rows |-> IF liveVersion = NoVersion THEN {All} ELSE Bounded(since(liveVersion))]
        /\ early' = IF liveVersion = NoVersion THEN stale /\ ~Pending ELSE early
    BY <1>9 DEF ab_version
  <2>2. All \in Row
    BY DEF Row
  <2>3. answer'.rows \subseteq Row /\ answer'.version = version /\ answer'.epoch = epoch
    BY <1>t, <2>1, <2>2, SinceRows
  <2>4. PollType'
    BY <1>t, <2>1, <2>2, <2>3, SinceRows DEF PollType, LogType
  <2>5. PageType'
    <3>1. early' \in BOOLEAN
      BY <1>t, <2>1 DEF PageType
    <3> QED
      BY <1>t, <2>1, <3>1 DEF PageType
  <2>6. TypeOK'
    BY <1>t, <2>1, <2>4, <2>5 DEF TypeOK, LogType, BookType, log, book
  <2>7. Seen' /\ RowsPlaced'
    BY <1>t, <2>1, <2>3 DEF Seen, RowsPlaced, LogType, log, book
  <2>8. Pending' = Pending /\ open' = open /\ stale' = stale /\ unlogged' = unlogged
    BY <2>1 DEF Pending, book
  <2>9. CASE liveVersion = NoVersion
    <3>1. early' = (stale /\ ~Pending)
      BY <2>1, <2>9
    <3>2. ~Hangs'
      BY <2>8, <3>1 DEF Hangs
    <3> QED
      BY <2>1, <2>6, <2>7, <3>2, QuietStep
  <2>10. CASE liveVersion # NoVersion
    <3>1. early' = early /\ answer'.rows = Bounded(since(liveVersion))
      BY <2>1, <2>10
    <3>2. Hangs' => Hangs
      BY <2>8, <3>1 DEF Hangs
    <3>3. version' = version /\ recent' = recent /\ oldest_complete' = oldest_complete /\ epoch' = epoch
          /\ liveVersion' = liveVersion /\ liveEpoch' = liveEpoch
      BY <2>1 DEF log
    <3>4. Ordered' /\ LogTells'
      BY <3>2, <3>3 DEF ChangesInv, Ordered, LogTells, Due, Tells
    <3>5. AnswerTells'
      <4> SUFFICES ASSUME Hangs', liveEpoch = epoch
                   PROVE  \E row \in answer'.rows \cup checked' : Tells(row)
        BY <2>3, <2>10, <3>3 DEF AnswerTells, Tells
      <4>1. Due(liveVersion) /\ liveVersion \in Int
        BY <1>t, <2>10, <3>2, BoundAssumption DEF ChangesInv, LogTells, PageType
      <4> QED
        BY <1>t, <3>1, <4>1, SinceTells
    <3> QED
      BY <2>6, <2>7, <3>4, <3>5 DEF ChangesInv
  <2> QED
    BY <2>9, <2>10
<1>10. ASSUME NEW row \in Row, CheckRow(row) PROVE ChangesInv'
  <2>1. /\ UNCHANGED <<log, book, poll, page>> /\ poll = "logged" /\ row \in answer.rows
        /\ answer' = [answer EXCEPT !.rows = @ \ {row}]
        /\ \/ checked' = checked \cup {row}
           \/ row.kind = "entries" /\ (row.folder = Watched => ~open) /\ row.folder # NoFolder /\ checked' = checked
           \/ checked' = checked \cup {TreeAnywhere}
    BY <1>10 DEF CheckRow
  <2>2. TreeAnywhere \in Row
    BY Zenon DEF Row
  <2>3. answer'.rows = answer.rows \ {row} /\ answer'.version = answer.version /\ answer'.epoch = answer.epoch
    BY <1>t, <2>1 DEF PollType
  <2>4. PollType'
    BY <1>t, <2>1, <2>2 DEF PollType
  <2>5. TypeOK'
    BY <1>t, <2>1, <2>4 DEF TypeOK, LogType, BookType, PageType, log, book, page
  <2>6. Seen' /\ RowsPlaced'
    BY <1>t, <2>1, <2>3 DEF Seen, RowsPlaced, log, book, page
  <2>7. Hangs' => Hangs /\ open
    BY <2>1 DEF Hangs, Pending, book, page
  <2>8. ASSUME open, NEW row1 \in answer.rows \cup checked, Tells(row1)
        PROVE  \E row2 \in answer'.rows \cup checked' : Tells(row2)
    <3>1. CASE row1 # row \/ row1 \in checked
      BY <2>1, <2>3, <2>8, <3>1
    <3>2. CASE row1 = row
      <4>1. Tells(TreeAnywhere)
        BY DEF Tells, TreeAnywhere, Tree
      <4> QED
        BY <2>1, <2>8, <3>2, <4>1 DEF Tells
    <3> QED
      BY <3>1, <3>2
  <2>9. UNCHANGED <<liveVersion, liveEpoch>>
    BY <2>1 DEF page
  <2> QED
    BY <2>1, <2>3, <2>5, <2>6, <2>7, <2>8, <2>9, QuietStep
<1>11. CASE Respond
  <2>1. /\ UNCHANGED <<log, book, page>> /\ poll = "logged" /\ poll' = "answered" /\ checked' = {}
        /\ answer' = [answer EXCEPT !.rows = @ \cup checked]
    BY <1>11 DEF Respond
  <2>2. answer'.rows = answer.rows \cup checked /\ answer'.version = answer.version /\ answer'.epoch = answer.epoch
    BY <1>t, <2>1 DEF PollType
  <2>3. PollType'
    BY <1>t, <2>1 DEF PollType
  <2>4. TypeOK'
    BY <1>t, <2>1, <2>3 DEF TypeOK, LogType, BookType, PageType, log, book, page
  <2>5. Seen' /\ RowsPlaced'
    BY <1>t, <2>1, <2>2 DEF Seen, RowsPlaced, log, book, page
  <2>6. (Hangs' => Hangs) /\ UNCHANGED <<liveVersion, liveEpoch>>
    BY <2>1 DEF Hangs, Pending, book, page
  <2> QED
    BY <2>1, <2>2, <2>4, <2>5, <2>6, QuietStep
<1>12. CASE Adopt
  <2> DEFINE told == liveVersion # NoVersion /\ \E row \in liveChanges : Tells(row)
  <2>1. /\ UNCHANGED <<log, book, checked, loaded>> /\ poll = "answered" /\ poll' = "idle" /\ answer' = NoAnswer
        /\ liveVersion' = answer.version /\ liveEpoch' = answer.epoch
        /\ stale' = (stale /\ ~told) /\ unlogged' = (unlogged /\ ~told) /\ early' = (early /\ ~told)
    BY <1>12 DEF Adopt
  <2>2. NoAnswer \in [version : 0..MaxVersion, epoch : 0..MaxEpoch, rows : SUBSET Row]
        /\ NoAnswer.epoch = 0 /\ NoAnswer.version = 0
    BY BoundAssumption DEF NoAnswer
  <2>3. PollType'
    BY <1>t, <2>1, <2>2 DEF PollType
  <2>4. PageType'
    <3>1. stale' \in BOOLEAN /\ unlogged' \in BOOLEAN /\ early' \in BOOLEAN
      BY <2>1
    <3>2. liveVersion' \in 0..MaxVersion /\ liveEpoch' \in 0..MaxEpoch
      BY <1>t, <2>1 DEF PollType
    <3> QED
      BY <1>t, <2>1, <3>1, <3>2 DEF PageType
  <2>5. TypeOK'
    BY <1>t, <2>1, <2>3, <2>4 DEF TypeOK, LogType, BookType, log, book
  <2>6. version' = version /\ recent' = recent /\ oldest_complete' = oldest_complete /\ epoch' = epoch
    BY <2>1 DEF log
  <2>7. Seen' /\ RowsPlaced' /\ Ordered'
    BY <1>t, <2>1, <2>2, <2>6 DEF ChangesInv, Seen, RowsPlaced, Ordered, LogType, book
  <2>8. LogTells'
    <3> SUFFICES ASSUME Hangs' PROVE answer.epoch # epoch \/ Due(answer.version)
      BY <2>1, <2>6 DEF LogTells, Due, Tells
    <3>1. Hangs /\ ~told
      BY <2>1 DEF Hangs, Pending, book
    <3>2. checked = {} /\ Tells(All)
      BY <1>t, <2>1 DEF RowsPlaced, Tells, All
    <3> QED
      BY <2>1, <3>1, <3>2 DEF ChangesInv, AnswerTells, liveChanges
  <2>9. AnswerTells'
    BY <2>1 DEF AnswerTells
  <2> QED
    BY <2>5, <2>7, <2>8, <2>9 DEF ChangesInv
<1>13. CASE UNCHANGED vars
  <2>1. UNCHANGED <<log, book, polling, page>>
    BY <1>13 DEF vars
  <2>2. TypeOK' /\ Seen' /\ RowsPlaced' /\ (Hangs' => Hangs)
    BY <1>t, <2>1 DEF TypeOK, LogType, BookType, PollType, PageType, Seen, RowsPlaced,
                            Hangs, Pending, log, book, polling, page
  <2> QED
    BY <2>1, <2>2, QuietStep DEF polling, page
<1> QED
  BY <1>1, <1>2, <1>3, <1>4, <1>5, <1>6, <1>7, <1>8, <1>9, <1>10, <1>11, <1>12, <1>13
     DEF Next, RequestNext

\* The invariant holds throughout.
LEMMA ChangesAlways == Spec => []ChangesInv
  BY ChangesInit, ChangesStep, PTL DEF Spec

\* Type correctness of the change log, its requests and the page, for every
\* set of folders and every length of the log (api.rs, AddressBookChanges).
THEOREM ChangesTypeCorrect == Spec => []TypeOK
<1>1. ChangesInv => TypeOK
  BY DEF ChangesInv
<1> QED
  BY <1>1, ChangesAlways, PTL

\* A page that has caught up has missed no logged change of a folder its user
\* may open, however long the log is and whatever was evicted, withheld or
\* forgotten by a restart (record, since, ab_changes_visible_to, livePoll).
THEOREM NothingMissed == Spec => []NoChangeMissed
<1>1. ChangesInv => NoChangeMissed
  <2> SUFFICES ASSUME ChangesInv, CaughtUp, stale, open, ~Pending, ~unlogged, ~early PROVE FALSE
    BY DEF NoChangeMissed
  <2>1. Hangs /\ liveVersion # NoVersion /\ liveEpoch = epoch
    BY DEF Hangs, CaughtUp, ChangesInv, TypeOK, LogType, NoVersion
  <2>2. Due(liveVersion)
    BY <2>1 DEF ChangesInv, LogTells
  <2> QED
    BY <2>2 DEF Due, CaughtUp, ChangesInv, TypeOK, LogType
<1> QED
  BY <1>1, ChangesAlways, PTL
=============================================================================
