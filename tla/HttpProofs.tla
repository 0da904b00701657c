---------------------------- MODULE HttpProofs ----------------------------
(***************************************************************************)
(* The lines of the logger and the responses of the connections, for any   *)
(* number of connections, paths, files, descriptors and requests.          *)
(***************************************************************************)
EXTENDS Http, TLAPS

\* What clients send: request lines and what follows them.
Part == Lines \cup {Rest}

LogPlaces == {"log", "log_lock", "log_insert", "log_again", "log_write", "size"}

\* The places of conn_acceptor and of what it calls.
Place ==
  {"backlog", "recv", "parse", "open", "header", "body", "bare_400", "500", "closed"}
    \cup LogPlaces

ThreadState ==
  [at : Place, line : Lines, count : Nat, status : Nat, length : Nat, offset : Nat,
   file : BOOLEAN]

Types ==
  /\ th \in [Conns -> ThreadState]
  /\ stream \in [Conns -> Seq(Part)]
  /\ size \in [Paths -> Nat]
  /\ DOMAIN d_counts \subseteq Paths
  /\ d_counts \in [DOMAIN d_counts -> Nat]
  /\ lines \in [Paths -> Seq(Nat)]

\* Only paths come to the logger, and a thread that looks a second time has
\* had its path inserted.
InLog ==
  \A c \in Conns :
    /\ th[c].at \in LogPlaces => th[c].line \in Paths
    /\ th[c].at = "log_again" => th[c].line \in DOMAIN d_counts

\* A thread that has counted a request of p and not written the line.
Writing(c, p) == th[c].at = "log_write" /\ th[c].line = p

LinesDiffer ==
  \A p \in Paths : \A i, j \in 1..Len(lines[p]) : i # j => lines[p][i] # lines[p][j]

LinesBounded == \A p \in Paths : Written(p) \subseteq 1..Counted(p)

\* A number that a thread holds was counted and is on no line.
HeldApart ==
  \A p \in Paths : \A c \in Conns :
    Writing(c, p) => th[c].count \in 1..Counted(p) /\ th[c].count \notin Written(p)

\* No two threads hold the same number.
HeldDiffer ==
  \A p \in Paths : \A c, d \in Conns :
    Writing(c, p) /\ Writing(d, p) /\ c # d => th[c].count # th[d].count

\* No number is lost while the process runs.
NoneLost ==
  running =>
    \A p \in Paths : \A n \in 1..Counted(p) :
      n \in Written(p) \/ \E c \in Conns : Writing(c, p) /\ th[c].count = n

Numbers == LinesDiffer /\ LinesBounded /\ HeldApart /\ HeldDiffer /\ NoneLost

LogInv == Types /\ InLog /\ Numbers

LEMMA BacklogType == Backlog \in ThreadState
BY DEF Backlog, ThreadState, Lines, Place

\* A step that leaves alone the counts, the lines and the threads that are
\* about to write.
LEMMA NumbersStay ==
  ASSUME Numbers, running' => running,
         \A p \in Paths : lines'[p] = lines[p] /\ Counted(p)' = Counted(p),
         \A c \in Conns : \A p \in Paths :
           /\ Writing(c, p)' <=> Writing(c, p)
           /\ Writing(c, p) => th'[c].count = th[c].count
  PROVE  Numbers'
<1>1. \A p \in Paths : Written(p)' = Written(p)
  BY DEF Written
<1>2. LinesDiffer' /\ LinesBounded'
  BY <1>1 DEF Numbers, LinesDiffer, LinesBounded
<1>3. HeldApart' /\ HeldDiffer'
  <2>1. ASSUME NEW p \in Paths, NEW c \in Conns, Writing(c, p)'
        PROVE  /\ Writing(c, p) /\ th'[c].count = th[c].count
               /\ th'[c].count \in 1..Counted(p)' /\ th'[c].count \notin Written(p)'
    BY <1>1, <2>1 DEF Numbers, HeldApart
  <2>2. HeldApart'
    BY <2>1 DEF HeldApart
  <2>3. ASSUME NEW p \in Paths, NEW c \in Conns, NEW d \in Conns,
               Writing(c, p)', Writing(d, p)', c # d
        PROVE  th'[c].count # th'[d].count
    BY <2>1, <2>3 DEF Numbers, HeldDiffer
  <2> QED BY <2>2, <2>3 DEF HeldDiffer
<1>4. NoneLost'
  <2> SUFFICES ASSUME running', NEW p \in Paths, NEW n \in 1..Counted(p)'
               PROVE  n \in Written(p)' \/ \E c \in Conns : Writing(c, p)' /\ th'[c].count = n
    BY DEF NoneLost
  <2>1. n \in Written(p) \/ \E c \in Conns : Writing(c, p) /\ th[c].count = n
    BY DEF Numbers, NoneLost
  <2> QED BY <1>1, <2>1
<1> QED BY <1>2, <1>3, <1>4 DEF Numbers

(***************************************************************************)
(* A thread's state with another place in it.                              *)
(***************************************************************************)
LEMMA PlaceType ==
  ASSUME NEW t \in ThreadState, NEW a \in Place
  PROVE  /\ [t EXCEPT !.at = a] \in ThreadState
         /\ [t EXCEPT !.at = a].at = a
         /\ [t EXCEPT !.at = a].line = t.line
         /\ [t EXCEPT !.at = a].count = t.count
BY DEF ThreadState

LEMMA SubSeqType ==
  ASSUME NEW S, NEW s \in Seq(S), NEW n \in 1..Len(s)
  PROVE  SubSeq(s, n + 1, Len(s)) \in Seq(S)
<1>1. CASE n + 1 > Len(s)
  <2>1. SubSeq(s, n + 1, Len(s)) = << >>
    BY <1>1
  <2> QED BY <2>1
<1>2. CASE n + 1 <= Len(s)
  BY <1>2
<1> QED BY <1>1, <1>2

(***************************************************************************)
(* The initial state: nobody is in the logger and nothing was logged.      *)
(***************************************************************************)
LEMMA InitHolds == Init => LogInv
<1> SUFFICES ASSUME Init PROVE LogInv
  OBVIOUS
<1>1. Types
  <2>1. th \in [Conns -> ThreadState]
    BY BacklogType DEF Init
  <2>2. stream \in [Conns -> Seq(Part)] /\ lines \in [Paths -> Seq(Nat)]
    BY DEF Init
  <2>3. size \in [Paths -> Nat]
    BY SizeAssumption DEF Init
  <2>4. DOMAIN d_counts \subseteq Paths /\ d_counts \in [DOMAIN d_counts -> Nat]
    BY DEF Init
  <2> QED BY <2>1, <2>2, <2>3, <2>4 DEF Types
<1>2. InLog
  BY DEF Init, InLog, Backlog, LogPlaces
<1>3. Numbers
  <2>1. \A p \in Paths : lines[p] = << >> /\ Written(p) = {} /\ Counted(p) = 0
    BY DEF Init, Written, Counted
  <2>2. \A c \in Conns : \A p \in Paths : ~Writing(c, p)
    BY DEF Init, Backlog, Writing
  <2> QED BY <2>1, <2>2 DEF Numbers, LinesDiffer, LinesBounded, HeldApart, HeldDiffer, NoneLost
<1> QED BY <1>1, <1>2, <1>3 DEF LogInv

(***************************************************************************)
(* A thread that goes on outside of the logger, or into it with a path,    *)
(* disturbs nothing.                                                       *)
(***************************************************************************)
LEMMA ThreadMoves ==
  ASSUME LogInv, NEW c \in Conns, NEW t \in ThreadState,
         th' = [th EXCEPT ![c] = t],
         stream' \in [Conns -> Seq(Part)],
         size' = size, d_counts' = d_counts, lines' = lines, running' = running,
         th[c].at # "log_write", t.at # "log_write",
         t.at \in LogPlaces => t.line \in Paths,
         t.at = "log_again" => t.line \in DOMAIN d_counts
  PROVE  LogInv'
<1>1. Types'
  BY DEF LogInv, Types
<1>2. InLog'
  BY DEF LogInv, Types, InLog
<1>3. \A d \in Conns : \A p \in Paths :
        /\ Writing(d, p)' <=> Writing(d, p)
        /\ Writing(d, p) => th'[d].count = th[d].count
  BY DEF LogInv, Types, Writing
<1>4. \A p \in Paths : lines'[p] = lines[p] /\ Counted(p)' = Counted(p)
  BY DEF Counted
<1>5. Numbers'
  BY <1>3, <1>4, NumbersStay DEF LogInv
<1> QED BY <1>1, <1>2, <1>5 DEF LogInv

(***************************************************************************)
(* A count that goes up by one: the thread has a number that was not given *)
(* to another and is on no line.                                           *)
(***************************************************************************)
LEMMA Counting ==
  ASSUME LogInv, NEW c \in Conns, NEW p \in DOMAIN d_counts,
         Count(c, p), th[c].line = p, th[c].at # "log_write",
         stream' = stream, size' = size, running' = running
  PROVE  LogInv'
<1>0. p \in Paths /\ d_counts[p] \in Nat /\ th[c] \in ThreadState
  BY DEF LogInv, Types
<1> DEFINE n == d_counts[p] + 1
           t == [th[c] EXCEPT !.at = "log_write", !.count = n]
<1>1. /\ DOMAIN d_counts' = DOMAIN d_counts
      /\ d_counts'[p] = n
      /\ \A q \in DOMAIN d_counts \ {p} : d_counts'[q] = d_counts[q]
      /\ d_counts' \in [DOMAIN d_counts -> Nat]
      /\ lines' = lines
  BY <1>0 DEF Count, LogInv, Types
<1>2. /\ t \in ThreadState /\ t.at = "log_write" /\ t.line = p /\ t.count = n
      /\ th' = [th EXCEPT ![c] = t]
  <2>1. n \in Nat
    BY <1>0
  <2> HIDE DEF n
  <2>2. t \in ThreadState /\ t.at = "log_write" /\ t.line = p /\ t.count = n
    BY <1>0, <2>1 DEF ThreadState, Place, LogPlaces
  <2> QED BY <2>2 DEF Count, LogInv, Types, n
<1>3. n \in Nat /\ n \notin 1..d_counts[p] /\ 1..n = 1..d_counts[p] \cup {n}
  BY <1>0
<1> HIDE DEF n, t
<1>4. th'[c] = t /\ \A d \in Conns \ {c} : th'[d] = th[d]
  BY <1>2 DEF LogInv, Types
<1>5. Types'
  BY <1>1, <1>2 DEF LogInv, Types
<1>6. InLog'
  BY <1>0, <1>1, <1>2, <1>4 DEF LogInv, InLog
<1>7. /\ Counted(p) = d_counts[p] /\ Counted(p)' = n
      /\ \A q \in Paths \ {p} : Counted(q)' = Counted(q)
      /\ \A q \in Paths : Written(q)' = Written(q)
  BY <1>1 DEF Counted, Written
<1>8. \A q \in Paths : 1..Counted(q) \subseteq 1..Counted(q)'
  BY <1>3, <1>7
<1>9. /\ \A q \in Paths : Writing(c, q)' <=> q = p
      /\ \A q \in Paths : ~Writing(c, q)
      /\ \A d \in Conns \ {c} : \A q \in Paths :
           (Writing(d, q)' <=> Writing(d, q)) /\ th'[d].count = th[d].count
  BY <1>2, <1>4 DEF Writing
<1>10. LinesDiffer' /\ LinesBounded'
  BY <1>1, <1>7, <1>8 DEF LogInv, Numbers, LinesDiffer, LinesBounded
<1>11. HeldApart'
  <2> SUFFICES ASSUME NEW q \in Paths, NEW d \in Conns, Writing(d, q)'
               PROVE  th'[d].count \in 1..Counted(q)' /\ th'[d].count \notin Written(q)'
    BY DEF HeldApart
  <2>1. CASE d = c
    <3>1. q = p /\ th'[d].count = n
      BY <1>2, <1>4, <1>9, <2>1
    <3>2. n \in 1..n /\ n \notin Written(p)
      BY <1>3, <1>0, <1>7 DEF LogInv, Numbers, LinesBounded
    <3> QED BY <1>7, <3>1, <3>2
  <2>2. CASE d # c
    BY <1>7, <1>8, <1>9, <2>2 DEF LogInv, Numbers, HeldApart
  <2> QED BY <2>1, <2>2
<1>12. HeldDiffer'
  <2>1. ASSUME NEW q \in Paths, NEW d \in Conns, Writing(d, q)', d # c
        PROVE  Writing(d, q) /\ th'[d].count = th[d].count /\ th[d].count \in 1..Counted(q)
    BY <1>9, <2>1 DEF LogInv, Numbers, HeldApart
  <2>2. ASSUME NEW q \in Paths, NEW d \in Conns, Writing(d, q)', d # c, Writing(c, q)'
        PROVE  th'[d].count # th'[c].count
    <3>1. q = p /\ th'[c].count = n
      BY <1>2, <1>4, <1>9, <2>2
    <3> QED BY <1>3, <1>7, <2>1, <2>2, <3>1
  <2>3. ASSUME NEW q \in Paths, NEW d \in Conns, NEW e \in Conns, d # e, d # c, e # c,
               Writing(d, q)', Writing(e, q)'
        PROVE  th'[d].count # th'[e].count
    BY <2>1, <2>3 DEF LogInv, Numbers, HeldDiffer
  <2> QED BY <2>2, <2>3 DEF HeldDiffer
<1>13. NoneLost'
  <2> SUFFICES ASSUME running', NEW q \in Paths, NEW m \in 1..Counted(q)'
               PROVE  m \in Written(q)' \/ \E d \in Conns : Writing(d, q)' /\ th'[d].count = m
    BY DEF NoneLost
  <2>1. CASE q = p /\ m = n
    <3>1. Writing(c, q)' /\ th'[c].count = m
      BY <1>2, <1>4, <1>9, <2>1
    <3> QED BY <3>1
  <2>2. CASE m \in 1..Counted(q)
    <3>1. m \in Written(q) \/ \E d \in Conns : Writing(d, q) /\ th[d].count = m
      BY <2>2 DEF LogInv, Numbers, NoneLost
    <3> QED BY <1>7, <1>9, <3>1
  <2> QED BY <1>3, <1>7, <2>1, <2>2
<1> QED BY <1>5, <1>6, <1>10, <1>11, <1>12, <1>13 DEF LogInv, Numbers

(***************************************************************************)
(* The line is written: its number goes from the thread to the log.        *)
(***************************************************************************)
LEMMA LineWritten ==
  ASSUME LogInv, NEW c \in Conns, WriteLine(c), NEW p, p = th[c].line, NEW n, n = th[c].count
  PROVE  LogInv'
<1> DEFINE t == [th[c] EXCEPT !.at = "size", !.count = 0]
<1>0. /\ th[c] \in ThreadState /\ th[c].at = "log_write" /\ p \in Paths
      /\ lines[p] \in Seq(Nat) /\ n \in Nat
  BY DEF WriteLine, At, LogInv, Types, InLog, LogPlaces, ThreadState
<1>1. /\ lines' = [lines EXCEPT ![p] = Append(lines[p], n)]
      /\ stream' = stream /\ size' = size /\ d_counts' = d_counts /\ running' = running
  BY DEF WriteLine, clients
<1>2. /\ t \in ThreadState /\ t.at = "size" /\ t.line = p
      /\ th' = [th EXCEPT ![c] = t]
  <2>1. t \in ThreadState /\ t.at = "size" /\ t.line = p
    BY <1>0 DEF ThreadState, Place, LogPlaces
  <2> QED BY <2>1 DEF WriteLine, LogInv, Types
<1> HIDE DEF t
<1>3. /\ lines' \in [Paths -> Seq(Nat)] /\ lines'[p] = Append(lines[p], n)
      /\ \A q \in Paths \ {p} : lines'[q] = lines[q]
  BY <1>0, <1>1 DEF LogInv, Types
<1>4. /\ Len(lines'[p]) = Len(lines[p]) + 1 /\ Len(lines[p]) \in Nat
      /\ lines'[p][Len(lines[p]) + 1] = n
      /\ \A i \in 1..Len(lines[p]) : lines'[p][i] = lines[p][i]
  <2> DEFINE l == lines[p]
             l2 == lines'[p]
  <2>1. l \in Seq(Nat) /\ n \in Nat /\ l2 = Append(l, n)
    BY <1>0, <1>3
  <2> HIDE DEF l, l2
  <2>2. /\ Len(l2) = Len(l) + 1 /\ Len(l) \in Nat /\ l2[Len(l) + 1] = n
        /\ \A i \in 1..Len(l) : l2[i] = l[i]
    BY ONLY <2>1
  <2> QED BY <2>2 DEF l, l2
<1>5. th'[c] = t /\ \A d \in Conns \ {c} : th'[d] = th[d]
  BY <1>2 DEF LogInv, Types
<1>6. Types'
  BY <1>1, <1>2, <1>3 DEF LogInv, Types
<1>7. InLog'
  BY <1>0, <1>1, <1>2, <1>5 DEF LogInv, InLog
<1>8. /\ \A q \in Paths : Counted(q)' = Counted(q)
      /\ \A q \in Paths \ {p} : Written(q)' = Written(q)
  BY <1>1, <1>3 DEF Counted, Written
<1>9. Written(p)' = Written(p) \cup {n}
  <2>1. 1..Len(lines'[p]) = 1..Len(lines[p]) \cup {Len(lines[p]) + 1}
    BY <1>4
  <2>2. Written(p)' = {lines'[p][i] : i \in 1..Len(lines'[p])}
    BY DEF Written
  <2>3. Written(p)' = {lines'[p][i] : i \in 1..Len(lines[p])} \cup {lines'[p][Len(lines[p]) + 1]}
    BY ONLY <2>1, <2>2, Zenon
  <2>4. {lines'[p][i] : i \in 1..Len(lines[p])} = Written(p)
    BY ONLY <1>4 DEF Written
  <2> QED BY <1>4, <2>3, <2>4
<1>10. /\ \A q \in Paths : ~Writing(c, q)'
       /\ \A q \in Paths : Writing(c, q) <=> q = p
       /\ \A d \in Conns \ {c} : \A q \in Paths :
            (Writing(d, q)' <=> Writing(d, q)) /\ th'[d].count = th[d].count
  BY <1>0, <1>2, <1>5 DEF Writing
<1>11. n \in 1..Counted(p) /\ n \notin Written(p)
  BY <1>0, <1>10 DEF LogInv, Numbers, HeldApart
<1>12. LinesDiffer'
  <2> SUFFICES ASSUME NEW q \in Paths, NEW i \in 1..Len(lines'[q]), NEW j \in 1..Len(lines'[q]),
                      i # j
               PROVE  lines'[q][i] # lines'[q][j]
    BY DEF LinesDiffer
  <2>1. CASE q # p
    <3>1. lines'[q] = lines[q] /\ i \in 1..Len(lines[q]) /\ j \in 1..Len(lines[q])
      BY <1>3, <2>1
    <3>2. lines[q][i] # lines[q][j]
      BY <3>1 DEF LogInv, Numbers, LinesDiffer
    <3> QED BY <3>1, <3>2
  <2>2. CASE q = p
    <3>1. \A k \in 1..Len(lines[p]) : lines[p][k] # n
      BY <1>11 DEF Written
    <3>2. CASE i \in 1..Len(lines[p]) /\ j \in 1..Len(lines[p])
      BY <1>0, <1>4, <2>2, <3>2 DEF LogInv, Numbers, LinesDiffer
    <3>3. CASE i \in 1..Len(lines[p]) /\ j = Len(lines[p]) + 1
      BY <1>4, <2>2, <3>1, <3>3
    <3>4. CASE j \in 1..Len(lines[p]) /\ i = Len(lines[p]) + 1
      BY <1>4, <2>2, <3>1, <3>4
    <3>5. \A k \in 1..Len(lines'[p]) : k \in 1..Len(lines[p]) \/ k = Len(lines[p]) + 1
      BY <1>4
    <3> QED BY <2>2, <3>2, <3>3, <3>4, <3>5
  <2> QED BY <2>1, <2>2
<1>13. LinesBounded'
  BY <1>8, <1>9, <1>11 DEF LogInv, Numbers, LinesBounded
<1>14. HeldApart'
  <2> SUFFICES ASSUME NEW q \in Paths, NEW d \in Conns, Writing(d, q)'
               PROVE  th'[d].count \in 1..Counted(q)' /\ th'[d].count \notin Written(q)'
    BY DEF HeldApart
  <2>1. d # c /\ Writing(d, q) /\ th'[d].count = th[d].count
    BY <1>10
  <2>2. th[d].count \in 1..Counted(q) /\ th[d].count \notin Written(q)
    BY <2>1 DEF LogInv, Numbers, HeldApart
  <2>3. q = p => th[d].count # n
    BY <1>10, <2>1 DEF LogInv, Numbers, HeldDiffer
  <2> QED BY <1>8, <1>9, <2>1, <2>2, <2>3
<1>15. HeldDiffer'
  BY <1>10 DEF LogInv, Numbers, HeldDiffer
<1>16. NoneLost'
  <2> SUFFICES ASSUME running', NEW q \in Paths, NEW m \in 1..Counted(q)'
               PROVE  m \in Written(q)' \/ \E d \in Conns : Writing(d, q)' /\ th'[d].count = m
    BY DEF NoneLost
  <2>1. m \in Written(q) \/ \E d \in Conns : Writing(d, q) /\ th[d].count = m
    BY <1>1, <1>8 DEF LogInv, Numbers, NoneLost
  <2>2. CASE m \in Written(q)
    BY <1>8, <1>9, <2>2
  <2>3. CASE Writing(c, q) /\ th[c].count = m
    BY <1>9, <1>10, <2>3
  <2>4. CASE \E d \in Conns \ {c} : Writing(d, q) /\ th[d].count = m
    BY <1>10, <2>4
  <2> QED BY <2>1, <2>2, <2>3, <2>4
<1> QED BY <1>6, <1>7, <1>12, <1>13, <1>14, <1>15, <1>16 DEF LogInv, Numbers

(***************************************************************************)
(* The insertion: emplace, which leaves a count that another thread has    *)
(* inserted in the meantime alone.                                         *)
(***************************************************************************)
LEMMA Inserting ==
  ASSUME LogInv, NEW c \in Conns, InsertCount(c)
  PROVE  LogInv'
<1> DEFINE p == th[c].line
<1>0. p \in Paths
  BY DEF LogInv, InLog, LogPlaces, InsertCount, At
<1>1. /\ DOMAIN d_counts' = DOMAIN d_counts \cup {p}
      /\ \A q \in DOMAIN d_counts : d_counts'[q] = d_counts[q]
      /\ p \notin DOMAIN d_counts => d_counts'[p] = 0
      /\ d_counts' \in [DOMAIN d_counts' -> Nat]
  <2>1. CASE p \in DOMAIN d_counts
    BY <2>1 DEF InsertCount, Emplace, LogInv, Types
  <2>2. CASE p \notin DOMAIN d_counts
    BY <2>2 DEF InsertCount, Emplace, LogInv, Types
  <2> QED BY <2>1, <2>2
<1>2. th' = [th EXCEPT ![c].at = "log_again"] /\ lines' = lines /\ stream' = stream
        /\ size' = size /\ running' = running /\ th[c].at = "log_insert"
  BY DEF InsertCount, Goto, clients, At
<1>3. Types'
  <2>1. th' \in [Conns -> ThreadState]
    BY <1>2, PlaceType DEF LogInv, Types, Place, LogPlaces
  <2> QED BY <2>1, <1>0, <1>1, <1>2 DEF LogInv, Types
<1>4. InLog'
  BY <1>0, <1>1, <1>2 DEF LogInv, Types, InLog, ThreadState, LogPlaces
<1>5. \A q \in Paths : lines'[q] = lines[q] /\ Counted(q)' = Counted(q)
  BY <1>0, <1>1, <1>2 DEF Counted
<1>6. \A d \in Conns : \A q \in Paths :
        /\ Writing(d, q)' <=> Writing(d, q)
        /\ Writing(d, q) => th'[d].count = th[d].count
  BY <1>2 DEF LogInv, Types, ThreadState, Writing
<1>7. Numbers'
  BY <1>2, <1>5, <1>6, NumbersStay DEF LogInv
<1> QED BY <1>3, <1>4, <1>7 DEF LogInv

(***************************************************************************)
(* The process ends: nobody is in the logger any more.                     *)
(***************************************************************************)
LEMMA Ending ==
  ASSUME LogInv, ProcessEnds
  PROVE  LogInv'
<1>1. Closed \in ThreadState /\ Closed.at = "closed"
  BY BacklogType, PlaceType DEF Closed, Place
<1>2. Types'
  BY <1>1 DEF LogInv, Types, ProcessEnds, clients, logger
<1>3. InLog'
  BY <1>1 DEF InLog, ProcessEnds, LogPlaces
<1>4. Numbers'
  <2>1. /\ \A p \in Paths : Written(p)' = Written(p) /\ Counted(p)' = Counted(p)
        /\ lines' = lines /\ ~running'
    BY DEF ProcessEnds, logger, Written, Counted
  <2>2. \A c \in Conns : \A p \in Paths : ~Writing(c, p)'
    BY <1>1 DEF ProcessEnds, Writing
  <2> QED BY <2>1, <2>2
       DEF LogInv, Numbers, LinesDiffer, LinesBounded, HeldApart, HeldDiffer, NoneLost
<1> QED BY <1>2, <1>3, <1>4 DEF LogInv

(***************************************************************************)
(* A thread goes to a place outside of the logger, where it does not have  *)
(* to have a path, or along in it.                                         *)
(***************************************************************************)
LEMMA Going ==
  ASSUME LogInv, NEW c \in Conns, NEW a \in Place, Goto(c, a),
         stream' = stream, size' = size, UNCHANGED logger,
         running' = running, th[c].at # "log_write", a \notin {"log_again", "log_write"},
         a \in LogPlaces => th[c].line \in Paths
  PROVE  LogInv'
<1> DEFINE t == [th[c] EXCEPT !.at = a]
<1>1. th[c] \in ThreadState /\ stream' \in [Conns -> Seq(Part)]
  BY DEF LogInv, Types
<1>2. t \in ThreadState /\ t.at = a /\ t.line = th[c].line
  BY <1>1, PlaceType
<1>3. th' = [th EXCEPT ![c] = t] /\ d_counts' = d_counts /\ lines' = lines
  BY DEF Goto, logger
<1> HIDE DEF t
<1> QED BY <1>1, <1>2, <1>3, ThreadMoves

\* The thread returns.
LEMMA Leaving ==
  ASSUME LogInv, NEW c \in Conns, Leave(c), size' = size, UNCHANGED logger,
         running' = running, th[c].at # "log_write"
  PROVE  LogInv'
<1>1. Closed \in ThreadState /\ Closed.at = "closed"
  BY BacklogType, PlaceType DEF Closed, Place
<1>2. th' = [th EXCEPT ![c] = Closed] /\ d_counts' = d_counts /\ lines' = lines
  BY DEF Leave, logger
<1>3. stream' \in [Conns -> Seq(Part)]
  BY DEF Leave, LogInv, Types
<1> QED BY <1>1, <1>2, <1>3, ThreadMoves DEF LogPlaces

\* Respond
LEMMA Responding ==
  ASSUME LogInv, NEW c \in Conns, NEW n \in Nat, NEW l \in Nat, Respond(c, n, l),
         stream' = stream, size' = size, UNCHANGED logger,
         running' = running, th[c].at # "log_write"
  PROVE  LogInv'
<1> DEFINE t == [th[c] EXCEPT !.at = "header", !.status = n, !.length = l]
<1>1. th[c] \in ThreadState /\ stream' \in [Conns -> Seq(Part)]
  BY DEF LogInv, Types
<1>2. t \in ThreadState /\ t.at = "header"
  BY <1>1 DEF ThreadState, Place
<1>3. th' = [th EXCEPT ![c] = t] /\ d_counts' = d_counts /\ lines' = lines
  BY DEF Respond, LogInv, Types, logger
<1> HIDE DEF t
<1> QED BY <1>1, <1>2, <1>3, ThreadMoves DEF LogPlaces

(***************************************************************************)
(* The steps of a thread.                                                  *)
(***************************************************************************)
LEMMA ThreadStep ==
  ASSUME LogInv, NEW c \in Conns, Thread(c)
  PROVE  LogInv'
<1>0. th[c] \in ThreadState /\ stream \in [Conns -> Seq(Part)]
  BY DEF LogInv, Types
<1>1. CASE Recv(c)
  <2>0. /\ stream[c] \in Seq(Part) /\ size' = size /\ d_counts' = d_counts /\ lines' = lines
        /\ running' = running /\ th[c].at = "recv"
    BY <1>0, <1>1 DEF Recv, At, clients, logger
  <2> DEFINE received(l) == [Backlog EXCEPT !.at = "parse", !.line = l]
  <2>1. \A l \in Lines : received(l) \in ThreadState /\ received(l).at = "parse"
    BY BacklogType DEF ThreadState, Place
  <2> HIDE DEF received
  <2>2. ASSUME NEW l \in Lines, th' = [th EXCEPT ![c] = received(l)],
               NEW s \in Seq(Part), stream' = [stream EXCEPT ![c] = s]
        PROVE  LogInv'
    <3>1. stream' \in [Conns -> Seq(Part)]
      BY <1>0, <2>2
    <3> QED BY <2>0, <2>1, <2>2, <3>1, ThreadMoves DEF LogPlaces
  <2>3. \A l \in Lines : Received(c, l) => th' = [th EXCEPT ![c] = received(l)]
    BY DEF Received, received
  <2>4. \A s : Leaves(c, s) => stream' = [stream EXCEPT ![c] = s]
    BY DEF Leaves
  <2>5. ASSUME NEW n \in 1..Len(stream[c]),
               \E line \in Parsed(Head(stream[c])) : Received(c, line),
               Leaves(c, SubSeq(stream[c], n + 1, Len(stream[c])))
        PROVE  LogInv'
    <3>1. Head(stream[c]) \in Part
      BY <2>0, <2>5
    <3>2. Parsed(Head(stream[c])) \subseteq Lines
      BY <3>1 DEF Parsed, Part
    <3>3. SubSeq(stream[c], n + 1, Len(stream[c])) \in Seq(Part)
      BY <2>0, <2>5, SubSeqType
    <3> QED BY <2>2, <2>3, <2>4, <2>5, <3>2, <3>3
  <2>6. CASE /\ stream[c] # << >> /\ Head(stream[c]) # Rest
             /\ \E line \in {Malformed, Head(stream[c])} : Received(c, line)
             /\ Leaves(c, <<Rest>> \o Tail(stream[c]))
    <3>1. Head(stream[c]) \in Part /\ Tail(stream[c]) \in Seq(Part)
      BY <2>0, <2>6
    <3>2. Malformed \in Lines /\ Head(stream[c]) \in Lines /\ Rest \in Part
      BY <2>6, <3>1 DEF Part, Lines
    <3>3. <<Rest>> \o Tail(stream[c]) \in Seq(Part)
      BY <3>1, <3>2
    <3> QED BY <2>2, <2>3, <2>4, <2>6, <3>2, <3>3
  <2> QED BY <1>1, <2>5, <2>6 DEF Recv
<1>2. CASE SocketFails(c)
  BY <1>2, Leaving DEF SocketFails, clients
<1>3. CASE ServeGet(c)
  <2>1. /\ size' = size /\ stream' = stream /\ UNCHANGED logger
        /\ running' = running /\ th[c].at # "log_write"
    BY <1>3 DEF ServeGet, At, clients
  <2>2. CASE Goto(c, "bare_400")
    BY <2>1, <2>2, Going DEF Place, LogPlaces
  <2>3. CASE Respond(c, 400, 0) \/ Respond(c, 404, 0)
    BY <2>1, <2>3, Responding
  <2>4. CASE Goto(c, "log") /\ th[c].line \in Paths
    BY <2>1, <2>4, Going DEF Place, LogPlaces
  <2> QED BY <1>3, <2>2, <2>3, <2>4 DEF ServeGet
<1>4. CASE LookUp(c)
  <2>1. /\ size' = size /\ stream' = stream /\ th[c].line \in Paths
        /\ running' = running /\ th[c].at # "log_write"
    BY <1>4 DEF LookUp, clients, At, LogInv, InLog, LogPlaces
  <2>2. CASE th[c].line \in DOMAIN d_counts /\ Count(c, th[c].line)
    BY <2>1, <2>2, Counting
  <2>3. CASE Goto(c, "log_lock") /\ UNCHANGED logger
    BY <2>1, <2>3, Going DEF Place, LogPlaces
  <2> QED BY <1>4, <2>2, <2>3 DEF LookUp
<1>5. CASE LockCounts(c)
  <2>1. /\ size' = size /\ stream' = stream /\ th[c].line \in Paths
        /\ running' = running /\ th[c].at # "log_write"
    BY <1>5 DEF LockCounts, clients, At, LogInv, InLog, LogPlaces
  <2> QED BY <1>5, <2>1, Going DEF LockCounts, Place, LogPlaces
<1>6. CASE InsertCount(c)
  BY <1>6, Inserting
<1>7. CASE LookUpAgain(c)
  <2>1. /\ size' = size /\ th[c].line \in DOMAIN d_counts /\ th[c].line \in Paths
        /\ running' = running /\ th[c].at # "log_write"
    BY <1>7 DEF LookUpAgain, clients, At, LogInv, InLog, LogPlaces
  <2>2. CASE Count(c, th[c].line) /\ stream' = stream
    BY <2>1, <2>2, Counting
  <2>3. CASE Leave(c) /\ UNCHANGED logger
    BY <2>1, <2>3, Leaving
  <2> QED BY <1>7, <2>2, <2>3 DEF LookUpAgain
<1>8. CASE LookUpCrashes(c) \/ PipeBreaks(c)
  BY <1>8, Ending DEF LookUpCrashes, PipeBreaks
<1>9. CASE FileSize(c)
  <2>1. /\ size' = size /\ stream' = stream /\ UNCHANGED logger /\ th[c].line \in Paths
        /\ running' = running /\ th[c].at # "log_write"
    BY <1>9 DEF FileSize, clients, At, LogInv, InLog, LogPlaces
  <2>2. CASE th' = [th EXCEPT ![c].at = "open", ![c].length = size[th[c].line]]
    <3> DEFINE t == [th[c] EXCEPT !.at = "open", !.length = size[th[c].line]]
    <3>1. size[th[c].line] \in Nat
      BY <2>1 DEF LogInv, Types
    <3>2. t \in ThreadState /\ t.at = "open"
      BY <1>0, <3>1 DEF ThreadState, Place
    <3>3. th' = [th EXCEPT ![c] = t] /\ d_counts' = d_counts /\ lines' = lines
      BY <2>1, <2>2 DEF LogInv, Types, logger
    <3> HIDE DEF t
    <3> QED BY <1>0, <2>1, <3>2, <3>3, ThreadMoves DEF LogPlaces
  <2>3. CASE Goto(c, "500")
    BY <2>1, <2>3, Going DEF Place, LogPlaces
  <2> QED BY <1>9, <2>2, <2>3 DEF FileSize
<1>10. CASE OpenFile(c)
  <2>1. /\ size' = size /\ stream' = stream /\ UNCHANGED logger
        /\ running' = running /\ th[c].at # "log_write"
    BY <1>10 DEF OpenFile, At, clients
  <2>2. CASE th' = [th EXCEPT ![c].at = "header", ![c].status = 200, ![c].file = TRUE]
    <3> DEFINE t == [th[c] EXCEPT !.at = "header", !.status = 200, !.file = TRUE]
    <3>1. t \in ThreadState /\ t.at = "header"
      BY <1>0, ZenonT(60) DEF ThreadState, Place
    <3>2. th' = [th EXCEPT ![c] = t] /\ d_counts' = d_counts /\ lines' = lines
      BY <2>1, <2>2 DEF LogInv, Types, logger
    <3> HIDE DEF t
    <3> QED BY <1>0, <2>1, <3>1, <3>2, ThreadMoves DEF LogPlaces
  <2>3. CASE Respond(c, 503, 1)
    BY <2>1, <2>3, Responding
  <2> QED BY <1>10, <2>2, <2>3 DEF OpenFile
<1>11. CASE SendHeader(c)
  <2>1. /\ Goto(c, "body") /\ size' = size /\ stream' = stream /\ UNCHANGED logger
        /\ running' = running /\ th[c].at # "log_write"
    BY <1>11 DEF SendHeader, At, clients
  <2> QED BY <2>1, Going DEF Place, LogPlaces
<1>12. CASE SendBody(c)
  <2>1. /\ size' = size /\ stream' = stream /\ d_counts' = d_counts /\ lines' = lines
        /\ th[c].at = "body" /\ th[c].offset < th[c].length /\ running' = running
    BY <1>12 DEF SendBody, clients, logger, At
  <2>2. PICK n \in Takes(c) : th' = [th EXCEPT ![c].offset = th[c].offset + n]
    BY <1>12 DEF SendBody
  <2> DEFINE t == [th[c] EXCEPT !.offset = th[c].offset + n]
  <2>3. th[c].offset + n \in Nat
    BY <1>0, <2>1, <2>2 DEF Takes, ThreadState
  <2>4. t \in ThreadState /\ t.at = "body"
    BY <1>0, <2>1, <2>3 DEF ThreadState
  <2>5. th' = [th EXCEPT ![c] = t]
    BY <2>2
  <2> HIDE DEF t
  <2> QED BY <1>0, <2>1, <2>4, <2>5, ThreadMoves DEF LogPlaces
<1>13. CASE EndResponse(c)
  <2>1. /\ size' = size /\ stream' = stream /\ d_counts' = d_counts /\ lines' = lines
        /\ th' = [th EXCEPT ![c] = [Backlog EXCEPT !.at = "recv"]]
        /\ running' = running /\ th[c].at # "log_write"
    BY <1>13 DEF EndResponse, At, clients, logger
  <2>2. [Backlog EXCEPT !.at = "recv"] \in ThreadState
          /\ [Backlog EXCEPT !.at = "recv"].at = "recv"
    BY BacklogType, PlaceType DEF Place
  <2> QED BY <1>0, <2>1, <2>2, ThreadMoves DEF LogPlaces
<1>14. CASE BadRequest(c)
  <2>1. /\ Goto(c, "recv") /\ size' = size /\ stream' = stream /\ UNCHANGED logger
        /\ running' = running /\ th[c].at # "log_write"
    BY <1>14 DEF BadRequest, At, clients
  <2> QED BY <2>1, Going DEF Place, LogPlaces
<1>15. CASE ServerError(c)
  BY <1>15, Leaving DEF ServerError, At, clients
<1>16. CASE WriteLine(c)
  BY <1>16, LineWritten
<1> QED BY <1>1, <1>2, <1>3, <1>4, <1>5, <1>6, <1>7, <1>8, <1>9, <1>10, <1>11, <1>12,
           <1>13, <1>14, <1>15, <1>16 DEF Thread

\* A step that neither moves a thread nor logs.
LEMMA LoggerStays ==
  ASSUME LogInv, th' = th, UNCHANGED logger, running' = running,
         stream' \in [Conns -> Seq(Part)], size' \in [Paths -> Nat]
  PROVE  LogInv'
<1>1. Types' /\ InLog'
  BY DEF LogInv, Types, InLog, logger
<1>2. /\ \A p \in Paths : lines'[p] = lines[p] /\ Counted(p)' = Counted(p)
      /\ \A c \in Conns : \A p \in Paths :
           /\ Writing(c, p)' <=> Writing(c, p)
           /\ Writing(c, p) => th'[c].count = th[c].count
  BY DEF logger, Counted, Writing
<1>3. Numbers'
  BY <1>2, NumbersStay DEF LogInv
<1> QED BY <1>1, <1>3 DEF LogInv

(***************************************************************************)
(* Every step: those of the clients, of the editors and of the accept loop *)
(* do not touch the logger.                                                *)
(***************************************************************************)
LEMMA NextHolds == LogInv /\ [Next]_vars => LogInv'
<1> SUFFICES ASSUME LogInv, [Next]_vars PROVE LogInv'
  OBVIOUS
<1>0. th \in [Conns -> ThreadState] /\ stream \in [Conns -> Seq(Part)]
  BY DEF LogInv, Types
<1>1. ASSUME NEW c \in Conns, NEW line \in Lines, SendRequest(c, line)
      PROVE  LogInv'
  <2>1. /\ th' = th /\ size' = size /\ UNCHANGED logger /\ running' = running
        /\ stream' = [stream EXCEPT ![c] = stream[c] \o <<line, Rest>>]
    BY <1>1 DEF SendRequest
  <2>2. stream[c] \o <<line, Rest>> \in Seq(Part)
    BY <1>0 DEF Part
  <2>3. stream' \in [Conns -> Seq(Part)]
    BY <1>0, <2>1, <2>2
  <2>4. size' \in [Paths -> Nat]
    BY <2>1 DEF LogInv, Types
  <2> QED BY <2>1, <2>3, <2>4, LoggerStays
<1>2. ASSUME NEW c \in Conns, CloseClient(c)
      PROVE  LogInv'
  BY <1>2, LoggerStays DEF CloseClient, clients, LogInv, Types
<1>8. ASSUME NEW c \in Conns, ClientReads(c)
      PROVE  LogInv'
  BY <1>8, LoggerStays DEF ClientReads, clients, LogInv, Types
<1>3. ASSUME NEW c \in Conns, Accept(c)
      PROVE  LogInv'
  <2>1. /\ Goto(c, "recv") /\ size' = size /\ stream' = stream /\ UNCHANGED logger
        /\ running' = running /\ th[c].at # "log_write"
    BY <1>3 DEF Accept, Goto, clients
  <2> QED BY <2>1, Going DEF Place, LogPlaces
<1>4. ASSUME NEW c \in Conns, AcceptFails(c)
      PROVE  LogInv'
  BY <1>4, Ending DEF AcceptFails
<1>5. ASSUME NEW p \in Paths, EditFile(p)
      PROVE  LogInv'
  <2>1. th' = th /\ stream' = stream /\ UNCHANGED logger /\ running' = running
    BY <1>5 DEF EditFile
  <2>2. size' \in [Paths -> Nat]
    <3>1. size \in [Paths -> Nat] /\ 0..MaxSize \subseteq Nat
      BY SizeAssumption DEF LogInv, Types
    <3>2. CASE \E n \in 0..MaxSize : size' = [size EXCEPT ![p] = n]
      BY <3>1, <3>2
    <3>3. CASE size' = size
      BY <3>1, <3>3
    <3> QED BY <1>5, <3>2, <3>3 DEF EditFile
  <2> QED BY <1>0, <2>1, <2>2, LoggerStays
<1>6. CASE Interrupt
  BY <1>6, Ending DEF Interrupt
<1>7. CASE UNCHANGED vars
  BY <1>7, LoggerStays DEF vars, clients, LogInv, Types
<1> QED BY <1>1, <1>2, <1>3, <1>4, <1>5, <1>6, <1>7, <1>8, ThreadStep DEF Next

LEMMA NumbersAreOnce == LogInv => NumbersOnce
<1> SUFFICES ASSUME LogInv, NEW p \in Paths
             PROVE  /\ \A i, j \in 1..Len(lines[p]) : i # j => lines[p][i] # lines[p][j]
                    /\ Written(p) \subseteq 1..Counted(p)
                    /\ running => Written(p) \cup Held(p) = 1..Counted(p)
  BY DEF NumbersOnce
<1>1. \A n : n \in Held(p) <=> \E c \in Conns : Writing(c, p) /\ th[c].count = n
  BY DEF Held, Writing
<1>2. Held(p) \subseteq 1..Counted(p)
  BY <1>1 DEF LogInv, Numbers, HeldApart
<1>3. /\ \A i, j \in 1..Len(lines[p]) : i # j => lines[p][i] # lines[p][j]
      /\ Written(p) \subseteq 1..Counted(p)
  BY DEF LogInv, Numbers, LinesDiffer, LinesBounded
<1>4. ASSUME running PROVE 1..Counted(p) \subseteq Written(p) \cup Held(p)
  BY <1>1, <1>4 DEF LogInv, Numbers, NoneLost
<1> QED BY <1>2, <1>3, <1>4

(***************************************************************************)
(* However many threads ask for however many paths, and however lookups,   *)
(* insertions, counts and lines of log_get interleave, no two lines of a   *)
(* path have the same number, and while the process runs a number that is  *)
(* on no line is with a thread that is about to write it.                  *)
(***************************************************************************)
THEOREM LinesNumbered == Spec => []NumbersOnce
BY InitHolds, NextHolds, NumbersAreOnce, PTL DEF Spec

-----------------------------------------------------------------------------
(* The responses                                                           *)

ReplyState == [status : Nat, length : Int, body : Nat, done : BOOLEAN]

\* The responses r on a connection are whole, but for the one that its thread
\* t is sending, or was sending when it returned.
Framed(t, r) ==
  /\ \A i \in 1..Len(r) : r[i].done /\ r[i].length # NoLength => r[i].body = r[i].length
  /\ \A i \in 1..Len(r) - 1 : r[i].done
  /\ t.at \notin {"body", "closed"} => \A i \in 1..Len(r) : r[i].done
  /\ t.at = "body" =>
       /\ Len(r) > 0 /\ ~r[Len(r)].done
       /\ r[Len(r)].length = t.length /\ r[Len(r)].body = t.offset
  /\ t.at # "body" => t.offset = 0

\* The responses r answer the first of the requests a.
Fitting(a, r) ==
  /\ Len(r) <= Len(a)
  /\ \A i \in 1..Len(r) : Fits(a[i], r[i].status)

\* A connection on which every recv returned one request, after k of them: s is
\* what was sent and not received.
InStep(k, t, a, s, r) ==
  /\ k \in 0..Len(a)
  /\ Len(s) = 2 * (Len(a) - k)
  /\ \A j \in 1..Len(a) - k : s[2 * j - 1] = a[k + j]
  /\ Len(r) = IF t.at \in {"backlog", "recv", "body"} THEN k ELSE k - 1
  /\ t.at \notin {"backlog", "recv"} => k > 0 /\ t.line = a[k]
  /\ t.at = "bare_400" => t.line \notin Paths
  /\ t.at = "header" => Fits(t.line, t.status)

ConnInv(t, a, s, r, single) ==
  /\ t.at \in {"open", "500"} => t.line \in Paths
  /\ Framed(t, r)
  /\ single => Fitting(a, r)
  /\ single /\ t.at # "closed" => \E k \in 0..Len(a) : InStep(k, t, a, s, r)

ReplyInv ==
  /\ asked \in [Conns -> Seq(Lines)]
  /\ replies \in [Conns -> Seq(ReplyState)]
  /\ apart \subseteq Conns
  /\ \A c \in Conns : ConnInv(th[c], asked[c], stream[c], replies[c], c \in apart)
\* A thread in the middle of a turn goes on in it, before it sends anything.
Turning == {"parse", "open", "header", "bare_400", "500"} \cup LogPlaces

LEMMA TurnGoesOn ==
  ASSUME NEW t, NEW t2, NEW a, NEW s, NEW r, NEW b \in BOOLEAN, ConnInv(t, a, s, r, b),
         t.at \in Turning, t2.at \in Turning, t2.line = t.line, t2.offset = t.offset,
         t2.at = "bare_400" => t2.line \notin Paths,
         t2.at \in {"open", "500"} => t2.line \in Paths,
         t2.at = "header" => Fits(t2.line, t2.status)
  PROVE  ConnInv(t2, a, s, r, b)
<1>1. t.at \notin {"backlog", "recv", "body", "closed"}
        /\ t2.at \notin {"backlog", "recv", "body", "closed"}
  BY DEF Turning, LogPlaces
<1>2. Framed(t2, r)
  BY <1>1 DEF ConnInv, Framed
<1>3. ASSUME NEW k, InStep(k, t, a, s, r)
      PROVE  InStep(k, t2, a, s, r)
  BY <1>1, <1>3 DEF InStep
<1> QED BY <1>1, <1>2, <1>3 DEF ConnInv

\* A connection is accepted.
LEMMA Accepted ==
  ASSUME NEW t, NEW t2, NEW a, NEW s, NEW r, NEW b \in BOOLEAN, ConnInv(t, a, s, r, b),
         t.at = "backlog", t2.at = "recv", t2.offset = t.offset
  PROVE  ConnInv(t2, a, s, r, b)
<1>1. Framed(t2, r)
  BY DEF ConnInv, Framed
<1>2. ASSUME NEW k, InStep(k, t, a, s, r)
      PROVE  InStep(k, t2, a, s, r)
  BY <1>2 DEF InStep
<1> QED BY <1>1, <1>2 DEF ConnInv

\* The thread has returned, wherever it was.
LEMMA Returned ==
  ASSUME NEW t, NEW a, NEW s, NEW s2, NEW r, NEW b \in BOOLEAN, ConnInv(t, a, s, r, b)
  PROVE  ConnInv(Closed, a, s2, r, b)
<1>1. Closed.at = "closed" /\ Closed.offset = 0
  BY DEF Closed, Backlog
<1>2. Framed(Closed, r)
  BY <1>1 DEF ConnInv, Framed
<1> QED BY <1>1, <1>2 DEF ConnInv

\* Another request is on its way.
LEMMA Requested ==
  ASSUME NEW t, NEW a \in Seq(Lines), NEW s \in Seq(Part), NEW r \in Seq(ReplyState),
         NEW b \in BOOLEAN,
         ConnInv(t, a, s, r, b), NEW line \in Lines, t.at # "closed"
  PROVE  ConnInv(t, Append(a, line), s \o <<line, Rest>>, r, b)
<1> DEFINE a2 == Append(a, line)
           s2 == s \o <<line, Rest>>
<1>1. /\ a2 \in Seq(Lines) /\ Len(a2) = Len(a) + 1 /\ a2[Len(a) + 1] = line
      /\ \A i \in 1..Len(a) : a2[i] = a[i]
  OBVIOUS
<1>2. /\ Len(s2) = Len(s) + 2 /\ s2[Len(s) + 1] = line
      /\ \A i \in 1..Len(s) : s2[i] = s[i]
  BY DEF Part
<1>3. Len(a) \in Nat /\ Len(s) \in Nat /\ Len(r) \in Nat
  OBVIOUS
<1> HIDE DEF a2, s2
<1>4. Fitting(a, r) => Fitting(a2, r)
  BY <1>1, <1>3 DEF Fitting
<1>5. ASSUME NEW k \in 0..Len(a), InStep(k, t, a, s, r)
      PROVE  k \in 0..Len(a2) /\ InStep(k, t, a2, s2, r)
  <2>1. k \in 0..Len(a2)
    BY <1>1, <1>3
  <2>2. Len(s) = 2 * (Len(a) - k) /\ Len(s2) = 2 * (Len(a2) - k)
    BY <1>1, <1>2, <1>3, <1>5 DEF InStep
  <2>3. ASSUME NEW j \in 1..Len(a2) - k PROVE s2[2 * j - 1] = a2[k + j]
    <3>1. CASE j <= Len(a) - k
      <4>1. 2 * j - 1 \in 1..Len(s) /\ k + j \in 1..Len(a)
        BY <1>3, <2>2, <3>1
      <4>2. s[2 * j - 1] = a[k + j]
        BY <1>3, <1>5, <3>1 DEF InStep
      <4> QED BY <1>1, <1>2, <4>1, <4>2
    <3>2. CASE j = Len(a) - k + 1
      <4>1. 2 * j - 1 = Len(s) + 1 /\ k + j = Len(a) + 1
        BY <1>3, <2>2, <3>2
      <4> QED BY <1>1, <1>2, <4>1
    <3>3. j <= Len(a) - k \/ j = Len(a) - k + 1
      BY <1>1, <1>3
    <3> QED BY <3>1, <3>2, <3>3
  <2>4. t.at \notin {"backlog", "recv"} => a2[k] = a[k]
    BY <1>1, <1>3, <1>5 DEF InStep
  <2> QED BY <1>5, <2>1, <2>2, <2>3, <2>4 DEF InStep
<1>6. Framed(t, r) /\ (b => Fitting(a2, r))
  BY <1>4 DEF ConnInv
<1>7. ASSUME b PROVE \E k \in 0..Len(a2) : InStep(k, t, a2, s2, r)
  BY <1>5, <1>7 DEF ConnInv
<1> QED BY <1>6, <1>7 DEF ConnInv, a2, s2

\* recv has returned one request, or something else.
LEMMA Taken ==
  ASSUME NEW t, NEW t2, NEW a \in Seq(Lines), NEW s \in Seq(Part), NEW r \in Seq(ReplyState),
         NEW b \in BOOLEAN, NEW b2 \in BOOLEAN, NEW s2,
         ConnInv(t, a, s, r, b), t.at = "recv", t2.at = "parse", t2.offset = 0,
         b2 => b /\ Len(s) >= 2 /\ t2.line = s[1] /\ s2 = SubSeq(s, 3, Len(s))
  PROVE  ConnInv(t2, a, s2, r, b2)
<1>1. Framed(t2, r)
  BY DEF ConnInv, Framed
<1>2. Len(a) \in Nat /\ Len(s) \in Nat /\ Len(r) \in Nat
  OBVIOUS
<1>3. ASSUME NEW k \in 0..Len(a), InStep(k, t, a, s, r), b2
      PROVE  \E n \in 0..Len(a) : InStep(n, t2, a, s2, r)
  <2> DEFINE n == k + 1
  <2>1. Len(s) = 2 * (Len(a) - k) /\ Len(s) >= 2 /\ Len(r) = k
    BY <1>3 DEF InStep
  <2>2. n \in 0..Len(a) /\ n > 0
    BY <1>2, <2>1
  <2>3. Len(s2) = Len(s) - 2 /\ \A i \in 1..Len(s) - 2 : s2[i] = s[i + 2]
    BY <1>2, <1>3, <2>1
  <2>4. s[1] = a[n]
    <3>1. 1 \in 1..Len(a) - k /\ 2 * 1 - 1 = 1 /\ k + 1 = n
      BY <1>2, <2>1
    <3> QED BY <1>3, <3>1 DEF InStep
  <2>5. ASSUME NEW j \in 1..Len(a) - n PROVE s2[2 * j - 1] = a[n + j]
    <3>1. 2 * j - 1 \in 1..Len(s) - 2 /\ (2 * j - 1) + 2 = 2 * (j + 1) - 1
      BY <1>2, <2>1
    <3>2. j + 1 \in 1..Len(a) - k /\ k + (j + 1) = n + j
      BY <1>2
    <3>3. s[2 * (j + 1) - 1] = a[k + (j + 1)]
      BY <1>3, <3>2 DEF InStep
    <3> QED BY <2>3, <3>1, <3>2, <3>3
  <2>6. Len(s2) = 2 * (Len(a) - n) /\ Len(r) = n - 1
    BY <1>2, <2>1, <2>3
  <2> HIDE DEF n
  <2>7. InStep(n, t2, a, s2, r)
    BY <1>3, <2>2, <2>4, <2>5, <2>6 DEF InStep
  <2> QED BY <2>2, <2>7
<1>4. b2 => Fitting(a, r)
  BY DEF ConnInv
<1>5. b2 => \E n \in 0..Len(a) : InStep(n, t2, a, s2, r)
  BY <1>3 DEF ConnInv
<1> QED BY <1>1, <1>4, <1>5 DEF ConnInv

\* The length and the elements of a sequence with one more.
LEMMA AppendIs ==
  ASSUME NEW r \in Seq(ReplyState), NEW x \in ReplyState
  PROVE  /\ Append(r, x) \in Seq(ReplyState)
         /\ Len(Append(r, x)) = Len(r) + 1
         /\ Append(r, x)[Len(r) + 1] = x
         /\ \A i \in 1..Len(r) : Append(r, x)[i] = r[i]
OBVIOUS

\* One more response x, at the end of a turn or, in the case of send_response,
\* with its body still to come.
LEMMA Answered ==
  ASSUME NEW t, NEW t2, NEW a \in Seq(Lines), NEW s, NEW s2, NEW r \in Seq(ReplyState),
         NEW b \in BOOLEAN, NEW x \in ReplyState,
         ConnInv(t, a, s, r, b),
         t.at \in {"header", "bare_400", "500"}, t2.at \in {"body", "recv", "closed"},
         b => Fits(t.line, x.status),
         t2.at = "body" => /\ ~x.done /\ x.length = t2.length /\ x.body = t2.offset
                           /\ t2.line = t.line,
         t2.at # "body" => t2.offset = 0 /\ x.done,
         x.done /\ x.length # NoLength => x.body = x.length,
         t2.at # "closed" => s2 = s
  PROVE  ConnInv(t2, a, s2, Append(r, x), b)
<1> DEFINE r2 == Append(r, x)
           n == Len(r)
<1>1. /\ Len(r2) = n + 1 /\ r2[n + 1] = x
      /\ \A i \in 1..n : r2[i] = r[i]
  BY AppendIs
<1>2. n \in Nat /\ Len(a) \in Nat
  OBVIOUS
<1>3. \A i \in 1..n : r[i].done
  BY DEF ConnInv, Framed
<1>4. \A i \in 1..n : r[i].done /\ r[i].length # NoLength => r[i].body = r[i].length
  BY DEF ConnInv, Framed
<1> HIDE DEF r2, n
<1>5. Framed(t2, r2)
  <2>1. ASSUME NEW i \in 1..Len(r2), r2[i].done, r2[i].length # NoLength
        PROVE  r2[i].body = r2[i].length
    <3>1. i \in 1..n \/ i = n + 1
      BY <1>1, <1>2
    <3> QED BY <1>1, <1>4, <2>1, <3>1
  <2>2. ASSUME NEW i \in 1..Len(r2) - 1 PROVE r2[i].done
    <3>1. i \in 1..n
      BY <1>1, <1>2
    <3> QED BY <1>1, <1>3, <3>1
  <2>3. ASSUME t2.at = "recv", NEW i \in 1..Len(r2) PROVE r2[i].done
    <3>1. i \in 1..n \/ i = n + 1
      BY <1>1, <1>2
    <3> QED BY <1>1, <1>3, <2>3, <3>1
  <2>4. t2.at = "body" =>
          /\ Len(r2) > 0 /\ ~r2[Len(r2)].done
          /\ r2[Len(r2)].length = t2.length /\ r2[Len(r2)].body = t2.offset
    BY <1>1, <1>2
  <2> QED BY <2>1, <2>2, <2>3, <2>4 DEF Framed
<1>6. ASSUME NEW k \in 0..Len(a), InStep(k, t, a, s, r), b
      PROVE  Fitting(a, r2) /\ (t2.at # "closed" => InStep(k, t2, a, s2, r2))
  <2>1. k = n + 1 /\ k > 0 /\ t.line = a[k]
    BY <1>2, <1>6 DEF InStep, n
  <2>2. \A i \in 1..n : Fits(a[i], r[i].status)
    BY <1>6 DEF ConnInv, Fitting, n
  <2>3. ASSUME NEW i \in 1..Len(r2) PROVE Fits(a[i], r2[i].status)
    <3>1. i \in 1..n \/ i = n + 1
      BY <1>1, <1>2
    <3> QED BY <1>1, <1>6, <2>1, <2>2, <3>1
  <2>4. Fitting(a, r2)
    BY <1>1, <1>2, <2>1, <2>3 DEF Fitting
  <2>5. ASSUME t2.at # "closed" PROVE InStep(k, t2, a, s2, r2)
    BY <1>1, <1>6, <2>1, <2>5 DEF InStep
  <2> QED BY <2>4, <2>5
<1>7. b => Fitting(a, r2)
  BY <1>6 DEF ConnInv
<1>8. b /\ t2.at # "closed" => \E k \in 0..Len(a) : InStep(k, t2, a, s2, r2)
  BY <1>6 DEF ConnInv
<1>9. ConnInv(t2, a, s2, r2, b)
  BY <1>5, <1>7, <1>8 DEF ConnInv
<1> QED BY <1>9 DEF r2

\* The thread t, from here on t2, is still sending x, or has sent all of it.
SentAs(t, t2, x) ==
  \/ /\ t2.at = "body" /\ t2.line = t.line /\ ~x.done
     /\ x.length = t2.length /\ x.body = t2.offset
  \/ t2.at = "recv" /\ t2.offset = 0 /\ x.done /\ x.body = x.length

\* The response that is being sent becomes x.
LastAs(r, x) == [r EXCEPT ![Len(r)] = x]

LEMMA Continued ==
  ASSUME NEW t, NEW t2, NEW a \in Seq(Lines), NEW s, NEW r \in Seq(ReplyState),
         NEW b \in BOOLEAN, NEW x \in ReplyState,
         ConnInv(t, a, s, r, b),
         t.at = "body", x.status = r[Len(r)].status, SentAs(t, t2, x)
  PROVE  /\ LastAs(r, x) \in Seq(ReplyState)
         /\ ConnInv(t2, a, s, LastAs(r, x), b)
<1> DEFINE r2 == LastAs(r, x)
           n == Len(r)
<1>0. \/ /\ t2.at = "body" /\ t2.line = t.line /\ ~x.done
         /\ x.length = t2.length /\ x.body = t2.offset
      \/ t2.at = "recv" /\ t2.offset = 0 /\ x.done /\ x.body = x.length
  BY DEF SentAs
<1>1. n \in Nat /\ Len(a) \in Nat /\ n > 0
  BY DEF ConnInv, Framed
<1>2. /\ r2 \in Seq(ReplyState) /\ Len(r2) = n /\ r2[n] = x
      /\ \A i \in 1..n - 1 : r2[i] = r[i]
  BY <1>1 DEF LastAs
<1>3. \A i \in 1..n - 1 : r[i].done
  BY DEF ConnInv, Framed
<1>4. \A i \in 1..n : r[i].done /\ r[i].length # NoLength => r[i].body = r[i].length
  BY DEF ConnInv, Framed
<1> HIDE DEF r2, n
<1>5. Framed(t2, r2)
  <2>1. ASSUME NEW i \in 1..Len(r2), r2[i].done, r2[i].length # NoLength
        PROVE  r2[i].body = r2[i].length
    <3>1. i \in 1..n /\ (i \in 1..n - 1 \/ i = n)
      BY <1>1, <1>2
    <3> QED BY <1>0, <1>2, <1>4, <2>1, <3>1
  <2>2. ASSUME NEW i \in 1..Len(r2) - 1 PROVE r2[i].done
    BY <1>2, <1>3
  <2>3. ASSUME t2.at = "recv", NEW i \in 1..Len(r2) PROVE r2[i].done
    <3>1. i \in 1..n - 1 \/ i = n
      BY <1>1, <1>2
    <3> QED BY <1>0, <1>2, <1>3, <2>3, <3>1
  <2> QED BY <1>0, <1>1, <1>2, <2>1, <2>2, <2>3 DEF Framed
<1>6. Fitting(a, r) => Fitting(a, r2)
  <2>1. ASSUME Fitting(a, r), NEW i \in 1..Len(r2) PROVE Fits(a[i], r2[i].status)
    <3>1. i \in 1..n /\ (i \in 1..n - 1 \/ i = n)
      BY <1>1, <1>2
    <3>2. r2[i].status = r[i].status
      BY <1>2, <3>1 DEF n
    <3>3. Fits(a[i], r[i].status)
      BY <2>1, <3>1 DEF Fitting, n
    <3> QED BY <3>2, <3>3
  <2> QED BY <1>2, <2>1 DEF Fitting, n
<1>7. ASSUME NEW k, InStep(k, t, a, s, r)
      PROVE  InStep(k, t2, a, s, r2)
  BY <1>0, <1>2, <1>7 DEF InStep, n
<1>8. ConnInv(t2, a, s, r2, b)
  BY <1>0, <1>5, <1>6, <1>7 DEF ConnInv
<1> QED BY <1>2, <1>8 DEF r2

\* A step on one connection.
LEMMA OneConnection ==
  ASSUME ReplyInv, NEW c \in Conns, NEW t, NEW a, NEW s, NEW r,
         DOMAIN th = Conns, DOMAIN stream = Conns,
         th' = [th EXCEPT ![c] = t], stream' = [stream EXCEPT ![c] = s],
         asked' = [asked EXCEPT ![c] = a], a \in Seq(Lines),
         replies' = [replies EXCEPT ![c] = r], r \in Seq(ReplyState),
         apart' = apart \/ apart' = apart \ {c},
         ConnInv(t, a, s, r, c \in apart')
  PROVE  ReplyInv'
<1>1. /\ asked' \in [Conns -> Seq(Lines)]
      /\ replies' \in [Conns -> Seq(ReplyState)]
      /\ apart' \subseteq Conns
  BY DEF ReplyInv
<1>2. th'[c] = t /\ asked'[c] = a /\ stream'[c] = s /\ replies'[c] = r
  BY DEF ReplyInv
<1>3. ASSUME NEW d \in Conns, d # c
      PROVE  ConnInv(th'[d], asked'[d], stream'[d], replies'[d], d \in apart')
  <2>1. th'[d] = th[d] /\ asked'[d] = asked[d] /\ stream'[d] = stream[d]
          /\ replies'[d] = replies[d] /\ (d \in apart') = (d \in apart)
    BY <1>3 DEF ReplyInv
  <2>2. ConnInv(th[d], asked[d], stream[d], replies[d], d \in apart)
    BY DEF ReplyInv
  <2> QED BY <2>1, <2>2
<1>4. ConnInv(th'[c], asked'[c], stream'[c], replies'[c], c \in apart')
  BY <1>2
<1> QED BY <1>1, <1>3, <1>4 DEF ReplyInv

\* A step of the thread of c that neither receives nor sends.
LEMMA ThreadOnly ==
  ASSUME ReplyInv, Types, NEW c \in Conns, NEW t,
         th' = [th EXCEPT ![c] = t],
         stream' = stream, asked' = asked, replies' = replies, apart' = apart,
         ConnInv(t, asked[c], stream[c], replies[c], c \in apart)
  PROVE  ReplyInv'
<1>1. /\ DOMAIN th = Conns /\ DOMAIN stream = Conns
      /\ stream = [stream EXCEPT ![c] = stream[c]]
      /\ asked = [asked EXCEPT ![c] = asked[c]] /\ asked[c] \in Seq(Lines)
      /\ replies = [replies EXCEPT ![c] = replies[c]] /\ replies[c] \in Seq(ReplyState)
  BY DEF ReplyInv, Types
<1> DEFINE a == asked[c]
           s == stream[c]
           r == replies[c]
<1>2. /\ stream' = [stream EXCEPT ![c] = s] /\ asked' = [asked EXCEPT ![c] = a]
      /\ replies' = [replies EXCEPT ![c] = r] /\ a \in Seq(Lines) /\ r \in Seq(ReplyState)
  BY <1>1
<1>3. ConnInv(t, a, s, r, c \in apart')
  OBVIOUS
<1> HIDE DEF a, s, r
<1> QED BY <1>1, <1>2, <1>3, OneConnection

\* What is said of one connection.
LEMMA OfConnection ==
  ASSUME ReplyInv, Types, NEW c \in Conns
  PROVE  /\ ConnInv(th[c], asked[c], stream[c], replies[c], c \in apart)
         /\ th[c] \in ThreadState /\ asked[c] \in Seq(Lines) /\ stream[c] \in Seq(Part)
         /\ replies[c] \in Seq(ReplyState)
         /\ DOMAIN th = Conns /\ DOMAIN stream = Conns
BY DEF ReplyInv, Types

\* A thread that goes on with its turn.
LEMMA TurnStep ==
  ASSUME ReplyInv, Types, NEW c \in Conns, NEW t,
         th' = [th EXCEPT ![c] = t],
         stream' = stream, asked' = asked, replies' = replies, apart' = apart,
         th[c].at \in Turning, t.at \in Turning, t.line = th[c].line, t.offset = th[c].offset,
         t.at = "bare_400" => t.line \notin Paths,
         t.at \in {"open", "500"} => t.line \in Paths,
         t.at = "header" => Fits(t.line, t.status)
  PROVE  ReplyInv'
<1> DEFINE u == th[c]
           a == asked[c]
           s == stream[c]
           r == replies[c]
           b == c \in apart
<1>1. ConnInv(u, a, s, r, b) /\ b \in BOOLEAN
  BY OfConnection
<1>2. u.at \in Turning /\ t.line = u.line /\ t.offset = u.offset
  OBVIOUS
<1> HIDE DEF u, a, s, r, b
<1>3. ConnInv(t, a, s, r, b)
  BY <1>1, <1>2, TurnGoesOn
<1>4. ConnInv(t, asked[c], stream[c], replies[c], c \in apart)
  BY <1>3 DEF a, s, r, b
<1> QED BY <1>4, ThreadOnly

\* The thread returns.
LEMMA LeaveStep ==
  ASSUME ReplyInv, Types, NEW c \in Conns, Leave(c),
         asked' = asked, replies' = replies, apart' = apart
  PROVE  ReplyInv'
<1> DEFINE a == asked[c]
           s == << >>
           r == replies[c]
           b == c \in apart
<1>1. /\ ConnInv(th[c], a, stream[c], r, b) /\ b \in BOOLEAN
      /\ a \in Seq(Lines) /\ r \in Seq(ReplyState) /\ DOMAIN th = Conns /\ DOMAIN stream = Conns
  BY OfConnection
<1>2. /\ th' = [th EXCEPT ![c] = Closed] /\ stream' = [stream EXCEPT ![c] = s]
      /\ asked' = [asked EXCEPT ![c] = a] /\ replies' = [replies EXCEPT ![c] = r]
  BY DEF Leave, ReplyInv
<1> HIDE DEF a, s, r, b
<1>3. ConnInv(Closed, a, s, r, b)
  BY <1>1, Returned
<1>4. ConnInv(Closed, a, s, r, c \in apart')
  BY <1>3 DEF b
<1> QED BY <1>1, <1>2, <1>4, OneConnection

\* The process ends, and with it every thread.
LEMMA EndStep ==
  ASSUME ReplyInv, Types, ProcessEnds
  PROVE  ReplyInv'
<1>1. asked' = asked /\ replies' = replies /\ apart' = apart
  BY DEF ProcessEnds, clients
<1>2. ASSUME NEW c \in Conns
      PROVE  ConnInv(th'[c], asked'[c], stream'[c], replies'[c], c \in apart')
  <2> DEFINE a == asked[c]
             s == << >>
             r == replies[c]
             b == c \in apart
  <2>1. ConnInv(th[c], a, stream[c], r, b) /\ b \in BOOLEAN
    BY OfConnection
  <2>2. th'[c] = Closed /\ stream'[c] = s
    BY DEF ProcessEnds
  <2> HIDE DEF a, s, r, b
  <2>3. ConnInv(Closed, a, s, r, b)
    BY <2>1, Returned
  <2> QED BY <1>1, <2>2, <2>3 DEF a, r, b
<1> QED BY <1>1, <1>2 DEF ReplyInv

\* A turn goes on at another place.
LEMMA GoStep ==
  ASSUME ReplyInv, Types, NEW c \in Conns, NEW x \in Place, Goto(c, x),
         stream' = stream, asked' = asked, replies' = replies, apart' = apart,
         th[c].at \in Turning, x \in Turning \ {"open", "header"},
         x = "bare_400" => th[c].line \notin Paths,
         x = "500" => th[c].line \in Paths
  PROVE  ReplyInv'
<1> DEFINE t == [th[c] EXCEPT !.at = x]
<1>1. th[c] \in ThreadState
  BY OfConnection
<1>2. t.at = x /\ t.line = th[c].line /\ t.offset = th[c].offset
  BY <1>1 DEF ThreadState
<1>3. th' = [th EXCEPT ![c] = t]
  BY DEF Goto
<1> HIDE DEF t
<1> QED BY <1>2, <1>3, TurnStep

\* The turn comes to a response without a file.
LEMMA RespondStep ==
  ASSUME ReplyInv, Types, NEW c \in Conns, NEW n \in Nat, NEW l \in Nat, Respond(c, n, l),
         stream' = stream, asked' = asked, replies' = replies, apart' = apart,
         th[c].at \in Turning, Fits(th[c].line, n)
  PROVE  ReplyInv'
<1> DEFINE t == [th[c] EXCEPT !.at = "header", !.status = n, !.length = l]
<1>1. th[c] \in ThreadState /\ DOMAIN th = Conns
  BY OfConnection
<1>2. t.at = "header" /\ t.line = th[c].line /\ t.offset = th[c].offset /\ t.status = n
  BY <1>1 DEF ThreadState
<1>3. th' = [th EXCEPT ![c] = t]
  BY <1>1 DEF Respond
<1>4. t.at \in Turning
  BY <1>2 DEF Turning
<1> HIDE DEF t
<1> QED BY <1>2, <1>3, <1>4, TurnStep

\* What recv leaves in the thread.
LEMMA ReceivedIs ==
  ASSUME NEW l
  PROVE  LET t == [Backlog EXCEPT !.at = "parse", !.line = l]
         IN t.at = "parse" /\ t.line = l /\ t.offset = 0
BY DEF Backlog

\* A recv: of one request, of something else, or of a part of one.
LEMMA RecvStep ==
  ASSUME ReplyInv, Types, NEW c \in Conns, Recv(c)
  PROVE  ReplyInv'
<1> DEFINE u == th[c]
           a == asked[c]
           s == stream[c]
           r == replies[c]
           b == c \in apart
           b2 == c \in apart'
<1>1. /\ ConnInv(u, a, s, r, b)
      /\ a \in Seq(Lines) /\ s \in Seq(Part) /\ r \in Seq(ReplyState)
      /\ DOMAIN th = Conns /\ DOMAIN stream = Conns
  BY OfConnection
<1>2. b \in BOOLEAN /\ b2 \in BOOLEAN /\ u.at = "recv"
  BY DEF Recv, At
<1>3. asked' = [asked EXCEPT ![c] = a] /\ replies' = [replies EXCEPT ![c] = r]
  BY DEF Recv, clients, ReplyInv
<1>4. PICK l, s2 :
        /\ th' = [th EXCEPT ![c] = [Backlog EXCEPT !.at = "parse", !.line = l]]
        /\ stream' = [stream EXCEPT ![c] = s2]
        /\ apart' = apart \/ apart' = apart \ {c}
        /\ b2 => b /\ Len(s) >= 2 /\ l = s[1] /\ s2 = SubSeq(s, 3, Len(s))
  <2> DEFINE received(h) == [Backlog EXCEPT !.at = "parse", !.line = h]
  <2>0. /\ \A h : Received(c, h) => th' = [th EXCEPT ![c] = received(h)]
        /\ \A q : Leaves(c, q) => stream' = [stream EXCEPT ![c] = q]
    BY DEF Received, Leaves
  <2>1. ASSUME NEW n \in 1..Len(s),
               \E h \in Parsed(Head(s)) : Received(c, h),
               Leaves(c, SubSeq(s, n + 1, Len(s))),
               apart' = IF n = 2 /\ Head(s) # Rest THEN apart ELSE apart \ {c}
        PROVE  \E l, s2 :
                 /\ th' = [th EXCEPT ![c] = received(l)]
                 /\ stream' = [stream EXCEPT ![c] = s2]
                 /\ apart' = apart \/ apart' = apart \ {c}
                 /\ b2 => b /\ Len(s) >= 2 /\ l = s[1] /\ s2 = SubSeq(s, 3, Len(s))
    <3>1. PICK h \in Parsed(Head(s)) : Received(c, h)
      BY <2>1
    <3>2. apart' = apart \/ apart' = apart \ {c}
      BY <2>1
    <3>3. b2 => b /\ n = 2 /\ Head(s) # Rest
      BY <2>1
    <3> HIDE DEF s, b, b2, received
    <3>4. b2 => Len(s) >= 2 /\ SubSeq(s, n + 1, Len(s)) = SubSeq(s, 3, Len(s))
      BY <1>1, <2>1, <3>3
    <3>5. b2 => h = s[1]
      <4>1. Head(s) = s[1]
        BY <1>1, <2>1
      <4> QED BY <3>1, <3>3, <4>1 DEF Parsed
    <3> DEFINE q == SubSeq(s, n + 1, Len(s))
    <3>6. /\ th' = [th EXCEPT ![c] = received(h)] /\ stream' = [stream EXCEPT ![c] = q]
      BY <2>0, <2>1, <3>1
    <3>7. b2 => b /\ Len(s) >= 2 /\ h = s[1] /\ q = SubSeq(s, 3, Len(s))
      BY <3>3, <3>4, <3>5
    <3> HIDE DEF q
    <3> QED BY <3>2, <3>6, <3>7
  <2>2. ASSUME NEW h, Received(c, h), NEW q, Leaves(c, q), apart' = apart \ {c}
        PROVE  \E l, s2 :
                 /\ th' = [th EXCEPT ![c] = received(l)]
                 /\ stream' = [stream EXCEPT ![c] = s2]
                 /\ apart' = apart \/ apart' = apart \ {c}
                 /\ b2 => b /\ Len(s) >= 2 /\ l = s[1] /\ s2 = SubSeq(s, 3, Len(s))
    <3>1. ~b2
      BY <2>2
    <3>2. th' = [th EXCEPT ![c] = received(h)] /\ stream' = [stream EXCEPT ![c] = q]
      BY <2>0, <2>2
    <3> HIDE DEF received, s, b, b2
    <3> QED BY <2>2, <3>1, <3>2
  <2>3. CASE \E n \in 1..Len(s) :
               /\ \E h \in Parsed(Head(s)) : Received(c, h)
               /\ Leaves(c, SubSeq(s, n + 1, Len(s)))
               /\ apart' = IF n = 2 /\ Head(s) # Rest THEN apart ELSE apart \ {c}
    <3> HIDE DEF s, b, b2
    <3> QED BY <2>1, <2>3
  <2>4. CASE /\ \E h \in {Malformed, Head(s)} : Received(c, h)
             /\ Leaves(c, <<Rest>> \o Tail(s))
             /\ apart' = apart \ {c}
    <3> HIDE DEF s, b, b2
    <3> QED BY <2>2, <2>4
  <2> QED BY <2>3, <2>4 DEF Recv
<1> DEFINE t == [Backlog EXCEPT !.at = "parse", !.line = l]
<1>5. t.at = "parse" /\ t.line = l /\ t.offset = 0
  BY ReceivedIs
<1>6. th' = [th EXCEPT ![c] = t]
  BY <1>4
<1> HIDE DEF t, u, a, s, r, b, b2
<1>7. ConnInv(t, a, s2, r, b2)
  BY ONLY <1>1, <1>2, <1>4, <1>5, Taken
<1>8. ConnInv(t, a, s2, r, c \in apart')
  BY <1>7 DEF b2
<1> QED BY <1>1, <1>3, <1>4, <1>6, <1>8, OneConnection

\* The bare header, and the header of an error that ends the thread.
LEMMA ReplyIs ==
  ASSUME NEW n \in Nat, NEW l \in Int
  PROVE  /\ Reply(n, l) \in ReplyState
         /\ Reply(n, l).status = n /\ Reply(n, l).length = l /\ Reply(n, l).body = 0
         /\ ~Reply(n, l).done
         /\ [Reply(n, l) EXCEPT !.done = TRUE] \in ReplyState
         /\ [Reply(n, l) EXCEPT !.done = TRUE].status = n
         /\ [Reply(n, l) EXCEPT !.done = TRUE].length = l
         /\ [Reply(n, l) EXCEPT !.done = TRUE].body = 0
         /\ [Reply(n, l) EXCEPT !.done = TRUE].done
BY DEF Reply, ReplyState

\* The header is sent, and opens a response.
LEMMA HeaderStep ==
  ASSUME ReplyInv, Types, NEW c \in Conns, SendHeader(c)
  PROVE  ReplyInv'
<1> DEFINE u == th[c]
           t == [th[c] EXCEPT !.at = "body"]
           a == asked[c]
           s == stream[c]
           r == replies[c]
           b == c \in apart
           x == Reply(u.status, u.length)
<1>1. /\ ConnInv(u, a, s, r, b) /\ u \in ThreadState
      /\ a \in Seq(Lines) /\ s \in Seq(Part) /\ r \in Seq(ReplyState)
      /\ DOMAIN th = Conns /\ DOMAIN stream = Conns
  BY OfConnection
<1>2. /\ u.at = "header" /\ th' = [th EXCEPT ![c] = t]
      /\ stream' = [stream EXCEPT ![c] = s] /\ asked' = [asked EXCEPT ![c] = a]
      /\ replies' = [replies EXCEPT ![c] = Append(r, x)] /\ apart' = apart
      /\ b \in BOOLEAN
  <2>1. u.at = "header" /\ Goto(c, "body") /\ stream' = stream /\ asked' = asked /\ apart' = apart
    BY DEF SendHeader, At, clients
  <2>2. replies' = [replies EXCEPT ![c] = Append(r, x)]
    BY DEF SendHeader
  <2>3. th' = [th EXCEPT ![c] = t]
    BY <2>1 DEF Goto
  <2> HIDE DEF x, t
  <2>4. stream' = [stream EXCEPT ![c] = s] /\ asked' = [asked EXCEPT ![c] = a]
    BY <1>1, <2>1 DEF ReplyInv, Types
  <2>5. b \in BOOLEAN
    OBVIOUS
  <2> HIDE DEF a, s, r, b
  <2> QED BY <2>1, <2>2, <2>3, <2>4, <2>5
<1>3. /\ t.at = "body" /\ t.line = u.line /\ t.length = u.length /\ t.offset = u.offset
      /\ u.status \in Nat /\ u.length \in Int
  BY <1>1 DEF ThreadState
<1>4. u.offset = 0
  BY <1>1, <1>2 DEF ConnInv, Framed
<1>5. x \in ReplyState /\ x.status = u.status /\ x.length = u.length /\ x.body = 0 /\ ~x.done
  BY <1>3, ReplyIs
<1>6. b => Fits(u.line, x.status)
  BY <1>1, <1>2, <1>5 DEF ConnInv, InStep
<1> HIDE DEF u, t, a, s, r, b, x
<1>7. ConnInv(t, a, s, Append(r, x), b)
  BY <1>1, <1>2, <1>3, <1>4, <1>5, <1>6, Answered
<1>8. Append(r, x) \in Seq(ReplyState)
  BY <1>1, <1>5, AppendIs
<1>9. ConnInv(t, a, s, Append(r, x), c \in apart')
  BY <1>2, <1>7 DEF b
<1> QED BY <1>1, <1>2, <1>8, <1>9, OneConnection

\* The bare header of http_exception.
LEMMA BadStep ==
  ASSUME ReplyInv, Types, NEW c \in Conns, BadRequest(c)
  PROVE  ReplyInv'
<1> DEFINE u == th[c]
           t == [th[c] EXCEPT !.at = "recv"]
           a == asked[c]
           s == stream[c]
           r == replies[c]
           b == c \in apart
           x == [Reply(400, NoLength) EXCEPT !.done = TRUE]
<1>1. /\ ConnInv(u, a, s, r, b) /\ u \in ThreadState
      /\ a \in Seq(Lines) /\ s \in Seq(Part) /\ r \in Seq(ReplyState)
      /\ DOMAIN th = Conns /\ DOMAIN stream = Conns
  BY OfConnection
<1>2. /\ u.at = "bare_400" /\ th' = [th EXCEPT ![c] = t]
      /\ stream' = [stream EXCEPT ![c] = s] /\ asked' = [asked EXCEPT ![c] = a]
      /\ replies' = [replies EXCEPT ![c] = Append(r, x)] /\ apart' = apart
      /\ b \in BOOLEAN
  <2>1. u.at = "bare_400" /\ Goto(c, "recv") /\ stream' = stream /\ asked' = asked /\ apart' = apart
    BY DEF BadRequest, At, clients
  <2>2. replies' = [replies EXCEPT ![c] = Append(r, x)]
    BY DEF BadRequest
  <2>3. th' = [th EXCEPT ![c] = t]
    BY <2>1 DEF Goto
  <2> HIDE DEF x, t
  <2>4. stream' = [stream EXCEPT ![c] = s] /\ asked' = [asked EXCEPT ![c] = a]
    BY <1>1, <2>1 DEF ReplyInv, Types
  <2>5. b \in BOOLEAN
    OBVIOUS
  <2> HIDE DEF a, s, r, b
  <2> QED BY <2>1, <2>2, <2>3, <2>4, <2>5
<1>3. t.at = "recv" /\ t.offset = u.offset
  BY <1>1 DEF ThreadState
<1>4. u.offset = 0
  BY <1>1, <1>2 DEF ConnInv, Framed
<1>5. x \in ReplyState /\ x.status = 400 /\ x.length = NoLength /\ x.body = 0 /\ x.done
  BY ReplyIs DEF NoLength
<1>6. b => Fits(u.line, x.status)
  BY <1>1, <1>2, <1>5 DEF ConnInv, InStep, Fits
<1> HIDE DEF u, t, a, s, r, b, x
<1>7. ConnInv(t, a, s, Append(r, x), b)
  BY <1>1, <1>2, <1>3, <1>4, <1>5, <1>6, Answered
<1>8. Append(r, x) \in Seq(ReplyState)
  BY <1>1, <1>5, AppendIs
<1>9. ConnInv(t, a, s, Append(r, x), c \in apart')
  BY <1>2, <1>7 DEF b
<1> QED BY <1>1, <1>2, <1>8, <1>9, OneConnection

\* The header of runtime_error, with which the thread returns.
LEMMA ErrorStep ==
  ASSUME ReplyInv, Types, NEW c \in Conns, ServerError(c)
  PROVE  ReplyInv'
<1> DEFINE u == th[c]
           a == asked[c]
           s == stream[c]
           s2 == << >>
           r == replies[c]
           b == c \in apart
           x == [Reply(500, 0) EXCEPT !.done = TRUE]
<1>1. /\ ConnInv(u, a, s, r, b) /\ u \in ThreadState
      /\ a \in Seq(Lines) /\ s \in Seq(Part) /\ r \in Seq(ReplyState)
      /\ DOMAIN th = Conns /\ DOMAIN stream = Conns
  BY OfConnection
<1>2. /\ u.at = "500" /\ th' = [th EXCEPT ![c] = Closed]
      /\ stream' = [stream EXCEPT ![c] = s2] /\ asked' = [asked EXCEPT ![c] = a]
      /\ replies' = [replies EXCEPT ![c] = Append(r, x)] /\ apart' = apart
      /\ b \in BOOLEAN
  BY <1>1 DEF ServerError, At, Leave, clients, ReplyInv
<1>3. Closed.at = "closed" /\ Closed.offset = 0
  BY DEF Closed, Backlog
<1>4. x \in ReplyState /\ x.status = 500 /\ x.length = 0 /\ x.body = 0 /\ x.done
  <2> DEFINE n == 500
             l == 0
  <2>1. n \in Nat /\ l \in Int /\ x = [Reply(n, l) EXCEPT !.done = TRUE]
    OBVIOUS
  <2> HIDE DEF n, l, x
  <2>2. x \in ReplyState /\ x.status = n /\ x.length = l /\ x.body = 0 /\ x.done
    BY ONLY <2>1, ReplyIs
  <2> QED BY <2>2 DEF n, l
<1>5. b => Fits(u.line, x.status)
  BY <1>1, <1>2, <1>4 DEF ConnInv, InStep, Fits
<1> DEFINE t == Closed
<1> HIDE DEF u, a, s, s2, r, b, x, t
<1>6. t.at = "closed" /\ t.offset = 0
  BY <1>3 DEF t
<1>7. ConnInv(t, a, s2, Append(r, x), b)
  BY <1>1, <1>2, <1>4, <1>5, <1>6, Answered
<1>8. Append(r, x) \in Seq(ReplyState)
  BY <1>1, <1>4, AppendIs
<1>9. ConnInv(t, a, s2, Append(r, x), c \in apart')
  BY <1>2, <1>7 DEF b
<1>10. th' = [th EXCEPT ![c] = t]
  BY <1>2 DEF t
<1> QED BY <1>1, <1>2, <1>8, <1>9, <1>10, OneConnection

\* More of the body is sent.
LEMMA BodyStep ==
  ASSUME ReplyInv, Types, NEW c \in Conns, SendBody(c)
  PROVE  ReplyInv'
<1> DEFINE u == th[c]
           a == asked[c]
           s == stream[c]
           r == replies[c]
           b == c \in apart
           y == r[Len(r)]
<1>1. /\ ConnInv(u, a, s, r, b) /\ u \in ThreadState
      /\ a \in Seq(Lines) /\ s \in Seq(Part) /\ r \in Seq(ReplyState)
      /\ DOMAIN th = Conns /\ DOMAIN stream = Conns
  BY OfConnection
<1>2. /\ u.at = "body" /\ u.offset < u.length
      /\ stream' = stream /\ asked' = asked /\ apart' = apart
  BY DEF SendBody, At, clients
<1>3. PICK n \in Takes(c) :
        /\ th' = [th EXCEPT ![c].offset = th[c].offset + n]
        /\ Continue(c, [y EXCEPT !.body = @ + n])
  BY DEF SendBody, Sending
<1>4. n \in Nat
  BY <1>1, <1>2 DEF Takes, ThreadState
<1>5. y \in ReplyState /\ ~y.done /\ y.length = u.length /\ y.body = u.offset
  BY <1>1, <1>2 DEF ConnInv, Framed
<1> DEFINE t == [u EXCEPT !.offset = u.offset + n]
           x == [y EXCEPT !.body = y.body + n]
<1>6. th' = [th EXCEPT ![c] = t] /\ replies' = [replies EXCEPT ![c] = [r EXCEPT ![Len(r)] = x]]
  BY <1>3 DEF Continue
<1>7. t.at = "body" /\ t.line = u.line /\ t.length = u.length /\ t.offset = u.offset + n
  BY <1>1, <1>2 DEF ThreadState
<1>8. /\ x \in ReplyState /\ ~x.done /\ x.length = y.length /\ x.body = y.body + n
      /\ x.status = y.status
  <2> HIDE DEF y, u
  <2>1. y.body + n \in Nat
    BY <1>4, <1>5 DEF ReplyState
  <2> DEFINE m == y.body + n
  <2> HIDE DEF m
  <2>2. [y EXCEPT !.body = m] \in ReplyState
    BY <1>5, <2>1 DEF ReplyState, m
  <2> QED BY <1>5, <2>2 DEF ReplyState, m
<1>9. stream' = [stream EXCEPT ![c] = s] /\ asked' = [asked EXCEPT ![c] = a]
  BY <1>2 DEF ReplyInv, Types
<1>10. b \in BOOLEAN /\ x.status = r[Len(r)].status /\ x.length = t.length /\ x.body = t.offset
  <2>1. b \in BOOLEAN
    OBVIOUS
  <2> HIDE DEF u, t, x, b
  <2> QED BY <1>5, <1>7, <1>8, <2>1
<1> HIDE DEF u, t, a, s, r, b, x, y
<1> DEFINE r2 == LastAs(r, x)
<1>11. r2 \in Seq(ReplyState) /\ ConnInv(t, a, s, r2, b)
  <2>1. SentAs(u, t, x)
    BY <1>7, <1>8, <1>10 DEF SentAs
  <2> QED BY <1>1, <1>2, <1>8, <1>10, <2>1, Continued
<1>12. ConnInv(t, a, s, r2, c \in apart')
  BY <1>2, <1>11 DEF b
<1>13. replies' = [replies EXCEPT ![c] = r2]
  BY <1>6 DEF LastAs
<1> HIDE DEF r2
<1> QED BY <1>1, <1>2, <1>6, <1>9, <1>11, <1>12, <1>13, OneConnection

\* The response is complete.
LEMMA EndResponseStep ==
  ASSUME ReplyInv, Types, NEW c \in Conns, EndResponse(c)
  PROVE  ReplyInv'
<1> DEFINE u == th[c]
           t == [Backlog EXCEPT !.at = "recv"]
           a == asked[c]
           s == stream[c]
           r == replies[c]
           b == c \in apart
           y == r[Len(r)]
           x == [y EXCEPT !.done = TRUE]
<1>1. /\ ConnInv(u, a, s, r, b) /\ u \in ThreadState
      /\ a \in Seq(Lines) /\ s \in Seq(Part) /\ r \in Seq(ReplyState)
      /\ DOMAIN th = Conns /\ DOMAIN stream = Conns
  BY OfConnection
<1>2. /\ u.at = "body" /\ u.offset = u.length
      /\ stream' = stream /\ asked' = asked /\ apart' = apart
      /\ th' = [th EXCEPT ![c] = t]
  BY DEF EndResponse, At, BodySent, clients
<1>3. replies' = [replies EXCEPT ![c] = [r EXCEPT ![Len(r)] = x]]
  BY DEF EndResponse, Sending, Continue
<1>4. y \in ReplyState /\ y.length = u.length /\ y.body = u.offset
  BY <1>1, <1>2 DEF ConnInv, Framed
<1>5. t.at = "recv" /\ t.offset = 0
  BY DEF Backlog
<1>6. /\ x \in ReplyState /\ x.length = y.length /\ x.body = y.body
      /\ x.status = y.status /\ x.done
  BY <1>4 DEF ReplyState
<1>7. stream' = [stream EXCEPT ![c] = s] /\ asked' = [asked EXCEPT ![c] = a]
  BY <1>2 DEF ReplyInv, Types
<1>8. b \in BOOLEAN /\ x.status = r[Len(r)].status /\ x.body = x.length
  <2>1. b \in BOOLEAN
    OBVIOUS
  <2> HIDE DEF u, t, x, b
  <2> QED BY <1>2, <1>4, <1>6, <2>1
<1> HIDE DEF u, t, a, s, r, b, x, y
<1> DEFINE r2 == LastAs(r, x)
<1>9. r2 \in Seq(ReplyState) /\ ConnInv(t, a, s, r2, b)
  <2>1. SentAs(u, t, x)
    BY <1>5, <1>6, <1>8 DEF SentAs
  <2>2. u.at = "body" /\ x \in ReplyState /\ x.status = r[Len(r)].status /\ b \in BOOLEAN
    BY <1>2, <1>6, <1>8
  <2>3. ConnInv(u, a, s, r, b) /\ a \in Seq(Lines) /\ r \in Seq(ReplyState)
    BY <1>1
  <2> QED BY ONLY <2>1, <2>2, <2>3, Continued
<1>10. ConnInv(t, a, s, r2, c \in apart')
  BY <1>2, <1>9 DEF b
<1>11. replies' = [replies EXCEPT ![c] = r2]
  BY <1>3 DEF LastAs
<1> HIDE DEF r2
<1> QED BY <1>1, <1>2, <1>7, <1>9, <1>10, <1>11, OneConnection

\* The client sends a request.
LEMMA RequestStep ==
  ASSUME ReplyInv, Types, NEW c \in Conns, NEW line \in Lines, SendRequest(c, line)
  PROVE  ReplyInv'
<1> DEFINE t == th[c]
           a == asked[c]
           s == stream[c]
           r == replies[c]
           b == c \in apart
           a2 == Append(a, line)
           s2 == s \o <<line, Rest>>
<1>1. /\ ConnInv(t, a, s, r, b)
      /\ a \in Seq(Lines) /\ s \in Seq(Part) /\ r \in Seq(ReplyState)
      /\ DOMAIN th = Conns /\ DOMAIN stream = Conns
  BY OfConnection
<1>2. /\ t.at # "closed" /\ th' = th /\ replies' = replies /\ apart' = apart
      /\ asked' = [asked EXCEPT ![c] = a2] /\ stream' = [stream EXCEPT ![c] = s2]
  BY DEF SendRequest, Connected
<1>3. th' = [th EXCEPT ![c] = t] /\ replies' = [replies EXCEPT ![c] = r]
  BY <1>2 DEF ReplyInv, Types
<1>4. b \in BOOLEAN
  OBVIOUS
<1>5. a2 \in Seq(Lines)
  BY <1>1
<1> HIDE DEF t, a, s, r, b
<1>6. ConnInv(t, a2, s2, r, b)
  BY ONLY <1>1, <1>2, <1>4, Requested, line \in Lines
<1>7. ConnInv(t, a2, s2, r, c \in apart')
  BY <1>2, <1>6 DEF b
<1> HIDE DEF a2, s2
<1> QED BY <1>1, <1>2, <1>3, <1>5, <1>7, OneConnection

\* A connection is accepted.
LEMMA AcceptStep ==
  ASSUME ReplyInv, Types, NEW c \in Conns, Accept(c)
  PROVE  ReplyInv'
<1> DEFINE u == th[c]
           t == [th[c] EXCEPT !.at = "recv"]
           a == asked[c]
           s == stream[c]
           r == replies[c]
           b == c \in apart
<1>1. ConnInv(u, a, s, r, b) /\ u \in ThreadState /\ b \in BOOLEAN
  BY OfConnection
<1>2. /\ u.at = "backlog" /\ th' = [th EXCEPT ![c] = t]
      /\ stream' = stream /\ asked' = asked /\ replies' = replies /\ apart' = apart
  BY DEF Accept, clients
<1>3. t.at = "recv" /\ t.offset = u.offset
  BY <1>1 DEF ThreadState
<1> HIDE DEF u, t, a, s, r, b
<1>4. ConnInv(t, a, s, r, b)
  BY <1>1, <1>2, <1>3, Accepted
<1>5. ConnInv(t, asked[c], stream[c], replies[c], c \in apart)
  BY <1>4 DEF a, s, r, b
<1> QED BY <1>2, <1>5, ThreadOnly

\* The steps of a thread.
LEMMA ThreadReplies ==
  ASSUME LogInv, ReplyInv, NEW c \in Conns, Thread(c)
  PROVE  ReplyInv'
<1>0. Types /\ th[c] \in ThreadState /\ DOMAIN th = Conns
  BY OfConnection DEF LogInv
<1> DEFINE line == th[c].line
<1>1. th[c].at \in LogPlaces => line \in Paths
  BY DEF LogInv, InLog
<1>2. LogPlaces \subseteq Turning /\ Turning \subseteq Place
  BY DEF Turning, Place
<1>3. CASE ServeGet(c)
  <2>1. /\ th[c].at = "parse" /\ stream' = stream /\ asked' = asked
        /\ replies' = replies /\ apart' = apart
    BY <1>3 DEF ServeGet, At, clients
  <2>2. line \in Paths \cup {Malformed, Relative}
    BY <1>0 DEF ThreadState, Lines
  <2>3. /\ line = Malformed => Goto(c, "bare_400")
        /\ line = Relative => Respond(c, 400, 0)
        /\ line \in Paths => Respond(c, 404, 0) \/ Goto(c, "log")
    <3>1. Relative # Malformed
      BY DEF Relative, Malformed
    <3>2. {Malformed, Relative} \cap Paths = {}
      BY PathsAssumption
    <3> QED BY <1>3, <3>1, <3>2 DEF ServeGet
  <2>4. CASE line = Malformed
    <3>1. line \notin Paths
      BY <2>4, PathsAssumption
    <3>2. "bare_400" \in Place /\ "bare_400" \in Turning \ {"open", "header"}
      BY DEF Place, Turning
    <3>3. th[c].at \in Turning
      BY <2>1 DEF Turning
    <3> QED BY <1>0, <2>1, <2>3, <2>4, <3>1, <3>2, <3>3, GoStep
  <2>5. CASE line = Relative
    <3>1. Fits(line, 400)
      BY <2>5, PathsAssumption DEF Fits
    <3>2. th[c].at \in Turning
      BY <2>1 DEF Turning
    <3> QED BY <1>0, <2>1, <2>3, <2>5, <3>1, <3>2, RespondStep
  <2>6. CASE line \in Paths /\ Respond(c, 404, 0)
    <3>1. Fits(line, 404)
      BY <2>6 DEF Fits
    <3>2. th[c].at \in Turning
      BY <2>1 DEF Turning
    <3> QED BY <1>0, <2>1, <2>6, <3>1, <3>2, RespondStep
  <2>7. CASE line \in Paths /\ Goto(c, "log")
    <3>1. "log" \in Place /\ "log" \in Turning \ {"open", "header"}
      BY DEF Place, Turning, LogPlaces
    <3>2. th[c].at \in Turning
      BY <2>1 DEF Turning
    <3> QED BY <1>0, <2>1, <2>7, <3>1, <3>2, GoStep
  <2> QED BY <2>2, <2>3, <2>4, <2>5, <2>6, <2>7
<1>4. ASSUME NEW x \in LogPlaces, Goto(c, x), th[c].at \in LogPlaces,
             stream' = stream, asked' = asked, replies' = replies, apart' = apart
      PROVE  ReplyInv'
  <2>1. x \in Place /\ x \in Turning \ {"open", "header"} /\ x \notin {"bare_400", "500"}
    BY <1>2 DEF LogPlaces
  <2> QED BY <1>0, <1>2, <1>4, <2>1, GoStep
<1>13. ASSUME NEW q, Count(c, q), th[c].at \in LogPlaces,
              stream' = stream, asked' = asked, replies' = replies, apart' = apart
       PROVE  ReplyInv'
  <2> DEFINE n == d_counts[q] + 1
             t == [th[c] EXCEPT !.at = "log_write", !.count = n]
  <2> HIDE DEF n
  <2>1. t.at = "log_write" /\ t.line = th[c].line /\ t.offset = th[c].offset
    BY <1>0 DEF ThreadState
  <2>2. th' = [th EXCEPT ![c] = t]
    BY <1>0, <1>13 DEF Count, n
  <2>3. t.at \in Turning /\ th[c].at \in Turning
    BY <1>2, <1>13, <2>1 DEF LogPlaces
  <2> HIDE DEF t
  <2> QED BY <1>0, <1>13, <2>1, <2>2, <2>3, TurnStep
<1>14. CASE WriteLine(c)
  <2> DEFINE t == [th[c] EXCEPT !.at = "size", !.count = 0]
  <2>1. t.at = "size" /\ t.line = th[c].line /\ t.offset = th[c].offset
    BY <1>0 DEF ThreadState
  <2>2. /\ th' = [th EXCEPT ![c] = t] /\ th[c].at \in LogPlaces
        /\ stream' = stream /\ asked' = asked /\ replies' = replies /\ apart' = apart
    BY <1>0, <1>14 DEF WriteLine, At, LogPlaces, clients
  <2>3. t.at \in Turning /\ th[c].at \in Turning
    BY <1>2, <2>1, <2>2 DEF LogPlaces
  <2> HIDE DEF t
  <2> QED BY <1>0, <2>1, <2>2, <2>3, TurnStep
<1>5. CASE LookUp(c)
  <2>1. th[c].at \in LogPlaces /\ asked' = asked /\ stream' = stream /\ replies' = replies
          /\ apart' = apart
    BY <1>5 DEF LookUp, At, clients, LogPlaces
  <2>2. CASE Goto(c, "log_lock")
    BY <1>4, <2>1, <2>2 DEF LogPlaces
  <2>3. CASE Count(c, line)
    BY <1>13, <2>1, <2>3
  <2> QED BY <1>5, <2>2, <2>3 DEF LookUp
<1>6. CASE LockCounts(c)
  <2>1. th[c].at \in LogPlaces /\ asked' = asked /\ stream' = stream /\ replies' = replies
          /\ apart' = apart /\ Goto(c, "log_insert")
    BY <1>6 DEF LockCounts, At, clients, LogPlaces
  <2> QED BY <1>4, <2>1 DEF LogPlaces
<1>7. CASE InsertCount(c)
  <2>1. th[c].at \in LogPlaces /\ asked' = asked /\ stream' = stream /\ replies' = replies
          /\ apart' = apart /\ Goto(c, "log_again")
    BY <1>7 DEF InsertCount, At, clients, LogPlaces
  <2> QED BY <1>4, <2>1 DEF LogPlaces
<1>8. CASE LookUpAgain(c)
  <2>1. th[c].at \in LogPlaces /\ asked' = asked /\ replies' = replies /\ apart' = apart
    BY <1>8 DEF LookUpAgain, At, clients, LogPlaces
  <2>2. CASE Count(c, line) /\ stream' = stream
    BY <1>13, <2>1, <2>2
  <2>3. CASE Leave(c)
    BY <1>0, <2>1, <2>3, LeaveStep
  <2> QED BY <1>8, <2>2, <2>3 DEF LookUpAgain
<1>9. CASE FileSize(c)
  <2>1. /\ th[c].at \in LogPlaces /\ stream' = stream /\ asked' = asked
        /\ replies' = replies /\ apart' = apart
    BY <1>9 DEF FileSize, At, clients, LogPlaces
  <2>2. line \in Paths /\ th[c].at \in Turning
    BY <1>1, <1>2, <2>1
  <2>3. CASE th' = [th EXCEPT ![c].at = "open", ![c].length = size[line]]
    <3> DEFINE t == [th[c] EXCEPT !.at = "open", !.length = size[line]]
    <3>1. t.at = "open" /\ t.line = th[c].line /\ t.offset = th[c].offset
      BY <1>0 DEF ThreadState
    <3>2. th' = [th EXCEPT ![c] = t]
      BY <1>0, <2>3
    <3>3. t.at \in Turning /\ t.line \in Paths
      BY <2>2, <3>1 DEF Turning
    <3> HIDE DEF t
    <3> QED BY <1>0, <2>1, <2>2, <3>1, <3>2, <3>3, TurnStep
  <2>4. CASE Goto(c, "500")
    <3>1. "500" \in Place /\ "500" \in Turning \ {"open", "header"}
      BY DEF Place, Turning
    <3> QED BY <1>0, <2>1, <2>2, <2>4, <3>1, GoStep
  <2> QED BY <1>9, <2>3, <2>4 DEF FileSize
<1>10. CASE OpenFile(c)
  <2>1. /\ th[c].at = "open" /\ stream' = stream /\ asked' = asked
        /\ replies' = replies /\ apart' = apart
    BY <1>10 DEF OpenFile, At, clients
  <2>2. th[c].at \in Turning
    BY <2>1 DEF Turning
  <2>3. line \in Paths
    BY <1>0, <2>1, OfConnection DEF ConnInv
  <2>4. CASE th' = [th EXCEPT ![c].at = "header", ![c].status = 200, ![c].file = TRUE]
    <3> DEFINE t == [th[c] EXCEPT !.at = "header", !.status = 200, !.file = TRUE]
    <3>1. /\ t.at = "header" /\ t.line = th[c].line /\ t.offset = th[c].offset
          /\ t.status = 200
      BY <1>0 DEF ThreadState
    <3>2. th' = [th EXCEPT ![c] = t]
      BY <1>0, <2>4
    <3>3. t.at \in Turning
      BY <3>1 DEF Turning
    <3>4. Fits(t.line, t.status)
      BY <2>3, <3>1 DEF Fits
    <3> HIDE DEF t
    <3> QED BY <1>0, <2>1, <2>2, <3>1, <3>2, <3>3, <3>4, TurnStep
  <2>5. CASE Respond(c, 503, 1)
    <3>1. Fits(line, 503)
      BY <2>3 DEF Fits
    <3> QED BY <1>0, <2>1, <2>2, <2>5, <3>1, RespondStep
  <2> QED BY <1>10, <2>4, <2>5 DEF OpenFile
<1>11. CASE SocketFails(c) \/ ServerError(c)
  BY <1>0, <1>11, LeaveStep, ErrorStep DEF SocketFails, clients
<1>12. CASE LookUpCrashes(c) \/ PipeBreaks(c)
  BY <1>0, <1>12, EndStep DEF LookUpCrashes, PipeBreaks
<1> QED BY <1>0, <1>3, <1>5, <1>6, <1>7, <1>8, <1>9, <1>10, <1>11, <1>12, <1>14, RecvStep,
           HeaderStep, BodyStep, EndResponseStep, BadStep DEF Thread

\* Steps that leave connections and threads alone.
LEMMA RepliesUnchanged ==
  ASSUME ReplyInv, th' = th, stream' = stream, asked' = asked, replies' = replies, apart' = apart
  PROVE  ReplyInv'
BY DEF ReplyInv

\* Initially nothing was sent.
LEMMA InitReplies == Init => ReplyInv
<1> SUFFICES ASSUME Init PROVE ReplyInv
  OBVIOUS
<1>1. /\ asked \in [Conns -> Seq(Lines)] /\ replies \in [Conns -> Seq(ReplyState)]
      /\ apart \subseteq Conns
  BY DEF Init
<1>2. ASSUME NEW c \in Conns
      PROVE  ConnInv(th[c], asked[c], stream[c], replies[c], c \in apart)
  <2>1. /\ th[c].at = "backlog" /\ th[c].offset = 0
        /\ asked[c] = <<>> /\ stream[c] = <<>> /\ replies[c] = <<>>
    BY <1>2 DEF Init, Backlog
  <2>2. Len(asked[c]) = 0 /\ Len(stream[c]) = 0 /\ Len(replies[c]) = 0
    BY <2>1
  <2>3. Framed(th[c], replies[c])
    BY <2>1, <2>2 DEF Framed
  <2>4. Fitting(asked[c], replies[c])
    BY <2>2 DEF Fitting
  <2>5. InStep(0, th[c], asked[c], stream[c], replies[c])
    BY <2>1, <2>2 DEF InStep
  <2>6. 0 \in 0..Len(asked[c])
    BY <2>2
  <2> QED BY <2>1, <2>3, <2>4, <2>5, <2>6 DEF ConnInv
<1> QED BY <1>1, <1>2 DEF ReplyInv

\* Every step keeps the invariant of the responses.
LEMMA NextReplies == LogInv /\ ReplyInv /\ [Next]_vars => ReplyInv'
<1> SUFFICES ASSUME LogInv, ReplyInv, [Next]_vars PROVE ReplyInv'
  OBVIOUS
<1>0. Types
  BY DEF LogInv
<1>1. ASSUME NEW c \in Conns, NEW line \in Lines, SendRequest(c, line)
      PROVE  ReplyInv'
  BY <1>0, <1>1, RequestStep
<1>2. ASSUME NEW c \in Conns, CloseClient(c)
      PROVE  ReplyInv'
  BY <1>2, RepliesUnchanged DEF CloseClient, clients
<1>8. ASSUME NEW c \in Conns, ClientReads(c)
      PROVE  ReplyInv'
  BY <1>8, RepliesUnchanged DEF ClientReads, clients
<1>3. ASSUME NEW c \in Conns, Accept(c)
      PROVE  ReplyInv'
  BY <1>0, <1>3, AcceptStep
<1>4. ASSUME NEW c \in Conns, AcceptFails(c)
      PROVE  ReplyInv'
  BY <1>0, <1>4, EndStep DEF AcceptFails
<1>5. ASSUME NEW p \in Paths, EditFile(p)
      PROVE  ReplyInv'
  BY <1>5, RepliesUnchanged DEF EditFile
<1>6. CASE Interrupt
  BY <1>0, <1>6, EndStep DEF Interrupt
<1>7. CASE UNCHANGED vars
  BY <1>7, RepliesUnchanged DEF vars, clients
<1> QED BY <1>1, <1>2, <1>3, <1>4, <1>5, <1>6, <1>7, <1>8, ThreadReplies DEF Next

(***************************************************************************)
(* What the two properties say follows from the invariant: the second from *)
(* the number of requests that were received, which is the k of InStep.    *)
(***************************************************************************)
LEMMA RepliesAreWhole == ReplyInv => FramesWhole
<1> SUFFICES ASSUME ReplyInv, NEW c \in Conns, NEW i \in 1..Len(replies[c])
             PROVE  /\ i < Len(replies[c]) => replies[c][i].done
                    /\ replies[c][i].done /\ replies[c][i].length # NoLength =>
                         replies[c][i].body = replies[c][i].length
  BY DEF FramesWhole
<1>1. Framed(th[c], replies[c])
  BY DEF ReplyInv, ConnInv
<1>2. Len(replies[c]) \in Nat
  BY DEF ReplyInv
<1> QED BY <1>1, <1>2 DEF Framed

\* Twice the requests without what is on its way, halved.
LEMMA HalfIs ==
  ASSUME NEW n \in Nat, NEW k \in Nat
  PROVE  \A m : m = 2 * (n - k) => (2 * n - m) \div 2 = k
<1>1. 2 * n - 2 * (n - k) = 2 * k
  OBVIOUS
<1>2. (2 * k) \div 2 = k
  OBVIOUS
<1> QED BY <1>1, <1>2

LEMMA RepliesInStep == Types /\ ReplyInv => AnswersInStep
<1> SUFFICES ASSUME Types, ReplyInv, NEW c \in apart
             PROVE  LET taken == (2 * Len(asked[c]) - Len(stream[c])) \div 2
                        answered == IF th[c].at \in {"backlog", "recv", "body"}
                                    THEN taken ELSE taken - 1
                    IN /\ \A i \in 1..Len(replies[c]) :
                            Fits(asked[c][i], replies[c][i].status)
                       /\ running /\ th[c].at # "closed" => Len(replies[c]) = answered
  BY DEF AnswersInStep
<1>1. c \in Conns /\ ConnInv(th[c], asked[c], stream[c], replies[c], TRUE)
  BY DEF ReplyInv
<1>2. \A i \in 1..Len(replies[c]) : Fits(asked[c][i], replies[c][i].status)
  BY <1>1 DEF ConnInv, Fitting
<1>3. ASSUME th[c].at # "closed"
      PROVE  Len(replies[c]) =
               IF th[c].at \in {"backlog", "recv", "body"}
               THEN (2 * Len(asked[c]) - Len(stream[c])) \div 2
               ELSE (2 * Len(asked[c]) - Len(stream[c])) \div 2 - 1
  <2>1. PICK k \in 0..Len(asked[c]) :
               InStep(k, th[c], asked[c], stream[c], replies[c])
    BY <1>1, <1>3 DEF ConnInv
  <2>2. Len(stream[c]) = 2 * (Len(asked[c]) - k)
    BY <2>1 DEF InStep
  <2>3. Len(asked[c]) \in Nat /\ k \in Nat
    BY <1>1, <2>1 DEF ReplyInv
  <2>4. (2 * Len(asked[c]) - Len(stream[c])) \div 2 = k
    BY <2>2, <2>3, HalfIs
  <2> QED BY <2>1, <2>4 DEF InStep
<1> QED BY <1>2, <1>3

(***************************************************************************)
(* However the files are edited while they are sent, and however little a  *)
(* sendfile takes, no response of send_response is followed by another     *)
(* before all of it was sent, and a complete one has as much of a body as  *)
(* its Content-Length announced.                                           *)
(***************************************************************************)
THEOREM ResponsesWhole == Spec => []FramesWhole
<1>1. Init => LogInv /\ ReplyInv
  BY InitHolds, InitReplies
<1>2. (LogInv /\ ReplyInv) /\ [Next]_vars => (LogInv /\ ReplyInv)'
  BY NextHolds, NextReplies
<1> QED BY <1>1, <1>2, RepliesAreWhole, PTL DEF Spec

(***************************************************************************)
(* On a connection on which each recv returned one request, a turn of      *)
(* conn_acceptor's loop gives exactly one response, to the request that it *)
(* received and of a status that fits it, whichever of the catch clauses   *)
(* the turn ends in and whatever the other connections do.                 *)
(***************************************************************************)
THEOREM AnsweredInStep == Spec => []AnswersInStep
<1>1. Init => LogInv /\ ReplyInv
  BY InitHolds, InitReplies
<1>2. (LogInv /\ ReplyInv) /\ [Next]_vars => (LogInv /\ ReplyInv)'
  BY NextHolds, NextReplies
<1>3. LogInv /\ ReplyInv => AnswersInStep
  BY RepliesInStep DEF LogInv
<1> QED BY <1>1, <1>2, <1>3, PTL DEF Spec
===========================================================================
