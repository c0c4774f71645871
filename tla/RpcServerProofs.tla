--------------------------- MODULE RpcServerProofs ---------------------------
(****************************************************************************)
(* What becomes of a request on the server, for any requests, any number of *)
(* workers and any size of the socket's send buffer: it is executed and     *)
(* answered at most once, its reply tells the truth, and as long as the     *)
(* connection is up it is not lost.                                         *)
(*                                                                          *)
(* A request passes through five places: the stream from the client, the    *)
(* pool, a worker, the loop's task queue and the replies.  The invariant    *)
(* says that it is in one of them at a time and once, and that its method   *)
(* has not run before it has left the worker.                               *)
(****************************************************************************)
EXTENDS RpcServer, FiniteSetTheorems, TLAPS

-----------------------------------------------------------------------------
(* The inductive invariant *)

\* What the client has sent and decode has not taken, read or not.
Stream == inputbuffer_ \o c2s

\* The replies that regSend has encoded, the client's first.
Replies == received \o s2c \o outputbuffer_

\* The requests that a batch of replies answers, and those of batches of replies.
Who(replies) == [i \in 1..Len(replies) |-> replies[i][1]]

Asked(tasks) == [i \in 1..Len(tasks) |-> Who(tasks[i])]

\* The batches at the workers.
Held == [w \in Workers |-> work[w].pkgs]

\* A request whose last piece is in the stream s.
Tails(s) == {r \in Requests : \E i \in 1..Len(s) : s[i] = <<r, "tail">>}

\* What is in some batch of f.
Members(f) == UNION {Elements(f[d]) : d \in DOMAIN f}

Unsent == {r \in Requests : sent[r] < 2}

Once(s) == \A i, j \in 1..Len(s) : s[i] = s[j] => i = j

\* No request is twice in the batches of f.
Apart(f) ==
    \A d, e \in DOMAIN f : \A i \in 1..Len(f[d]), j \in 1..Len(f[e]) :
        f[d][i] = f[e][j] => d = e /\ i = j

\* Packets do not overlap: every head but the last is followed by its tail.
Paired(s) ==
    \A k \in 0..Len(s) :
        /\ 2 * k + 1 <= Len(s) => s[2 * k + 1][2] = "head"
        /\ 2 * k + 2 <= Len(s) => s[2 * k + 2] = <<s[2 * k + 1][1], "tail">>

TailsOnce(s) == \A i, j \in 1..Len(s) : s[i][2] = "tail" /\ s[i] = s[j] => i = j

\* The stream s ends in the middle of r.
EndsIn(s, r) == \E k \in 0..Len(s) : Len(s) = 2 * k + 1 /\ s[2 * k + 1][1] = r

Types ==
    /\ inputbuffer_ \in Seq(Piece) /\ c2s \in Seq(Piece)
    /\ pool \in Seq(Seq(Requests))
    /\ work \in [Workers -> [at : {"idle", "dispatch", "release"}, pkgs : Seq(Requests)]]
    /\ taskqueue_ \in Seq(Seq(Reply))
    /\ outputbuffer_ \in Seq(Reply) /\ s2c \in Seq(Reply) /\ received \in Seq(Reply)
    /\ Len(s2c) <= SndCap
    /\ executed \in [Requests -> Nat]
    /\ sent \in [Requests -> 0..2]

\* The stream is a sequence of packets, the last of which may be incomplete.
StreamInv ==
    /\ Paired(Stream)
    /\ TailsOnce(Stream)
    /\ client = "open" => \A r \in Requests : sent[r] = 1 <=> EndsIn(Stream, r)

\* In each place a request occurs once.
OnceInv == Apart(pool) /\ Apart(Held) /\ Apart(Asked(taskqueue_)) /\ Once(Who(Replies))

\* A worker has a batch only while it dispatches.
IdleInv == \A w \in Workers : work[w].at # "dispatch" => work[w].pkgs = <<>>

Disjoint(A, B) == A \cap B = {}

\* No request is in two places, nor in any before it was sent in full.
PlaceInv ==
    /\ Disjoint(Unsent, Tails(Stream)) /\ Disjoint(Unsent, Members(pool)) /\ Disjoint(Unsent, Members(Held))
    /\ Disjoint(Unsent, Members(Asked(taskqueue_))) /\ Disjoint(Unsent, Elements(Who(Replies)))
    /\ Disjoint(Tails(Stream), Members(pool)) /\ Disjoint(Tails(Stream), Members(Held))
    /\ Disjoint(Tails(Stream), Members(Asked(taskqueue_))) /\ Disjoint(Tails(Stream), Elements(Who(Replies)))
    /\ Disjoint(Members(pool), Members(Held)) /\ Disjoint(Members(pool), Members(Asked(taskqueue_)))
    /\ Disjoint(Members(pool), Elements(Who(Replies)))
    /\ Disjoint(Members(Held), Members(Asked(taskqueue_))) /\ Disjoint(Members(Held), Elements(Who(Replies)))
    /\ Disjoint(Members(Asked(taskqueue_)), Elements(Who(Replies)))

\* A method runs once, and not before its request is dispatched.
ExecInv ==
    \A r \in Requests :
        /\ executed[r] <= 1
        /\ r \in Unsent \cup Tails(Stream) \cup Members(pool) \cup Members(Held) => executed[r] = 0

\* The code of a reply tells whether the method ran.
Truthful(reply) ==
    executed[reply[1]] = IF \/ reply[2] = "serialize"
                            \/ reply[2] = "0" /\ Packet[reply[1]].msg_type_ = 0
                         THEN 1 ELSE 0

CodeInv == \A x \in Members(taskqueue_) \cup Elements(Replies) : Truthful(x)

\* The connection leaves conns_ only when it is closed, so that a connection
\* that is destroyed was closed.
HeldInv ==
    /\ mpc \in {"listen", "accept"} \/ conns_ \/ disConnect
    /\ lpc \in {"close", "erase"} => disConnect

\* While the connection is up every request is in some place.
LossInv ==
    ~disConnect /\ client # "rst" =>
        Requests \subseteq Unsent \cup Tails(Stream) \cup Members(pool) \cup Members(Held)
                            \cup Members(Asked(taskqueue_)) \cup Elements(Who(Replies))

IInv ==
    /\ Types /\ StreamInv /\ OnceInv /\ IdleInv /\ PlaceInv
    /\ ExecInv /\ CodeInv /\ HeldInv /\ LossInv

-----------------------------------------------------------------------------
(* Facts about sequences and batches *)

\* The elements of a sequence after Append.
LEMMA AppendElements ==
    ASSUME NEW S, NEW s \in Seq(S), NEW x \in S
    PROVE  /\ Append(s, x) \in Seq(S)
           /\ Len(Append(s, x)) = Len(s) + 1
           /\ Append(s, x)[Len(s) + 1] = x
           /\ \A i \in 1..Len(s) : Append(s, x)[i] = s[i]
OBVIOUS

\* The elements of a sequence after Tail.
LEMMA TailElements ==
    ASSUME NEW S, NEW s \in Seq(S), s # <<>>
    PROVE  /\ Head(s) \in S /\ Head(s) = s[1] /\ 1 \in 1..Len(s)
           /\ Tail(s) \in Seq(S)
           /\ Len(Tail(s)) = Len(s) - 1
           /\ \A i \in 1..Len(Tail(s)) : i + 1 \in 1..Len(s) /\ Tail(s)[i] = s[i + 1]
OBVIOUS

\* The elements of a concatenation.
LEMMA ConcatElements ==
    ASSUME NEW S, NEW s \in Seq(S), NEW t \in Seq(S)
    PROVE  /\ s \o t \in Seq(S)
           /\ Len(s \o t) = Len(s) + Len(t)
           /\ \A i \in 1..Len(s) : (s \o t)[i] = s[i]
           /\ \A i \in 1..Len(t) : (s \o t)[Len(s) + i] = t[i]
OBVIOUS

\* Half of a length, as decode computes it from the pieces in the buffer.
LEMMA Half ==
    ASSUME NEW n \in Nat
    PROVE  n \div 2 \in Nat /\ (n = 2 * (n \div 2) \/ n = 2 * (n \div 2) + 1)
OBVIOUS

\* Two sequences with the same elements are equal.
LEMMA SequencesEqual ==
    ASSUME NEW S, NEW s \in Seq(S), NEW t \in Seq(S), Len(s) = Len(t),
           \A i \in 1..Len(s) : s[i] = t[i]
    PROVE  s = t
OBVIOUS

\* A batch put at the end of a queue of batches.
LEMMA ApartAppend ==
    ASSUME NEW S, NEW f \in Seq(Seq(S)), NEW b \in Seq(S),
           Apart(f), Once(b), Disjoint(Members(f), Elements(b))
    PROVE  /\ Apart(Append(f, b))
           /\ Members(Append(f, b)) = Members(f) \cup Elements(b)
<1> DEFINE g == Append(f, b)
<1>1. /\ g \in Seq(Seq(S)) /\ Len(g) = Len(f) + 1 /\ g[Len(f) + 1] = b
      /\ \A i \in 1..Len(f) : g[i] = f[i]
  BY AppendElements
<1>2. DOMAIN g = 1..Len(f) \cup {Len(f) + 1} /\ DOMAIN f = 1..Len(f)
  BY <1>1
<1> HIDE DEF g
<1>3. Members(g) = Members(f) \cup Elements(b)
  BY <1>1, <1>2 DEF Members
<1>4. Apart(g)
  <2> SUFFICES ASSUME NEW d \in DOMAIN g, NEW e \in DOMAIN g,
                      NEW i \in 1..Len(g[d]), NEW j \in 1..Len(g[e]), g[d][i] = g[e][j]
               PROVE  d = e /\ i = j
    BY DEF Apart
  <2>1. g[d][i] \in Elements(g[d]) /\ g[e][j] \in Elements(g[e])
    BY DEF Elements
  <2>2. CASE d \in 1..Len(f) /\ e \in 1..Len(f)
    <3>1. d \in DOMAIN f /\ e \in DOMAIN f /\ g[d] = f[d] /\ g[e] = f[e]
      BY <1>1, <1>2, <2>2
    <3> QED BY <3>1 DEF Apart
  <2>3. CASE d \in 1..Len(f) /\ e = Len(f) + 1
    BY <1>1, <1>2, <2>1, <2>3 DEF Members, Disjoint
  <2>4. CASE d = Len(f) + 1 /\ e \in 1..Len(f)
    BY <1>1, <1>2, <2>1, <2>4 DEF Members, Disjoint
  <2>5. CASE d = Len(f) + 1 /\ e = Len(f) + 1
    BY <1>1, <2>5 DEF Once
  <2> QED BY <1>2, <2>2, <2>3, <2>4, <2>5
<1> QED BY <1>3, <1>4 DEF g

\* The first batch taken from a queue of batches.
LEMMA ApartTail ==
    ASSUME NEW S, NEW f \in Seq(Seq(S)), f # <<>>, Apart(f)
    PROVE  /\ Apart(Tail(f)) /\ Once(Head(f))
           /\ Members(f) = Members(Tail(f)) \cup Elements(Head(f))
           /\ Disjoint(Members(Tail(f)), Elements(Head(f)))
<1> DEFINE g == Tail(f)
<1>0. /\ Head(f) \in Seq(S) /\ Head(f) = f[1] /\ 1 \in 1..Len(f)
      /\ g \in Seq(Seq(S)) /\ Len(g) = Len(f) - 1
      /\ \A i \in 1..Len(g) : i + 1 \in 1..Len(f) /\ g[i] = f[i + 1]
  BY TailElements
<1> HIDE DEF g
<1>2. DOMAIN g \subseteq Nat \ {0} /\ DOMAIN f = 1..Len(f) /\ DOMAIN g = 1..Len(g) /\ Len(f) \in Nat
  <2>1. g \in Seq(Seq(S))
    BY <1>0
  <2>2. DOMAIN g = 1..Len(g) /\ Len(g) \in Nat
    BY <2>1
  <2>3. DOMAIN f = 1..Len(f) /\ Len(f) \in Nat
    OBVIOUS
  <2> QED BY <2>2, <2>3
<1>1. /\ Head(f) \in Seq(S) /\ Head(f) = f[1] /\ 1 \in DOMAIN f
      /\ g \in Seq(Seq(S)) /\ Len(g) = Len(f) - 1
      /\ \A i \in DOMAIN g : i + 1 \in DOMAIN f /\ g[i] = f[i + 1]
  BY <1>0, <1>2
<1>3. \A d \in DOMAIN f : d = 1 \/ (d - 1 \in DOMAIN g /\ g[d - 1] = f[d])
  <2> TAKE d \in DOMAIN f
  <2>1. d \in Nat /\ 1 <= d /\ d <= Len(f)
    BY <1>2
  <2>2. d # 1 => d - 1 \in DOMAIN g /\ (d - 1) + 1 = d
    <3>1. Len(g) = Len(f) - 1 /\ DOMAIN g = 1..Len(g) /\ Len(f) \in Nat
      BY <1>1, <1>2
    <3> QED BY <2>1, <3>1
  <2>3. d # 1 => g[d - 1] = f[(d - 1) + 1]
    BY <1>1, <2>2
  <2> QED BY <2>2, <2>3
<1>4. Once(Head(f))
  <2>1. 1 \in DOMAIN f
    BY <1>1
  <2>2. \A i, j \in 1..Len(f[1]) : f[1][i] = f[1][j] => 1 = 1 /\ i = j
    BY <2>1, Zenon DEF Apart
  <2>3. Head(f) = f[1]
    BY <1>1
  <2> QED BY <2>2, <2>3 DEF Once
<1>5. Members(f) = Members(g) \cup Elements(Head(f))
  <2>1. ASSUME NEW x \in Members(f) PROVE x \in Members(g) \cup Elements(Head(f))
    <3>1. PICK d \in DOMAIN f : x \in Elements(f[d])
      BY <2>1 DEF Members
    <3>2. CASE d = 1
      BY <1>1, <3>1, <3>2
    <3>3. CASE d # 1
      <4>1. d - 1 \in DOMAIN g /\ x \in Elements(g[d - 1])
        BY <1>3, <3>1, <3>3
      <4> QED BY <4>1 DEF Members
    <3> QED BY <3>2, <3>3
  <2>2. Members(g) \subseteq Members(f)
    BY <1>1 DEF Members
  <2>3. Elements(Head(f)) \subseteq Members(f)
    BY <1>1 DEF Members
  <2> QED BY <2>1, <2>2, <2>3
<1>6. Apart(g)
  <2> SUFFICES ASSUME NEW d \in DOMAIN g, NEW e \in DOMAIN g,
                      NEW i \in 1..Len(g[d]), NEW j \in 1..Len(g[e]), g[d][i] = g[e][j]
               PROVE  d = e /\ i = j
    BY DEF Apart
  <2>1. d + 1 \in DOMAIN f /\ e + 1 \in DOMAIN f /\ g[d] = f[d + 1] /\ g[e] = f[e + 1]
    BY <1>1
  <2>2. d + 1 = e + 1 /\ i = j
    BY <2>1 DEF Apart
  <2> QED BY <1>2, <2>2
<1>7. Disjoint(Members(g), Elements(Head(f)))
  <2> SUFFICES ASSUME NEW d \in DOMAIN g, NEW x \in Elements(g[d]), x \in Elements(f[1]) PROVE FALSE
    BY <1>1 DEF Members, Disjoint
  <2>1. PICK i \in 1..Len(g[d]), j \in 1..Len(f[1]) : x = g[d][i] /\ x = f[1][j]
    BY DEF Elements
  <2>2. d + 1 \in DOMAIN f /\ g[d] = f[d + 1]
    BY <1>1
  <2>3. f[d + 1][i] = f[1][j] /\ i \in 1..Len(f[d + 1])
    BY <2>1, <2>2
  <2>4. d + 1 = 1
    BY <1>1, <2>1, <2>2, <2>3 DEF Apart
  <2> QED BY <1>2, <2>4
<1> QED BY <1>4, <1>5, <1>6, <1>7 DEF g

\* A batch put at a worker that had none.
LEMMA ApartPut ==
    ASSUME NEW f \in [Workers -> Seq(Requests)], NEW w \in Workers, NEW b \in Seq(Requests), f[w] = <<>>,
           Apart(f), Once(b), Disjoint(Members(f), Elements(b))
    PROVE  /\ Apart([f EXCEPT ![w] = b])
           /\ Members([f EXCEPT ![w] = b]) = Members(f) \cup Elements(b)
<1> DEFINE g == [f EXCEPT ![w] = b]
<1>1. DOMAIN g = Workers /\ DOMAIN f = Workers /\ g[w] = b /\ \A v \in Workers \ {w} : g[v] = f[v]
  OBVIOUS
<1>2. Elements(f[w]) = {}
  BY DEF Elements
<1> HIDE DEF g
<1>3. Members(g) = Members(f) \cup Elements(b)
  BY <1>1, <1>2 DEF Members
<1>4. Apart(g)
  <2> SUFFICES ASSUME NEW d \in Workers, NEW e \in Workers,
                      NEW i \in 1..Len(g[d]), NEW j \in 1..Len(g[e]), g[d][i] = g[e][j]
               PROVE  d = e /\ i = j
    BY <1>1 DEF Apart
  <2>1. g[d][i] \in Elements(g[d]) /\ g[e][j] \in Elements(g[e])
    BY DEF Elements
  <2>2. CASE d # w /\ e # w
    BY <1>1, <2>2 DEF Apart
  <2>3. CASE d # w /\ e = w
    BY <1>1, <2>1, <2>3 DEF Members, Disjoint
  <2>4. CASE d = w /\ e # w
    BY <1>1, <2>1, <2>4 DEF Members, Disjoint
  <2>5. CASE d = w /\ e = w
    BY <1>1, <2>5 DEF Once
  <2> QED BY <2>2, <2>3, <2>4, <2>5
<1> QED BY <1>3, <1>4 DEF g

\* A worker gives its batch up.
LEMMA ApartClear ==
    ASSUME NEW f \in [Workers -> Seq(Requests)], NEW w \in Workers, Apart(f)
    PROVE  /\ Apart([f EXCEPT ![w] = <<>>]) /\ Once(f[w])
           /\ Members(f) = Members([f EXCEPT ![w] = <<>>]) \cup Elements(f[w])
           /\ Disjoint(Members([f EXCEPT ![w] = <<>>]), Elements(f[w]))
<1> DEFINE g == [f EXCEPT ![w] = <<>>]
<1>1. DOMAIN g = Workers /\ DOMAIN f = Workers /\ g[w] = <<>> /\ \A v \in Workers \ {w} : g[v] = f[v]
  OBVIOUS
<1>2. Elements(g[w]) = {} /\ 1..Len(g[w]) = {}
  BY <1>1 DEF Elements
<1> HIDE DEF g
<1>3. Members(f) = Members(g) \cup Elements(f[w])
  BY <1>1, <1>2 DEF Members
<1>4. Once(f[w])
  BY <1>1 DEF Apart, Once
<1>5. Apart(g)
  <2> SUFFICES ASSUME NEW d \in Workers, NEW e \in Workers,
                      NEW i \in 1..Len(g[d]), NEW j \in 1..Len(g[e]), g[d][i] = g[e][j]
               PROVE  d = e /\ i = j
    BY <1>1 DEF Apart
  <2>1. d # w /\ e # w
    BY <1>2
  <2>2. g[d] = f[d] /\ g[e] = f[e]
    BY <1>1, <2>1
  <2> QED BY <1>1, <2>2 DEF Apart
<1>6. Disjoint(Members(g), Elements(f[w]))
  <2> SUFFICES ASSUME NEW d \in Workers, NEW x \in Elements(g[d]), x \in Elements(f[w]) PROVE FALSE
    BY <1>1 DEF Members, Disjoint
  <2>1. d # w
    BY <1>2
  <2>2. PICK i \in 1..Len(g[d]), j \in 1..Len(f[w]) : x = g[d][i] /\ x = f[w][j]
    BY DEF Elements
  <2>3. f[d][i] = f[w][j] /\ i \in 1..Len(f[d])
    BY <1>1, <2>1, <2>2
  <2> QED BY <1>1, <2>1, <2>2, <2>3 DEF Apart
<1> QED BY <1>3, <1>4, <1>5, <1>6 DEF g

-----------------------------------------------------------------------------
(* The stream of pieces *)

\* Where a head and where a tail is in a stream.
LEMMA PairedAt ==
    ASSUME NEW s \in Seq(Piece), Paired(s), NEW k \in Nat
    PROVE  /\ 2 * k + 1 <= Len(s) => s[2 * k + 1][2] = "head"
           /\ 2 * k + 2 <= Len(s) => s[2 * k + 2] = <<s[2 * k + 1][1], "tail">>
<1>1. 2 * k + 1 <= Len(s) => k \in 0..Len(s)
  OBVIOUS
<1>2. 2 * k + 2 <= Len(s) => k \in 0..Len(s)
  OBVIOUS
<1> QED BY <1>1, <1>2 DEF Paired

\* A stream that is cut off.
LEMMA PairedPrefix ==
    ASSUME NEW s \in Seq(Piece), NEW t \in Seq(Piece), Len(t) <= Len(s),
           \A i \in 1..Len(t) : t[i] = s[i], Paired(s), TailsOnce(s)
    PROVE  Paired(t) /\ TailsOnce(t) /\ Tails(t) \subseteq Tails(s)
<1>0. Len(s) \in Nat /\ Len(t) \in Nat /\ 1..Len(t) \subseteq 1..Len(s)
  OBVIOUS
<1>1. Paired(t)
  <2> SUFFICES ASSUME NEW k \in 0..Len(t)
               PROVE  /\ 2 * k + 1 <= Len(t) => t[2 * k + 1][2] = "head"
                      /\ 2 * k + 2 <= Len(t) => t[2 * k + 2] = <<t[2 * k + 1][1], "tail">>
    BY DEF Paired
  <2>1. k \in Nat /\ (2 * k + 2 <= Len(t) => 2 * k + 1 <= Len(t))
    BY <1>0
  <2>2. 2 * k + 1 <= Len(t) => t[2 * k + 1] = s[2 * k + 1] /\ 2 * k + 1 <= Len(s)
    BY <1>0, <2>1
  <2>3. 2 * k + 2 <= Len(t) => t[2 * k + 2] = s[2 * k + 2] /\ 2 * k + 2 <= Len(s)
    BY <1>0, <2>1
  <2> QED BY <2>1, <2>2, <2>3, PairedAt
<1>2. TailsOnce(t)
  BY <1>0 DEF TailsOnce
<1>3. Tails(t) \subseteq Tails(s)
  BY <1>0 DEF Tails
<1> QED BY <1>1, <1>2, <1>3

\* The first pieces of the stream s are the packets of the batch b, and t is the
\* rest of it.
Decodes(s, b, t) ==
    /\ 2 * Len(b) <= Len(s) /\ Len(t) = Len(s) - 2 * Len(b)
    /\ \A i \in 1..Len(t) : t[i] = s[2 * Len(b) + i]
    /\ \A i \in 1..Len(b) : b[i] = s[2 * i - 1][1]

\* What decode does to the stream: packets become a batch, each once, and the
\* rest is a stream again.
LEMMA PairedDrop ==
    ASSUME NEW s \in Seq(Piece), NEW b \in Seq(Requests), NEW t \in Seq(Piece),
           Decodes(s, b, t), Paired(s), TailsOnce(s)
    PROVE  /\ Paired(t) /\ TailsOnce(t) /\ Once(b)
           /\ Tails(s) = Tails(t) \cup Elements(b)
           /\ Disjoint(Tails(t), Elements(b))
           /\ \A r \in Requests : EndsIn(t, r) <=> EndsIn(s, r)
<1> DEFINE n == Len(b)
<1>d. /\ 2 * n <= Len(s) /\ Len(t) = Len(s) - 2 * n
      /\ \A i \in 1..Len(t) : t[i] = s[2 * n + i]
      /\ \A i \in 1..n : b[i] = s[2 * i - 1][1]
  BY DEF Decodes
<1>n. n \in Nat /\ n = Len(b)
  OBVIOUS
<1> HIDE DEF n
<1>0. Len(s) \in Nat /\ Len(t) \in Nat
  OBVIOUS
<1> USE <1>d, <1>n
<1>1. \A i \in 1..n : 2 * i \in 1..Len(s) /\ s[2 * i] = <<b[i], "tail">>
  <2> TAKE i \in 1..n
  <2>1. i - 1 \in Nat /\ 2 * (i - 1) + 2 = 2 * i /\ 2 * (i - 1) + 1 = 2 * i - 1 /\ 2 * i <= Len(s)
    BY <1>0
  <2>2. s[2 * (i - 1) + 2] = <<s[2 * (i - 1) + 1][1], "tail">>
    BY <2>1, PairedAt
  <2>3. 2 * i \in 1..Len(s)
    BY <1>0, <2>1
  <2> QED BY <2>1, <2>2, <2>3
<1>2. \A i \in 1..Len(t) : 2 * n + i \in 1..Len(s)
  BY <1>0
<1>3. Paired(t)
  <2> SUFFICES ASSUME NEW k \in 0..Len(t)
               PROVE  /\ 2 * k + 1 <= Len(t) => t[2 * k + 1][2] = "head"
                      /\ 2 * k + 2 <= Len(t) => t[2 * k + 2] = <<t[2 * k + 1][1], "tail">>
    BY DEF Paired
  <2>1. /\ k + n \in Nat /\ 2 * (k + n) + 1 = 2 * n + (2 * k + 1) /\ 2 * (k + n) + 2 = 2 * n + (2 * k + 2)
        /\ 2 * k + 2 <= Len(t) => 2 * k + 1 <= Len(t)
    BY <1>0
  <2>2. 2 * k + 1 <= Len(t) => t[2 * k + 1] = s[2 * (k + n) + 1] /\ 2 * (k + n) + 1 <= Len(s)
    BY <1>0, <2>1
  <2>3. 2 * k + 2 <= Len(t) => t[2 * k + 2] = s[2 * (k + n) + 2] /\ 2 * (k + n) + 2 <= Len(s)
    BY <1>0, <2>1
  <2>4. /\ 2 * (k + n) + 1 <= Len(s) => s[2 * (k + n) + 1][2] = "head"
        /\ 2 * (k + n) + 2 <= Len(s) => s[2 * (k + n) + 2] = <<s[2 * (k + n) + 1][1], "tail">>
    BY <2>1, PairedAt
  <2>5. 2 * k + 1 <= Len(t) => t[2 * k + 1][2] = "head"
    BY <2>2, <2>4
  <2>6. 2 * k + 2 <= Len(t) => t[2 * k + 2] = <<t[2 * k + 1][1], "tail">>
    BY <2>1, <2>2, <2>3, <2>4
  <2> QED BY <2>5, <2>6
<1>4. TailsOnce(t)
  <2> SUFFICES ASSUME NEW i \in 1..Len(t), NEW j \in 1..Len(t), t[i][2] = "tail", t[i] = t[j]
               PROVE  i = j
    BY DEF TailsOnce
  <2> DEFINE p == 2 * n + i
             q == 2 * n + j
  <2>1. p \in 1..Len(s) /\ t[i] = s[p] /\ q \in 1..Len(s) /\ t[j] = s[q]
    BY <1>2
  <2> HIDE DEF p, q
  <2>2. s[p][2] = "tail" /\ s[p] = s[q]
    BY <2>1
  <2>3. p = q
    BY <2>1, <2>2, Zenon DEF TailsOnce
  <2> QED BY <2>3 DEF p, q
<1>5. Once(b)
  <2> SUFFICES ASSUME NEW i \in 1..n, NEW j \in 1..n, b[i] = b[j] PROVE i = j
    BY DEF Once
  <2>0. /\ 2 * i \in 1..Len(s) /\ s[2 * i] = <<b[i], "tail">>
        /\ 2 * j \in 1..Len(s) /\ s[2 * j] = <<b[j], "tail">>
    BY <1>1
  <2>1. s[2 * i] = s[2 * j] /\ s[2 * i][2] = "tail" /\ 2 * i \in 1..Len(s) /\ 2 * j \in 1..Len(s)
    BY <2>0
  <2>2. 2 * i = 2 * j
    BY <2>1, Zenon DEF TailsOnce
  <2> QED BY <2>2
<1>6. ASSUME NEW r \in Requests, NEW j \in 1..Len(s), s[j] = <<r, "tail">>
      PROVE  (j <= 2 * n /\ r \in Elements(b)) \/ (j > 2 * n /\ r \in Tails(t))
  <2>1. CASE j > 2 * n
    <3>1. j - 2 * n \in 1..Len(t) /\ 2 * n + (j - 2 * n) = j
      BY <1>0, <2>1
    <3>2. t[j - 2 * n] = <<r, "tail">>
      BY <1>6, <3>1
    <3> QED BY <2>1, <3>1, <3>2 DEF Tails
  <2>2. CASE j <= 2 * n
    <3>1. j \in Nat /\ j \div 2 \in Nat /\ (j = 2 * (j \div 2) \/ j = 2 * (j \div 2) + 1)
      BY Half
    <3>2. j # 2 * (j \div 2) + 1
      <4> SUFFICES ASSUME j = 2 * (j \div 2) + 1 PROVE FALSE
        OBVIOUS
      <4> DEFINE h == j \div 2
      <4>1. h \in Nat /\ 2 * h + 1 <= Len(s) /\ j = 2 * h + 1
        BY <3>1
      <4> HIDE DEF h
      <4>2. s[j][2] = "head"
        BY <4>1, PairedAt
      <4> QED BY <1>6, <4>2
    <3> DEFINE h == j \div 2
    <3>3. h \in 1..n /\ j = 2 * h
      BY <2>2, <3>1, <3>2
    <3> HIDE DEF h
    <3>4. r = b[h]
      BY <1>1, <1>6, <3>3
    <3> QED BY <2>2, <3>3, <3>4 DEF Elements
  <2> QED BY <1>0, <2>1, <2>2
<1>7. Tails(s) = Tails(t) \cup Elements(b)
  <2>1. Tails(s) \subseteq Tails(t) \cup Elements(b)
    BY <1>6 DEF Tails
  <2>2. Tails(t) \subseteq Tails(s)
    <3> SUFFICES ASSUME NEW r \in Requests, NEW i \in 1..Len(t), t[i] = <<r, "tail">> PROVE r \in Tails(s)
      BY DEF Tails
    <3>1. 2 * n + i \in 1..Len(s) /\ s[2 * n + i] = <<r, "tail">>
      BY <1>2
    <3> QED BY <3>1 DEF Tails
  <2>3. Elements(b) \subseteq Tails(s)
    <3> SUFFICES ASSUME NEW i \in 1..n PROVE b[i] \in Tails(s)
      BY DEF Elements
    <3>1. 2 * i \in 1..Len(s) /\ s[2 * i] = <<b[i], "tail">> /\ b[i] \in Requests
      BY <1>1
    <3> QED BY <3>1 DEF Tails
  <2> QED BY <2>1, <2>2, <2>3
<1>8. Disjoint(Tails(t), Elements(b))
  <2> SUFFICES ASSUME NEW r \in Tails(t), r \in Elements(b) PROVE FALSE
    BY DEF Disjoint
  <2>1. PICK i \in 1..Len(t) : t[i] = <<r, "tail">>
    BY DEF Tails
  <2>2. PICK j \in 1..n : r = b[j]
    BY DEF Elements
  <2>3. /\ s[2 * n + i] = s[2 * j] /\ s[2 * j][2] = "tail"
        /\ 2 * n + i \in 1..Len(s) /\ 2 * j \in 1..Len(s)
    <3>1. 2 * j \in 1..Len(s) /\ s[2 * j] = <<b[j], "tail">>
      BY <1>1
    <3>2. 2 * n + i \in 1..Len(s) /\ s[2 * n + i] = t[i]
      BY <1>2
    <3> QED BY <2>1, <2>2, <3>1, <3>2
  <2>4. 2 * n + i = 2 * j
    BY <2>3 DEF TailsOnce
  <2> QED BY <1>0, <2>4
<1>9. \A r \in Requests : EndsIn(t, r) <=> EndsIn(s, r)
  <2> TAKE r \in Requests
  <2>1. ASSUME NEW k \in 0..Len(t), Len(t) = 2 * k + 1, t[2 * k + 1][1] = r PROVE EndsIn(s, r)
    <3>0. Len(s) = Len(t) + 2 * n /\ k \in Nat
      BY <1>0
    <3>1. k + n \in 0..Len(s) /\ Len(s) = 2 * (k + n) + 1 /\ 2 * n + (2 * k + 1) = 2 * (k + n) + 1
      BY <1>0, <2>1, <3>0
    <3>2. t[2 * k + 1] = s[2 * n + (2 * k + 1)]
      BY <1>0, <2>1
    <3> QED BY <2>1, <3>1, <3>2 DEF EndsIn
  <2>2. ASSUME NEW k \in 0..Len(s), Len(s) = 2 * k + 1, s[2 * k + 1][1] = r PROVE EndsIn(t, r)
    <3>1. k - n \in 0..Len(t) /\ Len(t) = 2 * (k - n) + 1 /\ 2 * n + (2 * (k - n) + 1) = 2 * k + 1
      BY <1>0, <2>2
    <3>2. t[2 * (k - n) + 1] = s[2 * n + (2 * (k - n) + 1)]
      BY <1>0, <3>1
    <3> QED BY <2>2, <3>1, <3>2 DEF EndsIn
  <2> QED BY <2>1, <2>2 DEF EndsIn
<1> QED BY <1>3, <1>4, <1>5, <1>7, <1>8, <1>9

\* The client begins a packet: no other one is incomplete.
LEMMA SendHead ==
    ASSUME NEW s \in Seq(Piece), NEW r \in Requests, Paired(s), TailsOnce(s),
           \A q \in Requests : ~EndsIn(s, q)
    PROVE  LET t == Append(s, <<r, "head">>)
           IN  /\ Paired(t) /\ TailsOnce(t) /\ Tails(t) = Tails(s)
               /\ \A q \in Requests : EndsIn(t, q) <=> q = r
<1> DEFINE t == Append(s, <<r, "head">>)
           n == Len(s) \div 2
<1>1. /\ t \in Seq(Piece) /\ Len(t) = Len(s) + 1 /\ t[Len(s) + 1] = <<r, "head">>
      /\ \A i \in 1..Len(s) : t[i] = s[i]
  BY AppendElements DEF Piece
<1>2. Len(s) \in Nat /\ n \in Nat /\ (Len(s) = 2 * n \/ Len(s) = 2 * n + 1)
  BY Half
<1> HIDE DEF t, n
<1>3. Len(s) = 2 * n
  <2> SUFFICES ASSUME Len(s) = 2 * n + 1 PROVE FALSE
    BY <1>2
  <2>1. n \in 0..Len(s) /\ s[2 * n + 1][1] \in Requests
    BY <1>2 DEF Piece
  <2> QED BY <2>1 DEF EndsIn
<1>4. Paired(t)
  <2> SUFFICES ASSUME NEW k \in 0..Len(t)
               PROVE  /\ 2 * k + 1 <= Len(t) => t[2 * k + 1][2] = "head"
                      /\ 2 * k + 2 <= Len(t) => t[2 * k + 2] = <<t[2 * k + 1][1], "tail">>
    BY DEF Paired
  <2>1. CASE k < n
    <3>1. k \in Nat /\ 2 * k + 2 <= Len(s) /\ 2 * k + 1 \in 1..Len(s) /\ 2 * k + 2 \in 1..Len(s)
      BY <1>2, <1>3, <2>1
    <3>2. s[2 * k + 1][2] = "head" /\ s[2 * k + 2] = <<s[2 * k + 1][1], "tail">>
      BY <1>2, <3>1, PairedAt
    <3> QED BY <1>1, <3>1, <3>2
  <2>2. CASE k = n
    <3>1. ~(2 * k + 2 <= Len(t)) /\ 2 * k + 1 = Len(s) + 1
      BY <1>1, <1>2, <1>3, <2>2
    <3> QED BY <1>1, <3>1
  <2>3. CASE k > n
    BY <1>1, <1>2, <1>3, <2>3
  <2> QED BY <1>2, <2>1, <2>2, <2>3
<1>5. \A i \in 1..Len(t) : i \in 1..Len(s) \/ i = Len(s) + 1
  BY <1>1, <1>2
<1>6. TailsOnce(t)
  BY <1>1, <1>5 DEF TailsOnce
<1>7. Tails(t) = Tails(s)
  <2>1. 1..Len(s) \subseteq 1..Len(t)
    BY <1>1, <1>2
  <2> QED BY <1>1, <1>5, <2>1 DEF Tails
<1>8. \A q \in Requests : EndsIn(t, q) <=> q = r
  <2>1. n \in 0..Len(t) /\ Len(t) = 2 * n + 1 /\ t[2 * n + 1][1] = r
    BY <1>1, <1>2, <1>3
  <2>2. \A k \in 0..Len(t) : Len(t) = 2 * k + 1 => k = n
    BY <1>2, <2>1
  <2> QED BY <2>1, <2>2 DEF EndsIn
<1> QED BY <1>4, <1>6, <1>7, <1>8 DEF t

\* The client ends the packet it has begun.
LEMMA SendTail ==
    ASSUME NEW s \in Seq(Piece), NEW r \in Requests, Paired(s), TailsOnce(s),
           EndsIn(s, r), r \notin Tails(s)
    PROVE  LET t == Append(s, <<r, "tail">>)
           IN  /\ Paired(t) /\ TailsOnce(t) /\ Tails(t) = Tails(s) \cup {r}
               /\ \A q \in Requests : ~EndsIn(t, q)
<1> DEFINE t == Append(s, <<r, "tail">>)
<1>1. /\ t \in Seq(Piece) /\ Len(t) = Len(s) + 1 /\ t[Len(s) + 1] = <<r, "tail">>
      /\ \A i \in 1..Len(s) : t[i] = s[i]
  BY AppendElements DEF Piece
<1> HIDE DEF t
<1>2. PICK n \in 0..Len(s) : Len(s) = 2 * n + 1 /\ s[2 * n + 1][1] = r
  BY DEF EndsIn
<1>3. Len(s) \in Nat /\ n \in Nat
  OBVIOUS
<1>4. Paired(t)
  <2> SUFFICES ASSUME NEW k \in 0..Len(t)
               PROVE  /\ 2 * k + 1 <= Len(t) => t[2 * k + 1][2] = "head"
                      /\ 2 * k + 2 <= Len(t) => t[2 * k + 2] = <<t[2 * k + 1][1], "tail">>
    BY DEF Paired
  <2>1. CASE k < n
    <3>1. k \in Nat /\ 2 * k + 2 <= Len(s) /\ 2 * k + 1 \in 1..Len(s) /\ 2 * k + 2 \in 1..Len(s)
      BY <1>2, <1>3, <2>1
    <3>2. s[2 * k + 1][2] = "head" /\ s[2 * k + 2] = <<s[2 * k + 1][1], "tail">>
      BY <1>3, <3>1, PairedAt
    <3> QED BY <1>1, <3>1, <3>2
  <2>2. CASE k = n
    <3>1. 2 * k + 1 \in 1..Len(s) /\ 2 * k + 1 <= Len(s) /\ 2 * k + 2 = Len(s) + 1
      BY <1>2, <1>3, <2>2
    <3>2. s[2 * k + 1][2] = "head"
      BY <1>3, <2>2, <3>1, PairedAt
    <3> QED BY <1>1, <1>2, <2>2, <3>1, <3>2
  <2>3. CASE k > n
    BY <1>1, <1>2, <1>3, <2>3
  <2> QED BY <1>3, <2>1, <2>2, <2>3
<1>5. \A i \in 1..Len(t) : i \in 1..Len(s) \/ i = Len(s) + 1
  BY <1>1, <1>3
<1>6. \A i \in 1..Len(s) : s[i] # <<r, "tail">>
  BY DEF Tails
<1>7. TailsOnce(t)
  <2> SUFFICES ASSUME NEW i \in 1..Len(t), NEW j \in 1..Len(t), t[i][2] = "tail", t[i] = t[j]
               PROVE  i = j
    BY DEF TailsOnce
  <2>1. CASE i \in 1..Len(s) /\ j \in 1..Len(s)
    BY <1>1, <2>1 DEF TailsOnce
  <2>2. CASE i = Len(s) + 1 \/ j = Len(s) + 1
    BY <1>1, <1>5, <1>6, <2>2
  <2> QED BY <1>5, <2>1, <2>2
<1>8. Tails(t) = Tails(s) \cup {r}
  <2>1. 1..Len(s) \subseteq 1..Len(t) /\ Len(s) + 1 \in 1..Len(t)
    BY <1>1, <1>3
  <2> QED BY <1>1, <1>5, <2>1 DEF Tails
<1>9. \A q \in Requests : ~EndsIn(t, q)
  <2>1. \A k \in 0..Len(t) : Len(t) # 2 * k + 1
    BY <1>1, <1>2, <1>3
  <2> QED BY <2>1 DEF EndsIn
<1> QED BY <1>4, <1>7, <1>8, <1>9 DEF t

-----------------------------------------------------------------------------
(* Replies *)

\* Replies joined, split and moved on keep their order.
LEMMA ConcatAssociates ==
    ASSUME NEW S, NEW a \in Seq(S), NEW b \in Seq(S), NEW c \in Seq(S)
    PROVE  (a \o b) \o c = a \o (b \o c)
<1> DEFINE s == (a \o b) \o c
           t == a \o (b \o c)
<1>1. s \in Seq(S) /\ t \in Seq(S) /\ Len(s) = Len(t)
  BY ConcatElements
<1>2. \A i \in 1..Len(s) : s[i] = t[i]
  OBVIOUS
<1> HIDE DEF s, t
<1>3. s = t
  BY <1>1, <1>2, SequencesEqual
<1> QED BY <1>3 DEF s, t

\* The same for replies.
LEMMA RepliesAssociate == \A a, b, c \in Seq(Reply) : (a \o b) \o c = a \o (b \o c)
BY ConcatAssociates

\* A sequence is its beginning and the rest.
LEMMA SplitJoins ==
    ASSUME NEW S, NEW s \in Seq(S), NEW n \in 0..Len(s)
    PROVE  /\ SubSeq(s, 1, n) \in Seq(S) /\ SubSeq(s, n + 1, Len(s)) \in Seq(S)
           /\ Len(SubSeq(s, 1, n)) = n /\ Len(SubSeq(s, n + 1, Len(s))) = Len(s) - n
           /\ \A i \in 1..n : SubSeq(s, 1, n)[i] = s[i]
           /\ \A i \in 1..Len(s) - n : SubSeq(s, n + 1, Len(s))[i] = s[n + i]
           /\ SubSeq(s, 1, n) \o SubSeq(s, n + 1, Len(s)) = s
<1> DEFINE p == SubSeq(s, 1, n)
           q == SubSeq(s, n + 1, Len(s))
<1>1. /\ p \in Seq(S) /\ q \in Seq(S) /\ Len(p) = n /\ Len(q) = Len(s) - n
      /\ \A i \in 1..n : p[i] = s[i]
      /\ \A i \in 1..Len(s) - n : q[i] = s[n + i]
  OBVIOUS
<1> HIDE DEF p, q
<1> DEFINE c == p \o q
<1>2. /\ c \in Seq(S) /\ Len(c) = Len(s)
      /\ \A i \in 1..Len(p) : c[i] = p[i]
      /\ \A i \in 1..Len(q) : c[Len(p) + i] = q[i]
  <2>1. Len(p) + Len(q) = Len(s)
    BY <1>1
  <2> QED BY <1>1, <2>1, ConcatElements
<1> HIDE DEF c
<1>3. ASSUME NEW i \in 1..Len(s) PROVE c[i] = s[i]
  <2>1. CASE i <= n
    BY <1>1, <1>2, <2>1
  <2>2. CASE i > n
    <3>1. i - n \in 1..Len(q) /\ n + (i - n) = i
      BY <1>1, <2>2
    <3>2. c[n + (i - n)] = q[i - n] /\ q[i - n] = s[n + (i - n)]
      BY <1>1, <1>2, <3>1
    <3> QED BY <3>1, <3>2
  <2>3. i \in Nat /\ n \in Nat
    OBVIOUS
  <2> QED BY <2>1, <2>2, <2>3
<1>4. c = s
  BY <1>2, <1>3, SequencesEqual
<1> QED BY <1>1, <1>4 DEF p, q, c

\* The first element of t moves to the end of s.
LEMMA HeadMoves ==
    ASSUME NEW S, NEW s \in Seq(S), NEW t \in Seq(S), t # <<>>
    PROVE  Append(s, Head(t)) \o Tail(t) = s \o t
<1>1. /\ Head(t) \in S /\ Head(t) = t[1] /\ 1 \in 1..Len(t)
      /\ Tail(t) \in Seq(S) /\ Len(Tail(t)) = Len(t) - 1
      /\ \A i \in 1..Len(Tail(t)) : i + 1 \in 1..Len(t) /\ Tail(t)[i] = t[i + 1]
  BY TailElements
<1> DEFINE a == Append(s, Head(t))
           u == Tail(t)
<1>2. /\ a \in Seq(S) /\ Len(a) = Len(s) + 1 /\ a[Len(s) + 1] = t[1]
      /\ \A i \in 1..Len(s) : a[i] = s[i]
  BY <1>1, AppendElements
<1>3. /\ u \in Seq(S) /\ Len(u) = Len(t) - 1
      /\ \A i \in 1..Len(u) : i + 1 \in 1..Len(t) /\ u[i] = t[i + 1]
  BY <1>1
<1> HIDE DEF a, u
<1>4. /\ a \o u \in Seq(S) /\ s \o t \in Seq(S)
      /\ Len(a \o u) = Len(s) + Len(t) /\ Len(s \o t) = Len(s) + Len(t)
      /\ Len(s) \in Nat /\ Len(t) \in Nat
  <2>1. Len(s) \in Nat /\ Len(t) \in Nat
    OBVIOUS
  <2>2. a \o u \in Seq(S) /\ Len(a \o u) = Len(a) + Len(u)
    BY <1>2, <1>3, ConcatElements
  <2>3. s \o t \in Seq(S) /\ Len(s \o t) = Len(s) + Len(t)
    BY ConcatElements
  <2>4. Len(a) + Len(u) = Len(s) + Len(t)
    BY <1>2, <1>3, <2>1
  <2> QED BY <2>1, <2>2, <2>3, <2>4
<1>5. ASSUME NEW i \in 1..Len(s) + Len(t) PROVE (a \o u)[i] = (s \o t)[i]
  <2>1. CASE i <= Len(s)
    <3>1. i \in 1..Len(a) /\ i \in 1..Len(s)
      BY <1>2, <1>4, <2>1
    <3> QED BY <1>2, <1>3, <3>1, ConcatElements
  <2>2. CASE i = Len(s) + 1
    <3>1. i \in 1..Len(a) /\ 1 \in 1..Len(t)
      BY <1>1, <1>2, <1>4, <2>2
    <3>2. (a \o u)[i] = a[i]
      BY <1>2, <1>3, <3>1, ConcatElements
    <3>3. (s \o t)[Len(s) + 1] = t[1]
      BY <3>1, ConcatElements
    <3> QED BY <1>2, <2>2, <3>2, <3>3
  <2>3. CASE i > Len(s) + 1
    <3> DEFINE k == i - (Len(s) + 1)
    <3>1. k \in 1..Len(u) /\ Len(a) + k = i /\ Len(s) + (k + 1) = i /\ k + 1 \in 1..Len(t)
      BY <1>2, <1>3, <1>4, <2>3
    <3> HIDE DEF k
    <3>2. (a \o u)[Len(a) + k] = u[k]
      BY <1>2, <1>3, <3>1, ConcatElements
    <3>3. (s \o t)[Len(s) + (k + 1)] = t[k + 1]
      BY <3>1, ConcatElements
    <3> QED BY <1>3, <3>1, <3>2, <3>3
  <2> QED BY <1>4, <2>1, <2>2, <2>3
<1>6. a \o u = s \o t
  BY <1>4, <1>5, SequencesEqual
<1> QED BY <1>6 DEF a, u

\* The requests that replies answer.
LEMMA WhoElements ==
    ASSUME NEW s \in Seq(Reply)
    PROVE  /\ Who(s) \in Seq(Requests) /\ Len(Who(s)) = Len(s)
           /\ \A i \in 1..Len(s) : Who(s)[i] = s[i][1] /\ s[i][1] \in Requests
           /\ Elements(Who(s)) \subseteq Requests
<1>1. \A i \in 1..Len(s) : s[i][1] \in Requests
  BY DEF Reply
<1>2. Who(s) \in Seq(Requests) /\ Len(Who(s)) = Len(s)
  BY <1>1 DEF Who
<1>3. \A i \in 1..Len(s) : Who(s)[i] = s[i][1]
  BY DEF Who
<1>4. Elements(Who(s)) \subseteq Requests
  BY <1>1, <1>2, <1>3 DEF Elements
<1> QED BY <1>1, <1>2, <1>3, <1>4

\* Replies to other requests are put behind those that are there.
LEMMA OnceConcat ==
    ASSUME NEW s \in Seq(Reply), NEW t \in Seq(Reply), Once(Who(s)), Once(Who(t)),
           Disjoint(Elements(Who(s)), Elements(Who(t)))
    PROVE  /\ Once(Who(s \o t))
           /\ Elements(Who(s \o t)) = Elements(Who(s)) \cup Elements(Who(t))
<1> DEFINE u == s \o t
<1>1. /\ u \in Seq(Reply) /\ Len(u) = Len(s) + Len(t) /\ Len(s) \in Nat /\ Len(t) \in Nat
      /\ \A i \in 1..Len(s) : u[i] = s[i]
      /\ \A i \in 1..Len(t) : u[Len(s) + i] = t[i]
  BY ConcatElements
<1> HIDE DEF u
<1>2. /\ Len(Who(u)) = Len(u) /\ Len(Who(s)) = Len(s) /\ Len(Who(t)) = Len(t)
      /\ \A i \in 1..Len(s) : Who(u)[i] = Who(s)[i] /\ i \in 1..Len(u)
      /\ \A i \in 1..Len(t) : Who(u)[Len(s) + i] = Who(t)[i] /\ Len(s) + i \in 1..Len(u)
  <2>1. \A i \in 1..Len(s) : i \in 1..Len(u)
    BY <1>1
  <2>2. \A i \in 1..Len(t) : Len(s) + i \in 1..Len(u)
    BY <1>1
  <2>3. Len(Who(u)) = Len(u) /\ Len(Who(s)) = Len(s) /\ Len(Who(t)) = Len(t)
    BY <1>1, WhoElements
  <2> QED BY <1>1, <2>1, <2>2, <2>3 DEF Who
<1>3. \A i \in 1..Len(u) : i \in 1..Len(s) \/ (i - Len(s) \in 1..Len(t) /\ Len(s) + (i - Len(s)) = i)
  BY <1>1
<1>4. \A i \in 1..Len(u) : \/ i \in 1..Len(s) /\ Who(u)[i] = Who(s)[i] /\ Who(u)[i] \in Elements(Who(s))
                           \/ /\ i - Len(s) \in 1..Len(t) /\ Who(u)[i] = Who(t)[i - Len(s)]
                              /\ Who(u)[i] \in Elements(Who(t))
  <2> TAKE i \in 1..Len(u)
  <2>1. CASE i \in 1..Len(s)
    BY <1>2, <2>1 DEF Elements
  <2>2. CASE i - Len(s) \in 1..Len(t) /\ Len(s) + (i - Len(s)) = i
    <3>1. Who(u)[Len(s) + (i - Len(s))] = Who(t)[i - Len(s)]
      BY <1>2, <2>2
    <3>2. Who(t)[i - Len(s)] \in Elements(Who(t))
      BY <1>2, <2>2 DEF Elements
    <3> QED BY <2>2, <3>1, <3>2
  <2> QED BY <1>3, <2>1, <2>2
<1>5. Once(Who(u))
  <2> SUFFICES ASSUME NEW i \in 1..Len(u), NEW j \in 1..Len(u), Who(u)[i] = Who(u)[j] PROVE i = j
    BY <1>2 DEF Once
  <2>1. CASE i \in 1..Len(s) /\ j \in 1..Len(s)
    BY <1>2, <2>1 DEF Once
  <2>2. CASE i \notin 1..Len(s) /\ j \notin 1..Len(s)
    <3>1. /\ i - Len(s) \in 1..Len(t) /\ Who(u)[i] = Who(t)[i - Len(s)]
          /\ j - Len(s) \in 1..Len(t) /\ Who(u)[j] = Who(t)[j - Len(s)]
      BY <1>4, <2>2
    <3>2. i - Len(s) = j - Len(s)
      BY <1>2, <3>1 DEF Once
    <3> QED BY <1>1, <3>2
  <2>3. CASE (i \in 1..Len(s) /\ j \notin 1..Len(s)) \/ (i \notin 1..Len(s) /\ j \in 1..Len(s))
    <3>1. \/ Who(u)[i] \in Elements(Who(s)) /\ Who(u)[j] \in Elements(Who(t))
          \/ Who(u)[i] \in Elements(Who(t)) /\ Who(u)[j] \in Elements(Who(s))
      <4>1. ASSUME NEW k \in 1..Len(u), k \in 1..Len(s) PROVE Who(u)[k] \in Elements(Who(s))
        BY <1>2, <4>1 DEF Elements
      <4>2. ASSUME NEW k \in 1..Len(u), k \notin 1..Len(s) PROVE Who(u)[k] \in Elements(Who(t))
        BY <1>4, <4>2
      <4> QED BY <2>3, <4>1, <4>2
    <3> QED BY <3>1 DEF Disjoint
  <2> QED BY <2>1, <2>2, <2>3
<1>6. Elements(Who(u)) = Elements(Who(s)) \cup Elements(Who(t))
  <2>1. Elements(Who(u)) \subseteq Elements(Who(s)) \cup Elements(Who(t))
    <3> SUFFICES ASSUME NEW i \in 1..Len(u) PROVE Who(u)[i] \in Elements(Who(s)) \cup Elements(Who(t))
      BY <1>2 DEF Elements
    <3> QED BY <1>4
  <2>2. Elements(Who(s)) \subseteq Elements(Who(u))
    BY <1>2 DEF Elements
  <2>3. Elements(Who(t)) \subseteq Elements(Who(u))
    <3> SUFFICES ASSUME NEW i \in 1..Len(t) PROVE Who(t)[i] \in Elements(Who(u))
      BY <1>2 DEF Elements
    <3>1. Len(s) + i \in 1..Len(u) /\ Who(u)[Len(s) + i] = Who(t)[i]
      BY <1>2
    <3> QED BY <1>2, <3>1 DEF Elements
  <2> QED BY <2>1, <2>2, <2>3
<1> QED BY <1>5, <1>6 DEF u

\* What is left of replies from which some were lost.
LEMMA OncePart ==
    ASSUME NEW s \in Seq(Reply), NEW t \in Seq(Reply), NEW m \in [1..Len(t) -> 1..Len(s)],
           \A i \in 1..Len(t) : t[i] = s[m[i]],
           \A i, j \in 1..Len(t) : m[i] = m[j] => i = j, Once(Who(s))
    PROVE  Once(Who(t)) /\ Elements(Who(t)) \subseteq Elements(Who(s))
<1>1. /\ Len(Who(s)) = Len(s) /\ Len(Who(t)) = Len(t)
      /\ \A i \in 1..Len(t) : Who(t)[i] = Who(s)[m[i]] /\ m[i] \in 1..Len(s)
  <2>1. Len(Who(s)) = Len(s) /\ Len(Who(t)) = Len(t)
    BY WhoElements
  <2>2. ASSUME NEW i \in 1..Len(t) PROVE Who(t)[i] = Who(s)[m[i]] /\ m[i] \in 1..Len(s)
    <3>1. m[i] \in 1..Len(s) /\ t[i] = s[m[i]]
      OBVIOUS
    <3>2. Who(t)[i] = t[i][1] /\ Who(s)[m[i]] = s[m[i]][1]
      BY <3>1, WhoElements
    <3> QED BY <3>1, <3>2
  <2> QED BY <2>1, <2>2
<1>2. Once(Who(t))
  <2> SUFFICES ASSUME NEW i \in 1..Len(t), NEW j \in 1..Len(t), Who(t)[i] = Who(t)[j] PROVE i = j
    BY <1>1 DEF Once
  <2>1. m[i] = m[j]
    <3>1. m[i] \in 1..Len(s) /\ m[j] \in 1..Len(s) /\ Who(s)[m[i]] = Who(s)[m[j]]
      BY <1>1
    <3> QED BY <1>1, <3>1 DEF Once
  <2> QED BY <2>1
<1>3. Elements(Who(t)) \subseteq Elements(Who(s))
  BY <1>1 DEF Elements
<1> QED BY <1>2, <1>3

-----------------------------------------------------------------------------
(* RpcDispatcher::dispatch *)

\* A packet's code says whether its method was called.
LEMMA DispatchTruthful ==
    ASSUME NEW pkg \in PacketType, NEW code \in Dispatch(pkg)
    PROVE  CallsMethod(pkg) <=> code = "serialize" \/ (code = "0" /\ pkg.msg_type_ = 0)
<1>1. LookupError(pkg.method_name_) \in {{}, {"service_name"}, {"service_not_found"}}
  BY DEF LookupError
<1>2. pkg.msg_type_ \in {0, 1} /\ pkg.parses \in BOOLEAN
  BY DEF PacketType
<1>3. CASE pkg.msg_type_ = 1
  <2>1. Dispatch(pkg) = {"0"}
    BY <1>3 DEF Dispatch
  <2> QED BY <1>3, <2>1 DEF CallsMethod
<1>4. CASE pkg.msg_type_ = 0 /\ LookupError(pkg.method_name_) # {}
  <2>1. Dispatch(pkg) = LookupError(pkg.method_name_)
    BY <1>4 DEF Dispatch
  <2> QED BY <1>1, <1>4, <2>1 DEF CallsMethod
<1>5. CASE pkg.msg_type_ = 0 /\ LookupError(pkg.method_name_) = {}
  <2>1. Dispatch(pkg) = IF pkg.parses THEN {"0", "serialize"} ELSE {"deserialize"}
    BY <1>5 DEF Dispatch
  <2> QED BY <1>5, <2>1 DEF CallsMethod
<1> QED BY <1>2, <1>3, <1>4, <1>5

\* OnMassage answers every packet of its batch.
LEMMA OnMassageReplies ==
    ASSUME NEW pkgs \in Seq(Requests), NEW replies \in OnMassage(pkgs)
    PROVE  /\ replies \in Seq(Reply) /\ Len(replies) = Len(pkgs) /\ Who(replies) = pkgs
           /\ \A i \in 1..Len(pkgs) : replies[i][1] = pkgs[i] /\ replies[i][2] \in Dispatch(Packet[pkgs[i]])
<1>1. PICK code \in [1..Len(pkgs) -> Codes] :
        /\ \A i \in 1..Len(pkgs) : code[i] \in Dispatch(Packet[pkgs[i]])
        /\ replies = [i \in 1..Len(pkgs) |-> <<pkgs[i], code[i]>>]
  BY DEF OnMassage
<1>2. \A i \in 1..Len(pkgs) : <<pkgs[i], code[i]>> \in Reply
  BY DEF Reply
<1>3. replies \in Seq(Reply) /\ Len(replies) = Len(pkgs)
  BY <1>1, <1>2
<1>4. \A i \in 1..Len(pkgs) : replies[i][1] = pkgs[i] /\ replies[i][2] = code[i]
  BY <1>1
<1>5. Who(replies) = pkgs
  <2>1. /\ Who(replies) \in Seq(Requests) /\ Len(Who(replies)) = Len(pkgs)
        /\ \A i \in 1..Len(pkgs) : Who(replies)[i] = pkgs[i]
    BY <1>3, <1>4, WhoElements
  <2> QED BY <2>1, SequencesEqual
<1> QED BY <1>1, <1>3, <1>4, <1>5

\* The tasks in the loop's queue, and the requests they answer.
LEMMA AskedElements ==
    ASSUME NEW q \in Seq(Seq(Reply))
    PROVE  /\ Asked(q) \in Seq(Seq(Requests)) /\ Len(Asked(q)) = Len(q)
           /\ \A i \in 1..Len(q) : Asked(q)[i] = Who(q[i]) /\ q[i] \in Seq(Reply)
<1>1. \A i \in 1..Len(q) : q[i] \in Seq(Reply) /\ Who(q[i]) \in Seq(Requests)
  BY WhoElements
<1> QED BY <1>1 DEF Asked

\* What regSend queues, and what handleWakeup takes.
LEMMA AskedQueue ==
    ASSUME NEW q \in Seq(Seq(Reply))
    PROVE  /\ \A b \in Seq(Reply) : Asked(Append(q, b)) = Append(Asked(q), Who(b))
           /\ q # <<>> => /\ Asked(q) # <<>>
                          /\ Asked(Tail(q)) = Tail(Asked(q))
                          /\ Head(Asked(q)) = Who(Head(q))
<1>1. ASSUME NEW b \in Seq(Reply) PROVE Asked(Append(q, b)) = Append(Asked(q), Who(b))
  <2> DEFINE p == Append(q, b)
             u == Append(Asked(q), Who(b))
  <2>0. Len(q) \in Nat
    OBVIOUS
  <2>1. /\ p \in Seq(Seq(Reply)) /\ Len(p) = Len(q) + 1 /\ p[Len(q) + 1] = b
        /\ \A i \in 1..Len(q) : p[i] = q[i]
    BY <1>1, AppendElements
  <2>2. /\ u \in Seq(Seq(Requests)) /\ Len(u) = Len(q) + 1 /\ u[Len(q) + 1] = Who(b)
        /\ \A i \in 1..Len(q) : u[i] = Who(q[i])
    <3>1. Who(b) \in Seq(Requests)
      BY <1>1, WhoElements
    <3> QED BY <3>1, AskedElements, AppendElements
  <2> HIDE DEF p, u
  <2>3. /\ Asked(p) \in Seq(Seq(Requests)) /\ Len(Asked(p)) = Len(q) + 1
        /\ \A i \in 1..Len(q) + 1 : Asked(p)[i] = Who(p[i])
    <3>1. /\ Asked(p) \in Seq(Seq(Requests)) /\ Len(Asked(p)) = Len(p)
          /\ \A i \in 1..Len(p) : Asked(p)[i] = Who(p[i])
      BY <2>1, AskedElements
    <3> QED BY <2>1, <3>1
  <2>4. \A i \in 1..Len(q) + 1 : Asked(p)[i] = u[i]
    <3> TAKE i \in 1..Len(q) + 1
    <3>1. i \in 1..Len(q) \/ i = Len(q) + 1
      BY <2>0
    <3> QED BY <2>1, <2>2, <2>3, <3>1
  <2>5. Asked(p) = u
    BY <2>2, <2>3, <2>4, SequencesEqual
  <2> QED BY <2>5 DEF p, u
<1>2. ASSUME q # <<>>
      PROVE  /\ Asked(q) # <<>> /\ Asked(Tail(q)) = Tail(Asked(q))
             /\ Head(Asked(q)) = Who(Head(q))
  <2> DEFINE p == Tail(q)
             a == Asked(q)
             u == Tail(a)
  <2>1. /\ Head(q) = q[1] /\ 1 \in 1..Len(q) /\ Len(q) \in Nat
        /\ p \in Seq(Seq(Reply)) /\ Len(p) = Len(q) - 1
        /\ \A i \in 1..Len(p) : i + 1 \in 1..Len(q) /\ p[i] = q[i + 1]
    BY <1>2, TailElements
  <2>2. a \in Seq(Seq(Requests)) /\ Len(a) = Len(q) /\ \A i \in 1..Len(q) : a[i] = Who(q[i])
    BY AskedElements
  <2> HIDE DEF a
  <2>3. a # <<>>
    BY <2>1, <2>2
  <2>4. /\ Head(a) = a[1] /\ u \in Seq(Seq(Requests)) /\ Len(u) = Len(a) - 1
        /\ \A i \in 1..Len(u) : u[i] = a[i + 1]
    BY <2>2, <2>3, TailElements
  <2> HIDE DEF p, u
  <2>5. /\ Asked(p) \in Seq(Seq(Requests)) /\ Len(Asked(p)) = Len(p)
        /\ \A i \in 1..Len(p) : Asked(p)[i] = Who(p[i])
    BY <2>1, AskedElements
  <2>6. Len(u) = Len(p) /\ \A i \in 1..Len(p) : Asked(p)[i] = u[i]
    <3>1. Len(u) = Len(p)
      BY <2>1, <2>2, <2>4
    <3> SUFFICES ASSUME NEW i \in 1..Len(p) PROVE Asked(p)[i] = u[i]
      BY <3>1
    <3>2. i + 1 \in 1..Len(q) /\ p[i] = q[i + 1]
      BY <2>1
    <3>3. u[i] = a[i + 1] /\ a[i + 1] = Who(q[i + 1])
      BY <2>2, <2>4, <3>1, <3>2
    <3> QED BY <2>5, <3>2, <3>3
  <2>7. Asked(p) = u
    BY <2>4, <2>5, <2>6, SequencesEqual
  <2>8. Head(a) = Who(Head(q))
    BY <2>1, <2>2, <2>4
  <2> QED BY <2>3, <2>7, <2>8 DEF p, a, u
<1> QED BY <1>1, <1>2

\* A queued reply answers one of the requests that the queue answers.
LEMMA AskedMembers ==
    ASSUME NEW q \in Seq(Seq(Reply)), NEW x \in Members(q)
    PROVE  x[1] \in Members(Asked(q)) /\ x[1] \in Requests
<1>0. DOMAIN q = 1..Len(q)
  OBVIOUS
<1>1. PICK i \in 1..Len(q) : x \in Elements(q[i])
  BY <1>0 DEF Members
<1>2. q[i] \in Seq(Reply) /\ Asked(q)[i] = Who(q[i]) /\ i \in DOMAIN Asked(q)
  BY AskedElements DEF Asked
<1>3. PICK j \in 1..Len(q[i]) : x = q[i][j]
  BY <1>1 DEF Elements
<1>4. Who(q[i])[j] = x[1] /\ Len(Who(q[i])) = Len(q[i]) /\ x[1] \in Requests
  BY <1>2, <1>3, WhoElements
<1>5. x[1] \in Elements(Asked(q)[i])
  BY <1>2, <1>4 DEF Elements
<1> QED BY <1>2, <1>4, <1>5 DEF Members

\* A reply answers one of the requests that its batch answers.
LEMMA WhoMembers ==
    ASSUME NEW s \in Seq(Reply), NEW x \in Elements(s)
    PROVE  x[1] \in Elements(Who(s)) /\ x[1] \in Requests
<1>1. PICK i \in 1..Len(s) : x = s[i]
  BY DEF Elements
<1>2. Who(s)[i] = x[1] /\ Len(Who(s)) = Len(s) /\ x[1] \in Requests
  BY <1>1, WhoElements
<1> QED BY <1>2 DEF Elements

\* What is in batches after Append and after Tail.
LEMMA MembersQueue ==
    ASSUME NEW S, NEW f \in Seq(Seq(S))
    PROVE  /\ \A b \in Seq(S) : Members(Append(f, b)) = Members(f) \cup Elements(b)
           /\ f # <<>> => Members(f) = Members(Tail(f)) \cup Elements(Head(f))
<1>1. ASSUME NEW b \in Seq(S) PROVE Members(Append(f, b)) = Members(f) \cup Elements(b)
  <2> DEFINE g == Append(f, b)
  <2>1. /\ g \in Seq(Seq(S)) /\ Len(g) = Len(f) + 1 /\ g[Len(f) + 1] = b
        /\ \A i \in 1..Len(f) : g[i] = f[i]
    BY <1>1, AppendElements
  <2>2. DOMAIN g = 1..Len(f) \cup {Len(f) + 1} /\ DOMAIN f = 1..Len(f)
    BY <2>1
  <2> HIDE DEF g
  <2>3. Members(g) = Members(f) \cup Elements(b)
    BY <2>1, <2>2 DEF Members
  <2> QED BY <2>3 DEF g
<1>2. ASSUME f # <<>> PROVE Members(f) = Members(Tail(f)) \cup Elements(Head(f))
  <2> DEFINE g == Tail(f)
  <2>1. /\ Head(f) = f[1] /\ 1 \in 1..Len(f) /\ Len(f) \in Nat
        /\ g \in Seq(Seq(S)) /\ Len(g) = Len(f) - 1
        /\ \A i \in 1..Len(g) : i + 1 \in 1..Len(f) /\ g[i] = f[i + 1]
    BY <1>2, TailElements
  <2> HIDE DEF g
  <2>2. DOMAIN f = 1..Len(f) /\ DOMAIN g = 1..Len(g)
    BY <2>1
  <2>3. ASSUME NEW x \in Members(f) PROVE x \in Members(g) \cup Elements(f[1])
    <3>1. PICK d \in 1..Len(f) : x \in Elements(f[d])
      BY <2>2, <2>3 DEF Members
    <3>2. CASE d = 1
      BY <3>1, <3>2
    <3>3. CASE d # 1
      <4>1. d - 1 \in 1..Len(g) /\ (d - 1) + 1 = d
        BY <2>1, <3>3
      <4>2. g[d - 1] = f[(d - 1) + 1]
        BY <2>1, <4>1
      <4> QED BY <2>2, <3>1, <4>1, <4>2 DEF Members
    <3> QED BY <3>2, <3>3
  <2>4. Members(g) \cup Elements(f[1]) \subseteq Members(f)
    BY <2>1, <2>2 DEF Members
  <2> QED BY <2>1, <2>3, <2>4 DEF g
<1> QED BY <1>1, <1>2

\* What is in a concatenation.
LEMMA ElementsConcat ==
    ASSUME NEW S, NEW s \in Seq(S), NEW t \in Seq(S)
    PROVE  Elements(s \o t) = Elements(s) \cup Elements(t)
<1> DEFINE u == s \o t
<1>1. /\ Len(u) = Len(s) + Len(t) /\ Len(s) \in Nat /\ Len(t) \in Nat
      /\ \A i \in 1..Len(s) : u[i] = s[i]
      /\ \A i \in 1..Len(t) : u[Len(s) + i] = t[i]
  BY ConcatElements
<1> HIDE DEF u
<1>2. ASSUME NEW i \in 1..Len(u) PROVE u[i] \in Elements(s) \cup Elements(t)
  <2>1. CASE i <= Len(s)
    BY <1>1, <2>1 DEF Elements
  <2>2. CASE i > Len(s)
    <3>1. i - Len(s) \in 1..Len(t) /\ Len(s) + (i - Len(s)) = i
      BY <1>1, <2>2
    <3>2. u[Len(s) + (i - Len(s))] = t[i - Len(s)]
      BY <1>1, <3>1
    <3> QED BY <3>1, <3>2 DEF Elements
  <2> QED BY <1>1, <2>1, <2>2
<1>3. ASSUME NEW i \in 1..Len(s) PROVE s[i] \in Elements(u)
  <2>1. i \in 1..Len(u)
    BY <1>1
  <2> QED BY <1>1, <2>1 DEF Elements
<1>4. ASSUME NEW i \in 1..Len(t) PROVE t[i] \in Elements(u)
  <2>1. Len(s) + i \in 1..Len(u) /\ u[Len(s) + i] = t[i]
    BY <1>1
  <2> QED BY <2>1 DEF Elements
<1>5. Elements(u) = Elements(s) \cup Elements(t)
  BY <1>2, <1>3, <1>4 DEF Elements
<1> QED BY <1>5 DEF u

\* A batch that is dispatched for the first time: its methods run once, and
\* its replies say so.
LEMMA Executes ==
    ASSUME executed \in [Requests -> Nat], NEW pkgs \in Seq(Requests), Execute(pkgs),
           \A r \in Elements(pkgs) : executed[r] = 0
    PROVE  /\ executed' \in [Requests -> Nat]
           /\ \A r \in Requests \ Elements(pkgs) : executed'[r] = executed[r]
           /\ \A r \in Elements(pkgs) : executed'[r] <= 1
           /\ \A replies \in OnMassage(pkgs) : \A x \in Elements(replies) : Truthful(x)'
<1>1. \A r \in Requests : executed'[r] = IF r \in Elements(pkgs) /\ CallsMethod(Packet[r])
                                         THEN executed[r] + 1 ELSE executed[r]
  BY DEF Execute
<1>2. executed' \in [Requests -> Nat]
  BY <1>1 DEF Execute
<1>3. Elements(pkgs) \subseteq Requests
  BY DEF Elements
<1>4. ASSUME NEW replies \in OnMassage(pkgs), NEW x \in Elements(replies) PROVE Truthful(x)'
  <2>1. PICK i \in 1..Len(replies) : x = replies[i]
    BY <1>4 DEF Elements
  <2> DEFINE r == pkgs[i]
  <2>2. i \in 1..Len(pkgs) /\ x[1] = r /\ x[2] \in Dispatch(Packet[r])
    BY <1>4, <2>1, OnMassageReplies
  <2>3. r \in Elements(pkgs) /\ r \in Requests /\ Packet[r] \in PacketType
    BY <2>2, PacketAssumption DEF Elements
  <2> HIDE DEF r
  <2>4. executed'[r] = IF CallsMethod(Packet[r]) THEN 1 ELSE 0
    BY <1>1, <2>3
  <2>5. CallsMethod(Packet[r]) <=> x[2] = "serialize" \/ (x[2] = "0" /\ Packet[r].msg_type_ = 0)
    BY <2>2, <2>3, DispatchTruthful
  <2> QED BY <2>2, <2>4, <2>5 DEF Truthful
<1>5. \A r \in Requests \ Elements(pkgs) : executed'[r] = executed[r]
  BY <1>1
<1>6. \A r \in Elements(pkgs) : executed'[r] <= 1
  <2> TAKE r \in Elements(pkgs)
  <2>1. executed'[r] = 1 \/ executed'[r] = 0
    BY <1>1, <1>3
  <2> QED BY <2>1
<1> QED BY <1>2, <1>4, <1>5, <1>6

-----------------------------------------------------------------------------
(* Every step keeps the invariant *)

\* What the names above stand for has the right types.
LEMMA PlaceTypes ==
    ASSUME Types
    PROVE  /\ Stream \in Seq(Piece) /\ Len(Stream) = Len(inputbuffer_) + Len(c2s)
           /\ \A i \in 1..Len(inputbuffer_) : Stream[i] = inputbuffer_[i]
           /\ \A i \in 1..Len(c2s) : Stream[Len(inputbuffer_) + i] = c2s[i]
           /\ Replies \in Seq(Reply)
           /\ Held \in [Workers -> Seq(Requests)]
           /\ Asked(taskqueue_) \in Seq(Seq(Requests))
<1>1. /\ Stream \in Seq(Piece) /\ Len(Stream) = Len(inputbuffer_) + Len(c2s)
      /\ \A i \in 1..Len(inputbuffer_) : Stream[i] = inputbuffer_[i]
      /\ \A i \in 1..Len(c2s) : Stream[Len(inputbuffer_) + i] = c2s[i]
  BY ConcatElements DEF Types, Stream
<1>2. Replies \in Seq(Reply)
  BY ConcatElements DEF Types, Replies
<1>3. Held \in [Workers -> Seq(Requests)]
  BY DEF Types, Held
<1>4. Asked(taskqueue_) \in Seq(Seq(Requests))
  BY AskedElements DEF Types
<1> QED BY <1>1, <1>2, <1>3, <1>4

\* Nothing was sent yet.
LEMMA InitIInv == Init => IInv
<1> HAVE Init
<1>1. Types
  <2>1. \A S : <<>> \in Seq(S) /\ Len(<<>>) = 0
    OBVIOUS
  <2>2. work \in [Workers -> [at : {"idle", "dispatch", "release"}, pkgs : Seq(Requests)]]
    BY <2>1 DEF Init
  <2>3. executed \in [Requests -> Nat] /\ sent \in [Requests -> 0..2]
    BY DEF Init
  <2>4. /\ inputbuffer_ = <<>> /\ c2s = <<>> /\ pool = <<>> /\ taskqueue_ = <<>>
        /\ outputbuffer_ = <<>> /\ s2c = <<>> /\ received = <<>>
    BY DEF Init
  <2> QED BY <2>1, <2>2, <2>3, <2>4, SndCapAssumption DEF Types
<1>2. Stream = <<>> /\ Replies = <<>> /\ pool = <<>> /\ taskqueue_ = <<>>
  <2>1. Stream \in Seq(Piece) /\ Len(Stream) = 0
    BY <1>1, PlaceTypes DEF Init
  <2>2. Replies \in Seq(Reply) /\ Len(Replies) = 0
    BY <1>1, PlaceTypes DEF Init, Replies
  <2> QED BY <2>1, <2>2 DEF Init
<1>3. /\ Elements(<<>>) = {} /\ Who(<<>>) = <<>> /\ Asked(<<>>) = <<>> /\ Members(<<>>) = {}
      /\ Tails(<<>>) = {} /\ Apart(<<>>) /\ Once(<<>>) /\ Paired(<<>>) /\ TailsOnce(<<>>)
      /\ \A r \in Requests : ~EndsIn(<<>>, r)
  <2>1. Len(<<>>) = 0 /\ 1..0 = {} /\ DOMAIN <<>> = {}
    OBVIOUS
  <2>2. Who(<<>>) = <<>> /\ Asked(<<>>) = <<>>
    BY <2>1 DEF Who, Asked
  <2>3. Paired(<<>>) /\ \A r \in Requests : ~EndsIn(<<>>, r)
    BY <2>1 DEF Paired, EndsIn
  <2> QED BY <2>1, <2>2, <2>3 DEF Elements, Members, Tails, Apart, Once, TailsOnce
<1>4. Members(Held) = {} /\ Apart(Held)
  <2>1. DOMAIN Held = Workers /\ \A w \in Workers : Held[w] = <<>>
    BY DEF Init, Held
  <2>2. 1..Len(<<>>) = {}
    OBVIOUS
  <2> QED BY <1>3, <2>1, <2>2 DEF Members, Apart
<1>5. Unsent = Requests /\ \A r \in Requests : sent[r] # 1 /\ executed[r] = 0
  BY DEF Init, Unsent
<1>6. StreamInv /\ OnceInv
  BY <1>2, <1>3, <1>4, <1>5 DEF StreamInv, OnceInv
<1>7. PlaceInv
  BY <1>2, <1>3, <1>4 DEF PlaceInv, Disjoint
<1>8. ExecInv /\ CodeInv /\ LossInv
  BY <1>2, <1>3, <1>5 DEF ExecInv, CodeInv, LossInv
<1>9. IdleInv /\ HeldInv
  BY DEF Init, IdleInv, HeldInv
<1> QED BY <1>1, <1>6, <1>7, <1>8, <1>9 DEF IInv

\* Steps that move no request on.
LEMMA NothingMoves ==
    ASSUME IInv, Types', IdleInv', HeldInv',
           Stream' = Stream, Replies' = Replies, Held' = Held,
           UNCHANGED <<pool, taskqueue_, executed, sent>>,
           client' = "open" => client = "open", client' # "rst" => client # "rst",
           disConnect => disConnect'
    PROVE  IInv'
<1>1. Unsent' = Unsent
  BY DEF Unsent
<1>2. StreamInv'
  BY DEF IInv, StreamInv
<1>3. OnceInv'
  BY DEF IInv, OnceInv
<1>4. PlaceInv'
  BY <1>1 DEF IInv, PlaceInv
<1>5. ExecInv'
  BY <1>1 DEF IInv, ExecInv
<1>6. CodeInv'
  BY DEF IInv, CodeInv, Truthful
<1>7. LossInv'
  BY <1>1 DEF IInv, LossInv
<1> QED BY <1>2, <1>3, <1>4, <1>5, <1>6, <1>7 DEF IInv

\* The variables the argument is about.
dataVars == <<inputbuffer_, c2s, pool, work, taskqueue_, outputbuffer_, s2c, received,
              executed, sent, client, disConnect>>

\* A step that leaves all of these alone.
LEMMA DataStays ==
    ASSUME IInv, UNCHANGED dataVars, HeldInv'
    PROVE  IInv'
<1>1. Types' /\ IdleInv'
  BY DEF IInv, Types, IdleInv, dataVars
<1>2. Stream' = Stream /\ Replies' = Replies /\ Held' = Held
  BY DEF Stream, Replies, Held, dataVars
<1> QED BY <1>1, <1>2, NothingMoves DEF dataVars

\* Main, the channel and the end of the process leave requests alone.
LEMMA MainIInv ==
    ASSUME IInv, AcceptStep \/ SweepStep \/ (\E t \in Threads : InChannel(t)) \/ Quiescent \/ UNCHANGED vars
    PROVE  IInv'
<1> USE DEF dataVars, mainVars, connVars, loopVars, workVars, netVars
<1>1. CASE AcceptStep
  <2>1. UNCHANGED dataVars
    BY <1>1 DEF AcceptStep, Accept, AcceptFails, NewConnection, NewConnectionEnable, NewConnectionReturn, Dies
  <2>2. HeldInv'
    BY <1>1 DEF IInv, HeldInv, AcceptStep, Accept, AcceptFails, NewConnection, NewConnectionEnable,
                NewConnectionReturn, Dies, MainAt
  <2> QED BY <2>1, <2>2, DataStays
<1>2. CASE SweepStep
  <2>1. UNCHANGED dataVars
    BY <1>2 DEF SweepStep, ClearClientTimerFunc, ClearClientShutdown
  <2>2. HeldInv'
    BY <1>2 DEF IInv, HeldInv, SweepStep, ClearClientTimerFunc, ClearClientShutdown, MainAt
  <2> QED BY <2>1, <2>2, DataStays
<1>3. CASE (\E t \in Threads : InChannel(t)) \/ Quiescent \/ UNCHANGED vars
  <2>1. UNCHANGED <<dataVars, conns_, mpc, lpc>>
    BY <1>3 DEF InChannel, Quiescent, vars
  <2>2. HeldInv'
    BY <2>1 DEF IInv, HeldInv
  <2> QED BY <2>1, <2>2, DataStays
<1> QED BY <1>1, <1>2, <1>3

\* Reading moves pieces from the socket to the buffer, within the stream.
LEMMA ReadIInv == ASSUME IInv, OnMessage \/ OnMessageEof PROVE IInv'
<1> USE DEF mainVars, workVars
<1>1. inputbuffer_' = inputbuffer_ \o c2s /\ c2s' = <<>>
  BY DEF OnMessage, OnMessageEof
<1>2. Types /\ inputbuffer_ \o c2s \in Seq(Piece) /\ <<>> \in Seq(Piece)
  BY PlaceTypes DEF IInv, Types, Stream
<1>3. UNCHANGED <<pool, work, taskqueue_, outputbuffer_, s2c, received, executed, sent, client>>
  BY DEF OnMessage, OnMessageEof
<1>4. Types' /\ IdleInv'
  BY <1>1, <1>2, <1>3 DEF IInv, Types, IdleInv
<1>5. Stream' = Stream
  <2>1. \A s \in Seq(Piece) : s \o <<>> = s
    OBVIOUS
  <2> QED BY <1>1, <1>2, <2>1 DEF Stream
<1>6. Replies' = Replies /\ Held' = Held
  BY <1>3 DEF Replies, Held
<1>7. HeldInv' /\ (disConnect => disConnect')
  BY DEF IInv, HeldInv, OnMessage, OnMessageEof, HandleEvent
<1> QED BY <1>3, <1>4, <1>5, <1>6, <1>7, NothingMoves

\* Writing moves replies from the buffer to the socket, in their order.
LEMMA WriteIInv == ASSUME IInv, Write PROVE IInv'
<1> USE DEF mainVars, workVars
<1>1. /\ outputbuffer_ \in Seq(Reply) /\ s2c \in Seq(Reply) /\ received \in Seq(Reply)
      /\ Len(s2c) <= SndCap /\ Len(s2c) \in Nat /\ Len(outputbuffer_) \in Nat
  BY DEF IInv, Types
<1> DEFINE p == SubSeq(outputbuffer_, 1, Writable)
           q == SubSeq(outputbuffer_, Writable + 1, Len(outputbuffer_))
<1>2. Writable \in 0..Len(outputbuffer_) /\ Writable <= SndCap - Len(s2c)
  BY <1>1, SndCapAssumption DEF Writable
<1>3. /\ p \in Seq(Reply) /\ q \in Seq(Reply) /\ Len(p) = Writable /\ p \o q = outputbuffer_
  BY <1>1, <1>2, SplitJoins
<1>4. s2c' = s2c \o p /\ outputbuffer_' = q
  BY DEF Write, Unwritten
<1> HIDE DEF p, q
<1>5. UNCHANGED <<inputbuffer_, c2s, pool, work, taskqueue_, received, executed, sent, client, disConnect>>
  BY DEF Write
<1>6. s2c' \in Seq(Reply) /\ Len(s2c') <= SndCap
  <2>1. s2c \o p \in Seq(Reply) /\ Len(s2c \o p) = Len(s2c) + Len(p)
    BY <1>1, <1>3, ConcatElements
  <2>2. Len(s2c) + Len(p) <= SndCap
    BY <1>1, <1>2, <1>3, SndCapAssumption
  <2> QED BY <1>4, <2>1, <2>2
<1>7. Types' /\ IdleInv'
  BY <1>3, <1>4, <1>5, <1>6 DEF IInv, Types, IdleInv
<1>8. Replies' = Replies
  <2>1. received \o (s2c \o p) = (received \o s2c) \o p
    BY <1>1, <1>3, RepliesAssociate, Zenon
  <2>2. received \o s2c \in Seq(Reply)
    BY <1>1, ConcatElements
  <2>3. ((received \o s2c) \o p) \o q = (received \o s2c) \o (p \o q)
    BY <1>3, <2>2, RepliesAssociate, Zenon
  <2>4. Replies' = (received \o (s2c \o p)) \o q
    BY <1>4, <1>5 DEF Replies
  <2> QED BY <1>3, <2>1, <2>3, <2>4 DEF Replies
<1>9. Stream' = Stream /\ Held' = Held
  BY <1>5 DEF Stream, Held
<1>10. HeldInv'
  BY <1>5 DEF IInv, HeldInv, Write
<1> QED BY <1>5, <1>7, <1>8, <1>9, <1>10, NothingMoves

\* The client takes a reply from the socket.
LEMMA ClientReadIInv == ASSUME IInv, ClientRead PROVE IInv'
<1> USE DEF mainVars, connVars, loopVars, workVars
<1>1. /\ s2c \in Seq(Reply) /\ s2c # <<>> /\ received \in Seq(Reply) /\ outputbuffer_ \in Seq(Reply)
      /\ Len(s2c) <= SndCap
  BY DEF IInv, Types, ClientRead
<1>2. s2c' = Tail(s2c) /\ received' = Append(received, Head(s2c))
  BY DEF ClientRead
<1>3. UNCHANGED <<inputbuffer_, c2s, pool, work, taskqueue_, outputbuffer_, executed, sent, client, disConnect>>
  BY DEF ClientRead
<1>4. /\ Tail(s2c) \in Seq(Reply) /\ Len(Tail(s2c)) = Len(s2c) - 1 /\ Head(s2c) \in Reply
      /\ Append(received, Head(s2c)) \in Seq(Reply)
  BY <1>1, TailElements, AppendElements
<1>5. Len(Tail(s2c)) <= SndCap
  <2>1. Len(s2c) \in Nat
    BY <1>1
  <2> QED BY <1>1, <1>4, <2>1, SndCapAssumption
<1>6. Types' /\ IdleInv'
  BY <1>2, <1>3, <1>4, <1>5 DEF IInv, Types, IdleInv
<1>7. Replies' = Replies
  BY <1>1, <1>2, <1>3, HeadMoves DEF Replies
<1>8. Stream' = Stream /\ Held' = Held
  BY <1>3 DEF Stream, Held
<1>9. HeldInv'
  BY <1>3 DEF IInv, HeldInv, ClientRead
<1> QED BY <1>3, <1>6, <1>7, <1>8, <1>9, NothingMoves

\* The other steps of the loop, the end of a worker's task and the client's FIN.
LEMMA QuietIInv ==
    ASSUME IInv,
           \/ EpollWait \/ Close \/ CloseConnection \/ SendMessage \/ WriteBroken \/ LoopUsesDestroyed
           \/ ClientClose \/ \E w \in Workers : WorkerReturn(w)
    PROVE  IInv'
<1> USE DEF mainVars, connVars, loopVars, workVars, netVars
<1>1. CASE EpollWait \/ SendMessage \/ WriteBroken \/ LoopUsesDestroyed
  <2>1. UNCHANGED <<dataVars, conns_, mpc>>
    BY <1>1 DEF EpollWait, SendMessage, WriteBroken, LoopUsesDestroyed, Dies, dataVars
  <2>2. lpc' = lpc \/ lpc' \in {"wait", "handle", "write"}
    BY <1>1 DEF EpollWait, SendMessage, WriteBroken, LoopUsesDestroyed, Dies, HandleEvent
  <2>3. HeldInv'
    BY <2>1, <2>2 DEF IInv, HeldInv, dataVars
  <2> QED BY <2>1, <2>3, DataStays
<1>2. CASE Close
  <2>1. UNCHANGED <<dataVars, conns_, mpc>>
    BY <1>2 DEF Close, dataVars
  <2>2. HeldInv'
    BY <1>2, <2>1 DEF IInv, HeldInv, dataVars, Close, LoopAt
  <2> QED BY <2>1, <2>2, DataStays
<1>3. CASE CloseConnection
  <2>1. UNCHANGED dataVars
    BY <1>3 DEF CloseConnection, dataVars
  <2>2. HeldInv'
    BY <1>3, <2>1 DEF IInv, HeldInv, dataVars, CloseConnection, LoopAt
  <2> QED BY <2>1, <2>2, DataStays
<1>4. CASE ClientClose
  <2>1. /\ UNCHANGED <<inputbuffer_, c2s, pool, work, taskqueue_, outputbuffer_, s2c, received,
                       executed, sent, disConnect>>
        /\ client = "open" /\ client' = "fin"
    BY <1>4 DEF ClientClose
  <2>2. Types' /\ IdleInv' /\ Stream' = Stream /\ Replies' = Replies /\ Held' = Held
    BY <2>1 DEF IInv, Types, IdleInv, Stream, Replies, Held
  <2>3. HeldInv'
    BY <1>4 DEF IInv, HeldInv, ClientClose
  <2> QED BY <2>1, <2>2, <2>3, NothingMoves
<1>5. ASSUME NEW w \in Workers, WorkerReturn(w) PROVE IInv'
  <2>1. /\ UNCHANGED <<inputbuffer_, c2s, pool, taskqueue_, outputbuffer_, s2c, received,
                       executed, sent, disConnect, client, conns_, mpc, lpc>>
        /\ work' = [work EXCEPT ![w].at = "idle"] /\ work[w].at = "release"
    BY <1>5 DEF WorkerReturn, WorkerAt
  <2>2. work \in [Workers -> [at : {"idle", "dispatch", "release"}, pkgs : Seq(Requests)]]
    BY DEF IInv, Types
  <2>3. /\ work' \in [Workers -> [at : {"idle", "dispatch", "release"}, pkgs : Seq(Requests)]]
        /\ \A v \in Workers : work'[v].pkgs = work[v].pkgs
        /\ \A v \in Workers : work'[v].at = "dispatch" => work[v].at = "dispatch"
        /\ work'[w].pkgs = work[w].pkgs
        /\ \A v \in Workers : v # w => work'[v] = work[v]
    BY <2>1, <2>2
  <2>4. Types'
    BY <2>1, <2>3 DEF IInv, Types
  <2>5. IdleInv'
    BY <2>1, <2>3 DEF IInv, IdleInv
  <2>6. Held' = Held
    BY <2>3 DEF Held
  <2>7. Stream' = Stream /\ Replies' = Replies
    BY <2>1 DEF Stream, Replies
  <2>8. HeldInv'
    BY <2>1 DEF IInv, HeldInv
  <2> QED BY <2>1, <2>4, <2>5, <2>6, <2>7, <2>8, NothingMoves
<1> QED BY <1>1, <1>2, <1>3, <1>4, <1>5

\* The client sends a piece at the end of the stream.
LEMMA ClientSendIInv == ASSUME IInv, NEW r \in Requests, ClientSend(r) PROVE IInv'
<1> USE DEF mainVars, connVars, loopVars, workVars
<1> DEFINE x == <<r, IF sent[r] = 0 THEN "head" ELSE "tail">>
<1>1. /\ c2s' = Append(c2s, x) /\ sent' = [sent EXCEPT ![r] = @ + 1]
      /\ sent[r] < 2 /\ client = "open" /\ \A q \in Requests \ {r} : sent[q] # 1
  BY DEF ClientSend
<1>2. UNCHANGED <<inputbuffer_, pool, work, taskqueue_, outputbuffer_, s2c, received, executed,
                  client, disConnect, conns_, mpc, lpc>>
  BY DEF ClientSend
<1>3. x \in Piece /\ sent[r] \in {0, 1}
  BY <1>1 DEF Piece, IInv, Types
<1>4. Types'
  <2>1. c2s' \in Seq(Piece)
    BY <1>1, <1>3 DEF IInv, Types
  <2>2. sent' \in [Requests -> 0..2]
    BY <1>1, <1>3 DEF IInv, Types
  <2> QED BY <1>2, <2>1, <2>2 DEF IInv, Types
<1> HIDE DEF x
<1>5. Stream \in Seq(Piece) /\ Stream' = Append(Stream, x)
  <2>1. inputbuffer_ \in Seq(Piece) /\ c2s \in Seq(Piece)
    BY DEF IInv, Types
  <2>2. /\ Append(c2s, x) \in Seq(Piece) /\ Append(inputbuffer_ \o c2s, x) \in Seq(Piece)
        /\ inputbuffer_ \o Append(c2s, x) \in Seq(Piece)
    BY <1>3, <2>1
  <2>3. Len(inputbuffer_ \o Append(c2s, x)) = Len(Append(inputbuffer_ \o c2s, x))
    BY <1>3, <2>1
  <2>4. \A i \in 1..Len(inputbuffer_ \o Append(c2s, x)) :
            (inputbuffer_ \o Append(c2s, x))[i] = Append(inputbuffer_ \o c2s, x)[i]
    BY <1>3, <2>1
  <2>5. inputbuffer_ \o Append(c2s, x) = Append(inputbuffer_ \o c2s, x)
    BY <2>2, <2>3, <2>4, SequencesEqual
  <2> QED BY <1>1, <1>2, <2>1, <2>5 DEF Stream
<1>6. Replies' = Replies /\ Held' = Held
  BY <1>2 DEF Replies, Held
<1>7. /\ Paired(Stream) /\ TailsOnce(Stream)
      /\ \A q \in Requests : sent[q] = 1 <=> EndsIn(Stream, q)
  BY <1>1 DEF IInv, StreamInv
<1>8. /\ sent'[r] = sent[r] + 1 /\ \A q \in Requests : q # r => sent'[q] = sent[q]
      /\ r \in Unsent
  BY <1>1 DEF IInv, Types, Unsent
<1>9. CASE sent[r] = 0
  <2>1. x = <<r, "head">>
    BY <1>9 DEF x
  <2>2. \A q \in Requests : ~EndsIn(Stream, q)
    BY <1>1, <1>7, <1>9
  <2>3. /\ Paired(Stream') /\ TailsOnce(Stream') /\ Tails(Stream') = Tails(Stream)
        /\ \A q \in Requests : EndsIn(Stream', q) <=> q = r
    BY <1>5, <1>7, <2>1, <2>2, SendHead
  <2>4. \A q \in Requests : sent'[q] = 1 <=> q = r
    BY <1>1, <1>8, <1>9
  <2>5. Unsent' = Unsent
    BY <1>8, <1>9 DEF Unsent
  <2>6. StreamInv'
    BY <2>3, <2>4 DEF StreamInv
  <2>7. PlaceInv' /\ LossInv'
    BY <1>2, <1>6, <2>3, <2>5 DEF IInv, PlaceInv, LossInv
  <2>8. ExecInv'
    BY <1>2, <1>6, <2>3, <2>5 DEF IInv, ExecInv
  <2> QED BY <1>2, <1>4, <1>6, <2>6, <2>7, <2>8
          DEF IInv, OnceInv, IdleInv, CodeInv, Truthful, HeldInv
<1>10. CASE sent[r] = 1
  <2>1. x = <<r, "tail">>
    BY <1>10 DEF x
  <2>2. EndsIn(Stream, r) /\ r \notin Tails(Stream)
    BY <1>7, <1>8, <1>10 DEF IInv, PlaceInv, Disjoint
  <2>3. /\ Paired(Stream') /\ TailsOnce(Stream') /\ Tails(Stream') = Tails(Stream) \cup {r}
        /\ \A q \in Requests : ~EndsIn(Stream', q)
    BY <1>5, <1>7, <2>1, <2>2, SendTail
  <2>4. \A q \in Requests : sent'[q] # 1
    BY <1>1, <1>8, <1>10
  <2>5. Unsent' = Unsent \ {r}
    BY <1>8, <1>10 DEF Unsent
  <2>6. StreamInv'
    BY <2>3, <2>4 DEF StreamInv
  <2>7. PlaceInv'
    BY <1>2, <1>6, <1>8, <2>3, <2>5 DEF IInv, PlaceInv, Disjoint
  <2>8. LossInv'
    BY <1>2, <1>6, <2>3, <2>5 DEF IInv, LossInv
  <2>9. ExecInv'
    BY <1>2, <1>6, <1>8, <2>3, <2>5 DEF IInv, ExecInv
  <2> QED BY <1>2, <1>4, <1>6, <2>6, <2>7, <2>8, <2>9
          DEF IInv, OnceInv, IdleInv, CodeInv, Truthful, HeldInv
<1> QED BY <1>3, <1>9, <1>10

\* An RST loses what is under way in the socket, in both directions.
LEMMA ClientResetIInv == ASSUME IInv, ClientReset PROVE IInv'
<1> USE DEF mainVars, connVars, loopVars, workVars
<1>1. c2s' = <<>> /\ s2c' = <<>> /\ client' = "rst"
  BY DEF ClientReset
<1>2. UNCHANGED <<inputbuffer_, pool, work, taskqueue_, outputbuffer_, received, executed, sent,
                  disConnect, conns_, mpc, lpc>>
  BY DEF ClientReset
<1>3. Types'
  <2>1. \A S : <<>> \in Seq(S) /\ Len(<<>>) = 0
    OBVIOUS
  <2> QED BY <1>1, <1>2, <2>1, SndCapAssumption DEF IInv, Types
<1>4. /\ Stream \in Seq(Piece) /\ Stream' \in Seq(Piece) /\ Len(Stream') <= Len(Stream)
      /\ \A i \in 1..Len(Stream') : Stream'[i] = Stream[i]
  <2>1. inputbuffer_ \in Seq(Piece) /\ c2s \in Seq(Piece)
    BY DEF IInv, Types
  <2>2. Stream' = inputbuffer_
    BY <1>1, <1>2, <2>1 DEF Stream
  <2>3. /\ Stream \in Seq(Piece) /\ Len(Stream) = Len(inputbuffer_) + Len(c2s)
        /\ \A i \in 1..Len(inputbuffer_) : Stream[i] = inputbuffer_[i]
    BY PlaceTypes DEF IInv
  <2>4. Len(inputbuffer_) <= Len(inputbuffer_) + Len(c2s)
    BY <2>1
  <2> QED BY <2>1, <2>2, <2>3, <2>4
<1>5. Paired(Stream') /\ TailsOnce(Stream') /\ Tails(Stream') \subseteq Tails(Stream)
  BY <1>4, PairedPrefix DEF IInv, StreamInv
<1>6. /\ Once(Who(Replies')) /\ Elements(Who(Replies')) \subseteq Elements(Who(Replies))
      /\ Elements(Replies') \subseteq Elements(Replies)
  <2>1. received \in Seq(Reply) /\ s2c \in Seq(Reply) /\ outputbuffer_ \in Seq(Reply)
    BY DEF IInv, Types
  <2>2. Replies' = received \o outputbuffer_
    BY <1>1, <1>2, <2>1 DEF Replies
  <2> DEFINE a == Len(received)
             b == Len(s2c)
             c == Len(outputbuffer_)
             m == [i \in 1..a + c |-> IF i <= a THEN i ELSE i + b]
  <2>3. a \in Nat /\ b \in Nat /\ c \in Nat
    BY <2>1
  <2>4. Replies \in Seq(Reply) /\ Replies' \in Seq(Reply) /\ Len(Replies) = a + b + c /\ Len(Replies') = a + c
    BY <2>1, <2>2 DEF Replies
  <2>5. \A i \in 1..a + c : Replies'[i] = IF i <= a THEN received[i] ELSE outputbuffer_[i - a]
    BY <2>1, <2>2, <2>3
  <2>6. \A i \in 1..a + c : Replies[IF i <= a THEN i ELSE i + b] = IF i <= a THEN received[i] ELSE outputbuffer_[i - a]
    BY <2>1, <2>3 DEF Replies
  <2> HIDE DEF a, b, c
  <2>7. m \in [1..Len(Replies') -> 1..Len(Replies)]
    BY <2>3, <2>4
  <2>8. \A i \in 1..Len(Replies') : Replies'[i] = Replies[m[i]]
    BY <2>4, <2>5, <2>6
  <2>9. \A i, j \in 1..Len(Replies') : m[i] = m[j] => i = j
    BY <2>3, <2>4
  <2> HIDE DEF m
  <2>10. Once(Who(Replies)) 
    BY DEF IInv, OnceInv
  <2>11. Elements(Replies') \subseteq Elements(Replies)
    BY <2>7, <2>8 DEF Elements
  <2> QED BY <2>4, <2>7, <2>8, <2>9, <2>10, <2>11, OncePart
<1>7. Held' = Held /\ Unsent' = Unsent
  BY <1>2 DEF Held, Unsent
<1>8. StreamInv' /\ LossInv'
  BY <1>1, <1>5 DEF StreamInv, LossInv
<1>9. OnceInv' /\ IdleInv' /\ HeldInv'
  BY <1>2, <1>6, <1>7 DEF IInv, OnceInv, IdleInv, HeldInv
<1>10. PlaceInv'
  BY <1>2, <1>5, <1>6, <1>7 DEF IInv, PlaceInv, Disjoint
<1>11. ExecInv'
  BY <1>2, <1>5, <1>7 DEF IInv, ExecInv
<1>12. CodeInv'
  BY <1>2, <1>6 DEF IInv, CodeInv, Truthful
<1> QED BY <1>3, <1>8, <1>9, <1>10, <1>11, <1>12 DEF IInv

\* A worker takes the first batch of the pool.
LEMMA WorkerTakeIInv == ASSUME IInv, NEW w \in Workers, WorkerTake(w) PROVE IInv'
<1> USE DEF mainVars, connVars, loopVars, netVars
<1>1. /\ work[w].at = "idle" /\ pool # <<>> /\ pool' = Tail(pool)
      /\ work' = [work EXCEPT ![w] = [at |-> "dispatch", pkgs |-> Head(pool)]]
  BY DEF WorkerTake, WorkerAt
<1>2. UNCHANGED <<inputbuffer_, c2s, taskqueue_, outputbuffer_, s2c, received, executed, sent,
                  client, disConnect, conns_, mpc, lpc>>
  BY DEF WorkerTake
<1>3. /\ pool \in Seq(Seq(Requests)) /\ Head(pool) \in Seq(Requests) /\ Tail(pool) \in Seq(Seq(Requests))
      /\ work \in [Workers -> [at : {"idle", "dispatch", "release"}, pkgs : Seq(Requests)]]
  BY <1>1, TailElements DEF IInv, Types
<1>4. Types'
  <2>1. work' \in [Workers -> [at : {"idle", "dispatch", "release"}, pkgs : Seq(Requests)]]
    BY <1>1, <1>3
  <2> QED BY <1>1, <1>2, <1>3, <2>1 DEF IInv, Types
<1>5. IdleInv'
  BY <1>1, <1>3 DEF IInv, IdleInv
<1>6. Stream' = Stream /\ Replies' = Replies /\ Unsent' = Unsent
  BY <1>2 DEF Stream, Replies, Unsent
<1>7. Held' = [Held EXCEPT ![w] = Head(pool)] /\ Held[w] = <<>>
  <2>1. Held[w] = <<>>
    BY <1>1 DEF IInv, IdleInv, Held
  <2>2. \A v \in Workers : work'[v].pkgs = IF v = w THEN Head(pool) ELSE work[v].pkgs
    BY <1>1, <1>3
  <2> QED BY <2>1, <2>2 DEF Held
<1>8. /\ Apart(pool') /\ Once(Head(pool))
      /\ Members(pool) = Members(pool') \cup Elements(Head(pool))
      /\ Disjoint(Members(pool'), Elements(Head(pool)))
  BY <1>1, <1>3, ApartTail DEF IInv, OnceInv
<1>9. Apart(Held') /\ Members(Held') = Members(Held) \cup Elements(Head(pool))
  <2>1. Disjoint(Members(Held), Elements(Head(pool)))
    BY <1>8 DEF IInv, PlaceInv, Disjoint
  <2>2. Held \in [Workers -> Seq(Requests)] /\ Apart(Held)
    BY PlaceTypes DEF IInv, OnceInv
  <2> QED BY <1>3, <1>7, <1>8, <2>1, <2>2, ApartPut
<1>10. StreamInv' /\ HeldInv'
  BY <1>2, <1>6 DEF IInv, StreamInv, HeldInv
<1>11. OnceInv'
  BY <1>2, <1>6, <1>8, <1>9 DEF IInv, OnceInv
<1>12. PlaceInv'
  BY <1>2, <1>6, <1>8, <1>9 DEF IInv, PlaceInv, Disjoint
<1>13. ExecInv'
  BY <1>2, <1>6, <1>8, <1>9 DEF IInv, ExecInv
<1>14. CodeInv'
  BY <1>2, <1>6 DEF IInv, CodeInv, Truthful
<1>15. LossInv'
  BY <1>2, <1>6, <1>8, <1>9 DEF IInv, LossInv
<1> QED BY <1>4, <1>5, <1>10, <1>11, <1>12, <1>13, <1>14, <1>15 DEF IInv

\* A worker runs the methods of its batch and queues the replies, or, if the
\* connection is closed, drops them.
LEMMA WorkerOnMassageIInv == ASSUME IInv, NEW w \in Workers, WorkerOnMassage(w) PROVE IInv'
<1> USE DEF mainVars, connVars, loopVars, netVars
<1> DEFINE pkgs == Held[w]
<1>1. /\ work \in [Workers -> [at : {"idle", "dispatch", "release"}, pkgs : Seq(Requests)]]
      /\ Held \in [Workers -> Seq(Requests)] /\ pkgs \in Seq(Requests) /\ pkgs = work[w].pkgs
      /\ taskqueue_ \in Seq(Seq(Reply)) /\ executed \in [Requests -> Nat]
  BY PlaceTypes DEF IInv, Types, Held
<1>2. PICK replies \in OnMassage(pkgs) :
        taskqueue_' = IF disConnect THEN taskqueue_ ELSE Append(taskqueue_, replies)
  BY <1>1 DEF WorkerOnMassage
<1>3. Execute(pkgs) /\ work' = [work EXCEPT ![w] = [at |-> "release", pkgs |-> <<>>]]
  BY <1>1 DEF WorkerOnMassage
<1>4. UNCHANGED <<inputbuffer_, c2s, pool, outputbuffer_, s2c, received, sent,
                  client, disConnect, conns_, mpc, lpc>>
  BY DEF WorkerOnMassage
<1>5. Held' = [Held EXCEPT ![w] = <<>>]
  <2>1. \A v \in Workers : work'[v].pkgs = IF v = w THEN <<>> ELSE work[v].pkgs
    BY <1>1, <1>3
  <2> QED BY <2>1 DEF Held
<1> HIDE DEF pkgs
<1>6. /\ Apart(Held') /\ Once(pkgs) /\ Members(Held) = Members(Held') \cup Elements(pkgs)
      /\ Disjoint(Members(Held'), Elements(pkgs))
  BY <1>1, <1>5, ApartClear DEF IInv, OnceInv, pkgs
<1>7. /\ replies \in Seq(Reply) /\ Who(replies) = pkgs
  BY <1>1, <1>2, OnMassageReplies
<1>8. \A r \in Elements(pkgs) : r \in Requests /\ executed[r] = 0
  <2>1. Elements(pkgs) \subseteq Requests
    BY <1>1 DEF Elements
  <2> QED BY <1>6, <2>1 DEF IInv, ExecInv
<1>9. /\ executed' \in [Requests -> Nat]
      /\ \A r \in Requests \ Elements(pkgs) : executed'[r] = executed[r]
      /\ \A r \in Elements(pkgs) : executed'[r] <= 1
      /\ \A x \in Elements(replies) : Truthful(x)'
  BY <1>1, <1>2, <1>3, <1>8, Executes
<1>10. Types'
  <2>1. work' \in [Workers -> [at : {"idle", "dispatch", "release"}, pkgs : Seq(Requests)]]
    <3>1. <<>> \in Seq(Requests)
      OBVIOUS
    <3> QED BY <1>1, <1>3, <3>1
  <2>2. taskqueue_' \in Seq(Seq(Reply))
    BY <1>1, <1>2, <1>7, AppendElements
  <2> QED BY <1>4, <1>9, <2>1, <2>2 DEF IInv, Types
<1>11. IdleInv'
  BY <1>1, <1>3 DEF IInv, IdleInv
<1>12. Stream' = Stream /\ Replies' = Replies /\ Unsent' = Unsent
  BY <1>4 DEF Stream, Replies, Unsent
<1>13. /\ Apart(Asked(taskqueue_'))
       /\ Members(Asked(taskqueue_')) \subseteq Members(Asked(taskqueue_)) \cup Elements(pkgs)
       /\ ~disConnect => Members(Asked(taskqueue_')) = Members(Asked(taskqueue_)) \cup Elements(pkgs)
       /\ Members(taskqueue_') \subseteq Members(taskqueue_) \cup Elements(replies)
  <2>1. CASE disConnect
    BY <1>2, <2>1 DEF IInv, OnceInv
  <2>2. CASE ~disConnect
    <3>1. taskqueue_' = Append(taskqueue_, replies)
      BY <1>2, <2>2
    <3>2. Asked(taskqueue_') = Append(Asked(taskqueue_), pkgs)
      BY <1>1, <1>7, <3>1, AskedQueue
    <3>3. Disjoint(Members(Asked(taskqueue_)), Elements(pkgs))
      BY <1>6 DEF IInv, PlaceInv, Disjoint
    <3>4. Asked(taskqueue_) \in Seq(Seq(Requests)) /\ Apart(Asked(taskqueue_))
      BY PlaceTypes DEF IInv, OnceInv
    <3>5. /\ Apart(Asked(taskqueue_'))
          /\ Members(Asked(taskqueue_')) = Members(Asked(taskqueue_)) \cup Elements(pkgs)
      BY <1>1, <1>6, <3>2, <3>3, <3>4, ApartAppend
    <3>6. Members(taskqueue_') = Members(taskqueue_) \cup Elements(replies)
      BY <1>1, <1>7, <3>1, MembersQueue
    <3> QED BY <3>5, <3>6
  <2> QED BY <2>1, <2>2
<1>14. StreamInv' /\ HeldInv'
  BY <1>4, <1>12 DEF IInv, StreamInv, HeldInv
<1>15. OnceInv'
  BY <1>4, <1>6, <1>12, <1>13 DEF IInv, OnceInv
<1>16. PlaceInv'
  BY <1>4, <1>6, <1>12, <1>13 DEF IInv, PlaceInv, Disjoint
<1>17. ExecInv'
  <2> SUFFICES ASSUME NEW r \in Requests
               PROVE  /\ executed'[r] <= 1
                      /\ r \in Unsent \cup Tails(Stream) \cup Members(pool) \cup Members(Held') => executed'[r] = 0
    BY <1>4, <1>12 DEF ExecInv
  <2>1. CASE r \in Elements(pkgs)
    <3>1. r \notin Unsent \cup Tails(Stream) \cup Members(pool) \cup Members(Held')
      BY <1>6, <2>1 DEF IInv, PlaceInv, Disjoint
    <3> QED BY <1>9, <2>1, <3>1
  <2>2. CASE r \notin Elements(pkgs)
    BY <1>6, <1>9, <2>2 DEF IInv, ExecInv
  <2> QED BY <2>1, <2>2
<1>18. CodeInv'
  <2> SUFFICES ASSUME NEW x \in Members(taskqueue_) \cup Elements(Replies) PROVE Truthful(x)'
    BY <1>9, <1>12, <1>13 DEF CodeInv
  <2>1. x[1] \in Members(Asked(taskqueue_)) \cup Elements(Who(Replies)) /\ x[1] \in Requests
    BY <1>1, PlaceTypes, AskedMembers, WhoMembers DEF IInv
  <2>2. x[1] \notin Elements(pkgs)
    BY <1>6, <2>1 DEF IInv, PlaceInv, Disjoint
  <2>3. executed'[x[1]] = executed[x[1]]
    BY <1>9, <2>1, <2>2
  <2>4. Truthful(x)
    BY DEF IInv, CodeInv
  <2> QED BY <2>3, <2>4 DEF Truthful
<1>19. LossInv'
  BY <1>4, <1>6, <1>12, <1>13 DEF IInv, LossInv
<1> QED BY <1>10, <1>11, <1>14, <1>15, <1>16, <1>17, <1>18, <1>19 DEF IInv

\* decode takes the complete packets from the stream, each once.
LEMMA DecodeStream ==
    ASSUME IInv, inputbuffer_' = Undecoded, UNCHANGED c2s
    PROVE  /\ Decoded \in Seq(Requests) /\ inputbuffer_' \in Seq(Piece) /\ Once(Decoded)
           /\ Paired(Stream') /\ TailsOnce(Stream')
           /\ Tails(Stream) = Tails(Stream') \cup Elements(Decoded)
           /\ Disjoint(Tails(Stream'), Elements(Decoded))
           /\ \A r \in Requests : EndsIn(Stream', r) <=> EndsIn(Stream, r)
<1> DEFINE n == Complete
           u == Undecoded
           b == Decoded
           m == Len(inputbuffer_)
<1>1. inputbuffer_ \in Seq(Piece) /\ c2s \in Seq(Piece) /\ m \in Nat /\ Len(c2s) \in Nat
  BY DEF IInv, Types
<1>2. n \in Nat /\ 2 * n <= m
  BY <1>1, Half DEF Complete
<1>3. /\ u \in Seq(Piece) /\ Len(u) = m - 2 * n
      /\ \A i \in 1..m - 2 * n : u[i] = inputbuffer_[2 * n + i]
  <2>1. 2 * n \in 0..m
    BY <1>1, <1>2
  <2> HIDE DEF n
  <2>2. u = SubSeq(inputbuffer_, 2 * n + 1, Len(inputbuffer_))
    BY DEF Undecoded, n
  <2> QED BY <1>1, <2>1, <2>2, SplitJoins
<1>4. \A i \in 1..n : 2 * i - 1 \in 1..m /\ inputbuffer_[2 * i - 1][1] \in Requests
  <2> TAKE i \in 1..n
  <2>1. 2 * i - 1 \in 1..m
    BY <1>1, <1>2
  <2> QED BY <1>1, <2>1 DEF Piece
<1>5. b \in Seq(Requests) /\ Len(b) = n /\ \A i \in 1..n : b[i] = inputbuffer_[2 * i - 1][1]
  BY <1>2, <1>4 DEF Decoded
<1>6. /\ Stream \in Seq(Piece) /\ Len(Stream) = m + Len(c2s)
      /\ \A i \in 1..m : Stream[i] = inputbuffer_[i]
      /\ \A i \in 1..Len(c2s) : Stream[m + i] = c2s[i]
  BY PlaceTypes DEF IInv
<1> HIDE DEF n, u, b, m
<1> DEFINE t == u \o c2s
<1>7. /\ t \in Seq(Piece) /\ Len(t) = Len(u) + Len(c2s)
      /\ \A i \in 1..Len(u) : t[i] = u[i]
      /\ \A i \in 1..Len(c2s) : t[Len(u) + i] = c2s[i]
  <2>1. u \in Seq(Piece) /\ c2s \in Seq(Piece)
    BY <1>1, <1>3
  <2> QED BY <2>1, ConcatElements
<1> HIDE DEF t
<1>8. Stream' = t
  BY DEF Stream, t, u
<1>9. Len(t) = Len(Stream) - 2 * n /\ 2 * n <= Len(Stream)
  BY <1>1, <1>2, <1>3, <1>6, <1>7
<1>10. \A i \in 1..Len(t) : t[i] = Stream[2 * n + i]
  <2> TAKE i \in 1..Len(t)
  <2>1. CASE i <= m - 2 * n
    <3>1. i \in 1..Len(u) /\ 2 * n + i \in 1..m
      BY <1>1, <1>2, <1>3, <2>1
    <3> QED BY <1>3, <1>6, <1>7, <3>1
  <2>2. CASE i > m - 2 * n
    <3> DEFINE k == i - (m - 2 * n)
    <3>1. k \in 1..Len(c2s) /\ Len(u) + k = i /\ m + k = 2 * n + i
      BY <1>1, <1>2, <1>3, <1>7, <2>2
    <3> HIDE DEF k
    <3>2. t[Len(u) + k] = c2s[k] /\ Stream[m + k] = c2s[k]
      BY <1>6, <1>7, <3>1
    <3> QED BY <3>1, <3>2
  <2> QED BY <1>1, <1>2, <2>1, <2>2
<1>11. \A i \in 1..n : b[i] = Stream[2 * i - 1][1]
  BY <1>4, <1>5, <1>6
<1>12. /\ Paired(t) /\ TailsOnce(t) /\ Once(b)
       /\ Tails(Stream) = Tails(t) \cup Elements(b)
       /\ Disjoint(Tails(t), Elements(b))
       /\ \A r \in Requests : EndsIn(t, r) <=> EndsIn(Stream, r)
  <2>1. Paired(Stream) /\ TailsOnce(Stream)
    BY DEF IInv, StreamInv
  <2>2. Decodes(Stream, b, t)
    BY <1>5, <1>9, <1>10, <1>11 DEF Decodes
  <2> QED BY <1>5, <1>6, <1>7, <2>1, <2>2, PairedDrop
<1> QED BY <1>3, <1>5, <1>8, <1>12 DEF u, b

\* What was decoded is handed to the pool as a batch.
LEMMA ParseMsgIInv == ASSUME IInv, ParseMsg PROVE IInv'
<1> USE DEF mainVars, netVars
<1>1. /\ inputbuffer_' = Undecoded /\ pool' = Append(pool, Decoded) /\ lpc' = "wait"
      /\ UNCHANGED <<c2s, work, taskqueue_, outputbuffer_, s2c, received, executed, sent,
                     client, disConnect, conns_, mpc>>
  BY DEF ParseMsg, HandsOn
<1>2. /\ Decoded \in Seq(Requests) /\ inputbuffer_' \in Seq(Piece) /\ Once(Decoded)
      /\ Paired(Stream') /\ TailsOnce(Stream')
      /\ Tails(Stream) = Tails(Stream') \cup Elements(Decoded)
      /\ Disjoint(Tails(Stream'), Elements(Decoded))
      /\ \A r \in Requests : EndsIn(Stream', r) <=> EndsIn(Stream, r)
  BY <1>1, DecodeStream
<1>3. pool \in Seq(Seq(Requests)) /\ pool' \in Seq(Seq(Requests))
  BY <1>1, <1>2, AppendElements DEF IInv, Types
<1>4. Apart(pool') /\ Members(pool') = Members(pool) \cup Elements(Decoded)
  <2>1. Disjoint(Members(pool), Elements(Decoded))
    BY <1>2 DEF IInv, PlaceInv, Disjoint
  <2> QED BY <1>1, <1>2, <1>3, <2>1, ApartAppend DEF IInv, OnceInv
<1>5. Types' /\ IdleInv'
  BY <1>1, <1>2, <1>3 DEF IInv, Types, IdleInv
<1>6. Replies' = Replies /\ Held' = Held /\ Unsent' = Unsent
  BY <1>1 DEF Replies, Held, Unsent
<1>7. StreamInv' /\ HeldInv'
  BY <1>1, <1>2 DEF IInv, StreamInv, HeldInv
<1>8. OnceInv'
  BY <1>1, <1>4, <1>6 DEF IInv, OnceInv
<1>9. PlaceInv'
  BY <1>1, <1>2, <1>4, <1>6 DEF IInv, PlaceInv, Disjoint
<1>10. ExecInv'
  BY <1>1, <1>2, <1>4, <1>6 DEF IInv, ExecInv
<1>11. CodeInv'
  BY <1>1, <1>6 DEF IInv, CodeInv, Truthful
<1>12. LossInv'
  BY <1>1, <1>2, <1>4, <1>6 DEF IInv, LossInv
<1> QED BY <1>5, <1>7, <1>8, <1>9, <1>10, <1>11, <1>12 DEF IInv

\* regSend encodes replies to requests that have no reply yet.
LEMMA Encodes ==
    ASSUME IInv, NEW b \in Seq(Reply), outputbuffer_' = outputbuffer_ \o b, UNCHANGED <<received, s2c>>,
           Once(Who(b)), Disjoint(Elements(Who(Replies)), Elements(Who(b)))
    PROVE  /\ outputbuffer_' \in Seq(Reply) /\ Once(Who(Replies'))
           /\ Elements(Who(Replies')) = Elements(Who(Replies)) \cup Elements(Who(b))
           /\ Elements(Replies') = Elements(Replies) \cup Elements(b)
<1>1. received \in Seq(Reply) /\ s2c \in Seq(Reply) /\ outputbuffer_ \in Seq(Reply)
  BY DEF IInv, Types
<1>2. Replies' = Replies \o b
  <2>1. received \o s2c \in Seq(Reply)
    BY <1>1, ConcatElements
  <2>2. ((received \o s2c) \o outputbuffer_) \o b = (received \o s2c) \o (outputbuffer_ \o b)
    BY <1>1, <2>1, RepliesAssociate, Zenon
  <2>3. Replies' = (received \o s2c) \o (outputbuffer_ \o b)
    BY DEF Replies
  <2> QED BY <2>2, <2>3 DEF Replies
<1>3. Replies \in Seq(Reply) /\ Once(Who(Replies))
  BY PlaceTypes DEF IInv, OnceInv
<1>4. outputbuffer_' \in Seq(Reply)
  BY <1>1, ConcatElements
<1>5. Elements(Replies') = Elements(Replies) \cup Elements(b)
  BY <1>2, <1>3, ElementsConcat
<1>6. Once(Who(Replies')) /\ Elements(Who(Replies')) = Elements(Who(Replies)) \cup Elements(Who(b))
  BY <1>2, <1>3, OnceConcat
<1> QED BY <1>4, <1>5, <1>6

\* Without workers the loop runs the methods of what was decoded and encodes
\* the replies, or, if the connection is closed, drops them.
LEMMA ParseMsgInlineIInv == ASSUME IInv, ParseMsgInline PROVE IInv'
<1> USE DEF mainVars, netVars
<1>1. /\ inputbuffer_' = Undecoded /\ Execute(Decoded) /\ lpc' = "wait"
      /\ UNCHANGED <<c2s, pool, work, taskqueue_, s2c, received, sent, client, disConnect, conns_, mpc>>
  BY DEF ParseMsgInline
<1>2. /\ Decoded \in Seq(Requests) /\ inputbuffer_' \in Seq(Piece) /\ Once(Decoded)
      /\ Paired(Stream') /\ TailsOnce(Stream')
      /\ Tails(Stream) = Tails(Stream') \cup Elements(Decoded)
      /\ Disjoint(Tails(Stream'), Elements(Decoded))
      /\ \A r \in Requests : EndsIn(Stream', r) <=> EndsIn(Stream, r)
  BY <1>1, DecodeStream
<1>3. \A r \in Elements(Decoded) : r \in Requests /\ executed[r] = 0
  <2>1. Elements(Decoded) \subseteq Requests
    BY <1>2 DEF Elements
  <2> QED BY <1>2, <2>1 DEF IInv, ExecInv
<1>4. executed \in [Requests -> Nat] /\ taskqueue_ \in Seq(Seq(Reply)) /\ Replies \in Seq(Reply)
  BY PlaceTypes DEF IInv, Types
<1>5. /\ executed' \in [Requests -> Nat]
      /\ \A r \in Requests \ Elements(Decoded) : executed'[r] = executed[r]
      /\ \A r \in Elements(Decoded) : executed'[r] <= 1
      /\ \A replies \in OnMassage(Decoded) : \A x \in Elements(replies) : Truthful(x)'
  BY <1>1, <1>2, <1>3, <1>4, Executes
<1>6. /\ outputbuffer_' \in Seq(Reply) /\ Once(Who(Replies'))
      /\ Elements(Who(Replies')) \subseteq Elements(Who(Replies)) \cup Elements(Decoded)
      /\ ~disConnect => Elements(Who(Replies')) = Elements(Who(Replies)) \cup Elements(Decoded)
      /\ \A x \in Elements(Replies') : x \in Elements(Replies) \/ Truthful(x)'
  <2>1. CASE disConnect
    <3>1. outputbuffer_' = outputbuffer_
      BY <2>1 DEF ParseMsgInline
    <3>2. Replies' = Replies
      BY <1>1, <3>1 DEF Replies
    <3> QED BY <2>1, <3>1, <3>2 DEF IInv, Types, OnceInv
  <2>2. CASE ~disConnect
    <3>1. PICK replies \in OnMassage(Decoded) : outputbuffer_' = outputbuffer_ \o replies
      BY <2>2 DEF ParseMsgInline
    <3>2. replies \in Seq(Reply) /\ Who(replies) = Decoded
      BY <1>2, <3>1, OnMassageReplies
    <3>3. Disjoint(Elements(Who(Replies)), Elements(Decoded))
      BY <1>2 DEF IInv, PlaceInv, Disjoint
    <3>4. /\ outputbuffer_' \in Seq(Reply) /\ Once(Who(Replies'))
          /\ Elements(Who(Replies')) = Elements(Who(Replies)) \cup Elements(Decoded)
          /\ Elements(Replies') = Elements(Replies) \cup Elements(replies)
      BY <1>1, <1>2, <3>1, <3>2, <3>3, Encodes
    <3> QED BY <1>5, <3>1, <3>4
  <2> QED BY <2>1, <2>2
<1>7. Types' /\ IdleInv'
  BY <1>1, <1>2, <1>5, <1>6 DEF IInv, Types, IdleInv
<1>8. Held' = Held /\ Unsent' = Unsent
  BY <1>1 DEF Held, Unsent
<1>9. StreamInv' /\ HeldInv'
  BY <1>1, <1>2 DEF IInv, StreamInv, HeldInv
<1>10. OnceInv'
  BY <1>1, <1>6, <1>8 DEF IInv, OnceInv
<1>11. PlaceInv'
  BY <1>1, <1>2, <1>6, <1>8 DEF IInv, PlaceInv, Disjoint
<1>12. ExecInv'
  <2> SUFFICES ASSUME NEW r \in Requests
               PROVE  /\ executed'[r] <= 1
                      /\ r \in Unsent \cup Tails(Stream') \cup Members(pool) \cup Members(Held) => executed'[r] = 0
    BY <1>1, <1>8 DEF ExecInv
  <2>1. CASE r \in Elements(Decoded)
    <3>1. r \notin Unsent \cup Tails(Stream') \cup Members(pool) \cup Members(Held)
      BY <1>2, <2>1 DEF IInv, PlaceInv, Disjoint
    <3> QED BY <1>5, <2>1, <3>1
  <2>2. CASE r \notin Elements(Decoded)
    BY <1>2, <1>5, <2>2 DEF IInv, ExecInv
  <2> QED BY <2>1, <2>2
<1>13. CodeInv'
  <2> SUFFICES ASSUME NEW x \in Members(taskqueue_) \cup Elements(Replies) PROVE Truthful(x)'
    BY <1>1, <1>6 DEF CodeInv
  <2>1. x[1] \in Members(Asked(taskqueue_)) \cup Elements(Who(Replies)) /\ x[1] \in Requests
    BY <1>4, AskedMembers, WhoMembers
  <2>2. x[1] \notin Elements(Decoded)
    BY <1>2, <2>1 DEF IInv, PlaceInv, Disjoint
  <2>3. executed'[x[1]] = executed[x[1]]
    BY <1>5, <2>1, <2>2
  <2>4. Truthful(x)
    BY DEF IInv, CodeInv
  <2> QED BY <2>3, <2>4 DEF Truthful
<1>14. LossInv'
  BY <1>1, <1>2, <1>6, <1>8 DEF IInv, LossInv
<1> QED BY <1>7, <1>9, <1>10, <1>11, <1>12, <1>13, <1>14 DEF IInv

\* The loop runs the first task of its queue: its replies are encoded, or, if
\* the connection is closed, dropped.
LEMMA RegSendIInv == ASSUME IInv, RegSend \/ RegSendDestroyed PROVE IInv'
<1> USE DEF mainVars, loopVars, netVars, connVars
<1>1. CASE RegSendDestroyed /\ Dies("freed")
  <2>1. UNCHANGED dataVars /\ HeldInv'
    BY <1>1 DEF Dies, dataVars, workVars, IInv, HeldInv
  <2> QED BY <2>1, DataStays
<1>2. CASE RegSend \/ (RegSendDestroyed /\ ~Dies("freed"))
  <2> DEFINE b == Head(taskqueue_)
  <2>1. /\ taskqueue_ # <<>> /\ taskqueue_' = Tail(taskqueue_)
        /\ UNCHANGED <<inputbuffer_, c2s, pool, work, s2c, received, executed, sent,
                       client, disConnect, conns_, mpc, lpc>>
    BY <1>2 DEF RegSend, RegSendDestroyed
  <2>2. outputbuffer_' = IF disConnect THEN outputbuffer_ ELSE outputbuffer_ \o b
    <3>1. CASE RegSend
      BY <3>1 DEF RegSend
    <3>2. CASE RegSendDestroyed /\ ~Dies("freed")
      <4>1. disConnect
        BY <3>2 DEF RegSendDestroyed, IInv, HeldInv, Alive, HeldBy
      <4> QED BY <3>2, <4>1 DEF RegSendDestroyed
    <3> QED BY <1>2, <3>1, <3>2
  <2>3. /\ taskqueue_ \in Seq(Seq(Reply)) /\ b \in Seq(Reply) /\ taskqueue_' \in Seq(Seq(Reply))
        /\ outputbuffer_ \in Seq(Reply)
    BY <2>1, TailElements DEF IInv, Types
  <2> HIDE DEF b
  <2>4. Members(taskqueue_) = Members(taskqueue_') \cup Elements(b)
    BY <2>1, <2>3, MembersQueue DEF b
  <2>5. /\ Asked(taskqueue_) # <<>> /\ Asked(taskqueue_') = Tail(Asked(taskqueue_))
        /\ Head(Asked(taskqueue_)) = Who(b)
    BY <2>1, <2>3, AskedQueue DEF b
  <2>6. /\ Apart(Asked(taskqueue_')) /\ Once(Who(b))
        /\ Members(Asked(taskqueue_)) = Members(Asked(taskqueue_')) \cup Elements(Who(b))
        /\ Disjoint(Members(Asked(taskqueue_')), Elements(Who(b)))
    <3>1. Asked(taskqueue_) \in Seq(Seq(Requests)) /\ Apart(Asked(taskqueue_))
      BY PlaceTypes DEF IInv, OnceInv
    <3> QED BY <2>5, <3>1, ApartTail
  <2>7. /\ outputbuffer_' \in Seq(Reply) /\ Once(Who(Replies'))
        /\ Elements(Who(Replies')) \subseteq Elements(Who(Replies)) \cup Elements(Who(b))
        /\ ~disConnect => Elements(Who(Replies')) = Elements(Who(Replies)) \cup Elements(Who(b))
        /\ Elements(Replies') \subseteq Elements(Replies) \cup Elements(b)
    <3>1. CASE disConnect
      <4>1. outputbuffer_' = outputbuffer_ /\ Replies' = Replies
        BY <2>1, <2>2, <3>1 DEF Replies
      <4> QED BY <2>3, <3>1, <4>1 DEF IInv, OnceInv
    <3>2. CASE ~disConnect
      <4>1. Disjoint(Elements(Who(Replies)), Elements(Who(b)))
        BY <2>6 DEF IInv, PlaceInv, Disjoint
      <4> QED BY <2>1, <2>2, <2>3, <2>6, <3>2, <4>1, Encodes
    <3> QED BY <3>1, <3>2
  <2>8. Types' /\ IdleInv'
    BY <2>1, <2>3, <2>7 DEF IInv, Types, IdleInv
  <2>9. Stream' = Stream /\ Held' = Held /\ Unsent' = Unsent
    BY <2>1 DEF Stream, Held, Unsent
  <2>10. StreamInv' /\ HeldInv' /\ ExecInv'
    BY <2>1, <2>9 DEF IInv, StreamInv, HeldInv, ExecInv
  <2>11. OnceInv'
    BY <2>1, <2>6, <2>7, <2>9 DEF IInv, OnceInv
  <2>12. PlaceInv'
    BY <2>1, <2>6, <2>7, <2>9 DEF IInv, PlaceInv, Disjoint
  <2>13. CodeInv'
    <3>1. \A x \in Members(taskqueue_') \cup Elements(Replies') : x \in Members(taskqueue_) \cup Elements(Replies)
      BY <2>4, <2>7
    <3> QED BY <2>1, <3>1 DEF IInv, CodeInv, Truthful
  <2>14. LossInv'
    BY <2>1, <2>6, <2>7, <2>9 DEF IInv, LossInv
  <2> QED BY <2>8, <2>10, <2>11, <2>12, <2>13, <2>14 DEF IInv
<1> QED BY <1>1, <1>2

\* The invariant is inductive.
LEMMA StepIInv == ASSUME IInv, [Next]_vars PROVE IInv'
<1>1. CASE AcceptStep \/ SweepStep \/ (\E t \in Threads : InChannel(t)) \/ Quiescent \/ UNCHANGED vars
  BY <1>1, MainIInv
<1>2. ASSUME NEW w \in Workers, WorkerStep(w) PROVE IInv'
  BY <1>2, WorkerTakeIInv, WorkerOnMassageIInv, QuietIInv DEF WorkerStep
<1>3. CASE ServeStep
  BY <1>3, ReadIInv, ParseMsgIInv, ParseMsgInlineIInv, WriteIInv, RegSendIInv, QuietIInv DEF ServeStep
<1>4. CASE ClientStep
  BY <1>4, ClientSendIInv, ClientReadIInv, ClientResetIInv, QuietIInv DEF ClientStep
<1> QED BY <1>1, <1>2, <1>3, <1>4 DEF Next

\* The invariant holds in every state that the server can reach.
LEMMA ServerIInv == Spec => []IInv
<1>1. Init => IInv
  BY InitIInv
<1>2. IInv /\ [Next]_vars => IInv'
  BY StepIInv
<1> QED BY <1>1, <1>2, PTL DEF Spec

-----------------------------------------------------------------------------
(* From the invariant to the properties *)

\* The places of a request in the stream, and those of its reply.
StreamPlaces(r) == ({"c2s"} \X In(c2s, <<r, "tail">>)) \cup ({"input"} \X In(inputbuffer_, <<r, "tail">>))

ReplyPlaces(r) ==
    ({"received"} \X InReplies(received, r)) \cup ({"s2c"} \X InReplies(s2c, r))
    \cup ({"output"} \X InReplies(outputbuffer_, r))

\* A set of places P is empty, or one place for what is in A.
Single(P, r, A) == (P # {} <=> r \in A) /\ \A x, y \in P : x = y

\* The last piece of a request is once in the stream.
LEMMA StreamSingle ==
    ASSUME IInv, NEW r \in Requests PROVE Single(StreamPlaces(r), r, Tails(Stream))
<1> DEFINE m == Len(inputbuffer_)
           tail == <<r, "tail">>
           at == {k \in 1..Len(Stream) : Stream[k] = tail}
<1>1. /\ inputbuffer_ \in Seq(Piece) /\ c2s \in Seq(Piece) /\ m \in Nat /\ Len(c2s) \in Nat
      /\ Len(Stream) = m + Len(c2s)
      /\ \A i \in 1..m : Stream[i] = inputbuffer_[i]
      /\ \A i \in 1..Len(c2s) : Stream[m + i] = c2s[i]
  <2>1. inputbuffer_ \in Seq(Piece) /\ c2s \in Seq(Piece)
    BY DEF IInv, Types
  <2>2. m \in Nat /\ Len(c2s) \in Nat
    BY <2>1
  <2>3. /\ Len(Stream) = m + Len(c2s)
        /\ \A i \in 1..m : Stream[i] = inputbuffer_[i]
        /\ \A i \in 1..Len(c2s) : Stream[m + i] = c2s[i]
    BY PlaceTypes DEF IInv
  <2> QED BY <2>1, <2>2, <2>3
<1>2. \A i, j \in at : i = j
  BY DEF IInv, StreamInv, TailsOnce
<1>3. r \in Tails(Stream) <=> at # {}
  BY DEF Tails
<1> HIDE DEF m, tail
<1>4. ASSUME NEW x \in StreamPlaces(r)
      PROVE  \/ x[1] = "input" /\ x = <<"input", x[2]>> /\ x[2] \in 1..m /\ x[2] \in at
             \/ x[1] = "c2s" /\ x = <<"c2s", x[2]>> /\ x[2] \in 1..Len(c2s) /\ m + x[2] \in at
  <2>1. \/ x[1] = "input" /\ x = <<"input", x[2]>> /\ x[2] \in In(inputbuffer_, tail)
        \/ x[1] = "c2s" /\ x = <<"c2s", x[2]>> /\ x[2] \in In(c2s, tail)
    BY <1>4 DEF StreamPlaces, tail
  <2>2. x[2] \in In(inputbuffer_, tail) => x[2] \in 1..m /\ x[2] \in at
    BY <1>1 DEF In, m
  <2>3. x[2] \in In(c2s, tail) => x[2] \in 1..Len(c2s) /\ m + x[2] \in at
    BY <1>1 DEF In
  <2> QED BY <2>1, <2>2, <2>3
<1>5. ASSUME NEW k \in at PROVE StreamPlaces(r) # {}
  <2>1. CASE k <= m
    <3>1. k \in In(inputbuffer_, tail)
      BY <1>1, <2>1 DEF In, m
    <3>2. <<"input", k>> \in StreamPlaces(r)
      BY <3>1 DEF StreamPlaces, tail
    <3> QED BY <3>2
  <2>2. CASE k > m
    <3>1. k - m \in 1..Len(c2s) /\ m + (k - m) = k
      BY <1>1, <2>2
    <3>2. k - m \in In(c2s, tail)
      BY <1>1, <3>1 DEF In
    <3>3. <<"c2s", k - m>> \in StreamPlaces(r)
      BY <3>2 DEF StreamPlaces, tail
    <3> QED BY <3>3
  <2> QED BY <1>1, <2>1, <2>2
<1> HIDE DEF at
<1>6. ASSUME NEW x \in StreamPlaces(r), NEW y \in StreamPlaces(r) PROVE x = y
  <2>1. CASE x[1] = "input" /\ y[1] = "input"
    BY <1>2, <1>4, <2>1
  <2>2. CASE x[1] = "c2s" /\ y[1] = "c2s"
    <3>1. m + x[2] = m + y[2] /\ x[2] \in 1..Len(c2s) /\ y[2] \in 1..Len(c2s)
      BY <1>2, <1>4, <2>2
    <3>2. x[2] = y[2]
      BY <1>1, <3>1
    <3> QED BY <1>4, <2>2, <3>2
  <2>3. CASE x[1] = "input" /\ y[1] = "c2s"
    <3>1. x[2] = m + y[2] /\ x[2] \in 1..m /\ y[2] \in 1..Len(c2s)
      BY <1>2, <1>4, <2>3
    <3> QED BY <1>1, <3>1
  <2>4. CASE x[1] = "c2s" /\ y[1] = "input"
    <3>1. y[2] = m + x[2] /\ y[2] \in 1..m /\ x[2] \in 1..Len(c2s)
      BY <1>2, <1>4, <2>4
    <3> QED BY <1>1, <3>1
  <2> QED BY <1>4, <2>1, <2>2, <2>3, <2>4
<1> QED BY <1>3, <1>4, <1>5, <1>6 DEF Single

\* A request is once in the batches that wait in the pool, ...
LEMMA PoolSingle ==
    ASSUME IInv, NEW r \in Requests PROVE Single(PoolPlaces(r), r, Members(pool))
<1>1. DOMAIN pool = 1..Len(pool) /\ Apart(pool)
  BY DEF IInv, Types, OnceInv
<1>2. ASSUME NEW x \in PoolPlaces(r)
      PROVE  \E i \in DOMAIN pool : \E j \in 1..Len(pool[i]) : x = <<"pool", <<i, j>>>> /\ pool[i][j] = r
  BY <1>1, <1>2 DEF PoolPlaces, In
<1>3. ASSUME NEW i \in DOMAIN pool, NEW j \in 1..Len(pool[i]), pool[i][j] = r
      PROVE  PoolPlaces(r) # {}
  <2>1. j \in In(pool[i], r)
    BY <1>3 DEF In
  <2>2. <<"pool", <<i, j>>>> \in PoolPlaces(r)
    BY <1>1, <2>1 DEF PoolPlaces
  <2> QED BY <2>2
<1>4. r \in Members(pool) <=> \E i \in DOMAIN pool : \E j \in 1..Len(pool[i]) : pool[i][j] = r
  BY DEF Members, Elements
<1>5. ASSUME NEW x \in PoolPlaces(r), NEW y \in PoolPlaces(r) PROVE x = y
  <2>1. PICK i \in DOMAIN pool : \E j \in 1..Len(pool[i]) : x = <<"pool", <<i, j>>>> /\ pool[i][j] = r
    BY <1>2
  <2>2. PICK j \in 1..Len(pool[i]) : x = <<"pool", <<i, j>>>> /\ pool[i][j] = r
    BY <2>1
  <2>3. PICK k \in DOMAIN pool : \E l \in 1..Len(pool[k]) : y = <<"pool", <<k, l>>>> /\ pool[k][l] = r
    BY <1>2
  <2>4. PICK l \in 1..Len(pool[k]) : y = <<"pool", <<k, l>>>> /\ pool[k][l] = r
    BY <2>3
  <2>5. i = k /\ j = l
    BY <1>1, <2>2, <2>4 DEF Apart
  <2> QED BY <2>2, <2>4, <2>5
<1> QED BY <1>2, <1>3, <1>4, <1>5 DEF Single

\* ... once in those at the workers ...
LEMMA WorkSingle ==
    ASSUME IInv, NEW r \in Requests PROVE Single(WorkPlaces(r), r, Members(Held))
<1>1. DOMAIN Held = Workers /\ Apart(Held) /\ \A w \in Workers : Held[w] = work[w].pkgs
  BY DEF IInv, OnceInv, Held
<1>2. ASSUME NEW x \in WorkPlaces(r)
      PROVE  \E w \in Workers : \E j \in 1..Len(Held[w]) : x = <<w, j>> /\ Held[w][j] = r
  BY <1>1, <1>2 DEF WorkPlaces, In
<1>3. ASSUME NEW w \in Workers, NEW j \in 1..Len(Held[w]), Held[w][j] = r
      PROVE  WorkPlaces(r) # {}
  <2>1. j \in In(work[w].pkgs, r)
    BY <1>1, <1>3 DEF In
  <2>2. <<w, j>> \in WorkPlaces(r)
    BY <2>1 DEF WorkPlaces
  <2> QED BY <2>2
<1>4. r \in Members(Held) <=> \E w \in Workers : \E j \in 1..Len(Held[w]) : Held[w][j] = r
  BY <1>1 DEF Members, Elements
<1>5. ASSUME NEW x \in WorkPlaces(r), NEW y \in WorkPlaces(r) PROVE x = y
  <2>1. PICK w \in Workers : \E j \in 1..Len(Held[w]) : x = <<w, j>> /\ Held[w][j] = r
    BY <1>2
  <2>2. PICK j \in 1..Len(Held[w]) : x = <<w, j>> /\ Held[w][j] = r
    BY <2>1
  <2>3. PICK v \in Workers : \E l \in 1..Len(Held[v]) : y = <<v, l>> /\ Held[v][l] = r
    BY <1>2
  <2>4. PICK l \in 1..Len(Held[v]) : y = <<v, l>> /\ Held[v][l] = r
    BY <2>3
  <2>5. w = v /\ j = l
    BY <1>1, <2>2, <2>4 DEF Apart
  <2> QED BY <2>2, <2>4, <2>5
<1> QED BY <1>2, <1>3, <1>4, <1>5 DEF Single

\* ... and answered once by the tasks of the loop.
LEMMA TaskSingle ==
    ASSUME IInv, NEW r \in Requests PROVE Single(TaskPlaces(r), r, Members(Asked(taskqueue_)))
<1> DEFINE q == Asked(taskqueue_)
<1>1. taskqueue_ \in Seq(Seq(Reply)) /\ Apart(q)
  BY DEF IInv, Types, OnceInv
<1>2. DOMAIN q = 1..Len(taskqueue_)
  BY DEF Asked
<1>3. \A i \in DOMAIN q : InReplies(taskqueue_[i], r) = {j \in 1..Len(q[i]) : q[i][j] = r}
  <2> TAKE i \in DOMAIN q
  <2>1. q[i] = Who(taskqueue_[i]) /\ taskqueue_[i] \in Seq(Reply)
    BY <1>1, <1>2, AskedElements
  <2>2. Len(q[i]) = Len(taskqueue_[i]) /\ \A j \in 1..Len(taskqueue_[i]) : q[i][j] = taskqueue_[i][j][1]
    BY <2>1, WhoElements
  <2> QED BY <2>2 DEF InReplies
<1> HIDE DEF q
<1>4. ASSUME NEW x \in TaskPlaces(r)
      PROVE  \E i \in DOMAIN q : \E j \in 1..Len(q[i]) : x = <<"task", <<i, j>>>> /\ q[i][j] = r
  <2>1. PICK i \in 1..Len(taskqueue_) : \E j \in InReplies(taskqueue_[i], r) : x = <<"task", <<i, j>>>>
    BY <1>4 DEF TaskPlaces
  <2> QED BY <1>2, <1>3, <2>1
<1>5. ASSUME NEW i \in DOMAIN q, NEW j \in 1..Len(q[i]), q[i][j] = r
      PROVE  TaskPlaces(r) # {}
  <2>1. j \in InReplies(taskqueue_[i], r)
    BY <1>3, <1>5
  <2>2. <<"task", <<i, j>>>> \in TaskPlaces(r)
    BY <1>2, <2>1 DEF TaskPlaces
  <2> QED BY <2>2
<1>6. r \in Members(q) <=> \E i \in DOMAIN q : \E j \in 1..Len(q[i]) : q[i][j] = r
  BY DEF Members, Elements
<1>7. ASSUME NEW x \in TaskPlaces(r), NEW y \in TaskPlaces(r) PROVE x = y
  <2>1. PICK i \in DOMAIN q : \E j \in 1..Len(q[i]) : x = <<"task", <<i, j>>>> /\ q[i][j] = r
    BY <1>4
  <2>2. PICK j \in 1..Len(q[i]) : x = <<"task", <<i, j>>>> /\ q[i][j] = r
    BY <2>1
  <2>3. PICK k \in DOMAIN q : \E l \in 1..Len(q[k]) : y = <<"task", <<k, l>>>> /\ q[k][l] = r
    BY <1>4
  <2>4. PICK l \in 1..Len(q[k]) : y = <<"task", <<k, l>>>> /\ q[k][l] = r
    BY <2>3
  <2>5. i = k /\ j = l
    BY <1>1, <2>2, <2>4 DEF Apart
  <2> QED BY <2>2, <2>4, <2>5
<1> QED BY <1>4, <1>5, <1>6, <1>7 DEF Single, q

\* A request has one reply at most, with the client or on the way to it.
LEMMA ReplySingle ==
    ASSUME IInv, NEW r \in Requests PROVE Single(ReplyPlaces(r), r, Elements(Who(Replies)))
<1> DEFINE a == Len(received)
           b == Len(s2c)
           c == Len(outputbuffer_)
           at == {k \in 1..Len(Replies) : Replies[k][1] = r}
<1>1. received \in Seq(Reply) /\ s2c \in Seq(Reply) /\ outputbuffer_ \in Seq(Reply) /\ Replies \in Seq(Reply)
  BY PlaceTypes DEF IInv, Types
<1>2. a \in Nat /\ b \in Nat /\ c \in Nat
  BY <1>1
<1>3. /\ Len(Replies) = a + b + c
      /\ \A i \in 1..a : Replies[i] = received[i]
      /\ \A i \in 1..b : Replies[a + i] = s2c[i]
      /\ \A i \in 1..c : Replies[a + b + i] = outputbuffer_[i]
  <2> DEFINE u == received \o s2c
  <2>1. /\ u \in Seq(Reply) /\ Len(u) = a + b
        /\ \A i \in 1..a : u[i] = received[i]
        /\ \A i \in 1..b : u[a + i] = s2c[i]
    BY <1>1, ConcatElements
  <2> HIDE DEF u
  <2>2. Replies = u \o outputbuffer_
    BY DEF Replies, u
  <2>3. /\ Len(Replies) = Len(u) + c
        /\ \A i \in 1..Len(u) : Replies[i] = u[i]
        /\ \A i \in 1..c : Replies[Len(u) + i] = outputbuffer_[i]
    <3>0. u \in Seq(Reply) /\ outputbuffer_ \in Seq(Reply)
      BY <1>1, <2>1
    <3>1. /\ Len(u \o outputbuffer_) = Len(u) + Len(outputbuffer_)
          /\ \A i \in 1..Len(u) : (u \o outputbuffer_)[i] = u[i]
          /\ \A i \in 1..Len(outputbuffer_) : (u \o outputbuffer_)[Len(u) + i] = outputbuffer_[i]
      BY <3>0, ConcatElements
    <3> QED BY <2>2, <3>1
  <2> HIDE DEF a, b, c
  <2>4. (\A i \in 1..a : i \in 1..Len(u)) /\ (\A i \in 1..b : a + i \in 1..Len(u))
    BY <1>2, <2>1
  <2> QED BY <2>1, <2>3, <2>4
<1>4. /\ \A i, j \in at : i = j
      /\ r \in Elements(Who(Replies)) <=> at # {}
  <2>1. /\ Len(Who(Replies)) = Len(Replies)
        /\ \A i \in 1..Len(Replies) : Who(Replies)[i] = Replies[i][1]
    BY <1>1, WhoElements
  <2>2. Once(Who(Replies))
    BY DEF IInv, OnceInv
  <2> QED BY <2>1, <2>2 DEF Once, Elements
<1>5. ASSUME NEW x \in ReplyPlaces(r)
      PROVE  \/ x[1] = "received" /\ x = <<"received", x[2]>> /\ x[2] \in 1..a /\ x[2] \in at
             \/ x[1] = "s2c" /\ x = <<"s2c", x[2]>> /\ x[2] \in 1..b /\ a + x[2] \in at
             \/ x[1] = "output" /\ x = <<"output", x[2]>> /\ x[2] \in 1..c /\ a + b + x[2] \in at
  <2>1. \/ x[1] = "received" /\ x = <<"received", x[2]>> /\ x[2] \in InReplies(received, r)
        \/ x[1] = "s2c" /\ x = <<"s2c", x[2]>> /\ x[2] \in InReplies(s2c, r)
        \/ x[1] = "output" /\ x = <<"output", x[2]>> /\ x[2] \in InReplies(outputbuffer_, r)
    BY <1>5 DEF ReplyPlaces
  <2>2. ASSUME x[2] \in InReplies(received, r) PROVE x[2] \in 1..a /\ x[2] \in at
    <3>1. x[2] \in 1..a /\ received[x[2]][1] = r
      BY <2>2 DEF InReplies
    <3> HIDE DEF a, b, c
    <3>2. x[2] \in 1..Len(Replies)
      BY <1>2, <1>3, <3>1
    <3> QED BY <1>3, <3>1, <3>2
  <2>3. ASSUME x[2] \in InReplies(s2c, r) PROVE x[2] \in 1..b /\ a + x[2] \in at
    <3>1. x[2] \in 1..b /\ s2c[x[2]][1] = r
      BY <2>3 DEF InReplies
    <3> HIDE DEF a, b, c
    <3>2. a + x[2] \in 1..Len(Replies)
      BY <1>2, <1>3, <3>1
    <3> QED BY <1>3, <3>1, <3>2
  <2>4. ASSUME x[2] \in InReplies(outputbuffer_, r) PROVE x[2] \in 1..c /\ a + b + x[2] \in at
    <3>1. x[2] \in 1..c /\ outputbuffer_[x[2]][1] = r
      BY <2>4 DEF InReplies
    <3> HIDE DEF a, b, c
    <3>2. a + b + x[2] \in 1..Len(Replies)
      BY <1>2, <1>3, <3>1
    <3> QED BY <1>3, <3>1, <3>2
  <2> HIDE DEF a, b, c, at
  <2> QED BY <2>1, <2>2, <2>3, <2>4
<1>6. ASSUME NEW k \in at PROVE ReplyPlaces(r) # {}
  <2>0. k \in 1..Len(Replies) /\ Replies[k][1] = r
    OBVIOUS
  <2>1. CASE k \in 1..a
    <3>1. k \in InReplies(received, r)
      BY <1>3, <2>0, <2>1 DEF InReplies
    <3>2. <<"received", k>> \in ReplyPlaces(r)
      BY <3>1 DEF ReplyPlaces
    <3> QED BY <3>2
  <2>2. CASE k - a \in 1..b /\ a + (k - a) = k
    <3>1. k - a \in InReplies(s2c, r)
      BY <1>3, <2>0, <2>2 DEF InReplies
    <3>2. <<"s2c", k - a>> \in ReplyPlaces(r)
      BY <3>1 DEF ReplyPlaces
    <3> QED BY <3>2
  <2>3. CASE k - (a + b) \in 1..c /\ a + b + (k - (a + b)) = k
    <3>1. k - (a + b) \in InReplies(outputbuffer_, r)
      BY <1>3, <2>0, <2>3 DEF InReplies
    <3>2. <<"output", k - (a + b)>> \in ReplyPlaces(r)
      BY <3>1 DEF ReplyPlaces
    <3> QED BY <3>2
  <2> HIDE DEF a, b, c, at
  <2>4. k \in 1..a + b + c
    BY <1>3, <2>0
  <2>5. \/ k \in 1..a
        \/ k - a \in 1..b /\ a + (k - a) = k
        \/ k - (a + b) \in 1..c /\ a + b + (k - (a + b)) = k
    BY <1>2, <2>4
  <2> QED BY <2>1, <2>2, <2>3, <2>5
<1> HIDE DEF a, b, c, at
<1>7. ASSUME NEW x \in ReplyPlaces(r), NEW y \in ReplyPlaces(r) PROVE x = y
  <2> DEFINE index(p) == IF p[1] = "received" THEN p[2] ELSE IF p[1] = "s2c" THEN a + p[2] ELSE a + b + p[2]
  <2>1. index(x) \in at /\ index(y) \in at
    BY <1>5
  <2>2. index(x) = index(y)
    BY <1>4, <2>1
  <2>3. x[1] = y[1] /\ x[2] = y[2]
    BY <1>2, <1>5, <2>2
  <2> QED BY <1>5, <2>3
<1> QED BY <1>4, <1>5, <1>6, <1>7 DEF Single

\* A set in which everything is equal has one element at most.
LEMMA AtMostOneElement ==
    ASSUME NEW P, \A x, y \in P : x = y
    PROVE  Cardinality(P) <= 1
<1>1. CASE P = {}
  BY <1>1, FS_EmptySet
<1>2. CASE P # {}
  <2>1. PICK x \in P : TRUE
    BY <1>2
  <2>2. P = {x}
    BY <2>1
  <2>3. Cardinality({x}) = 1
    BY FS_Singleton
  <2> QED BY <2>2, <2>3
<1> QED BY <1>1, <1>2

\* The places of a request are one at most, and there is one if it was sent in
\* full and the connection is up.
LEMMA PlacesSingle ==
    ASSUME IInv, NEW r \in Requests
    PROVE  /\ \A x, y \in Places(r) : x = y
           /\ ~disConnect /\ client # "rst" /\ sent[r] = 2 => Places(r) # {}
<1>1. /\ Single(StreamPlaces(r), r, Tails(Stream)) /\ Single(PoolPlaces(r), r, Members(pool))
      /\ Single(WorkPlaces(r), r, Members(Held)) /\ Single(TaskPlaces(r), r, Members(Asked(taskqueue_)))
      /\ Single(ReplyPlaces(r), r, Elements(Who(Replies)))
  BY StreamSingle, PoolSingle, WorkSingle, TaskSingle, ReplySingle
<1>2. Places(r) = StreamPlaces(r) \cup PoolPlaces(r) \cup WorkPlaces(r) \cup TaskPlaces(r) \cup ReplyPlaces(r)
  <2> DEFINE C == {"c2s"} \X In(c2s, <<r, "tail">>)
             I == {"input"} \X In(inputbuffer_, <<r, "tail">>)
             O == {"output"} \X InReplies(outputbuffer_, r)
             S == {"s2c"} \X InReplies(s2c, r)
             R == {"received"} \X InReplies(received, r)
  <2>1. StreamPlaces(r) = C \cup I /\ ReplyPlaces(r) = R \cup S \cup O
    BY DEF StreamPlaces, ReplyPlaces
  <2>2. Awaiting(r) = PoolPlaces(r) \cup WorkPlaces(r) \cup TaskPlaces(r) \cup O
    BY DEF Awaiting
  <2>3. Places(r) = C \cup I \cup Awaiting(r) \cup S \cup R
    BY DEF Places
  <2> HIDE DEF C, I, O, S, R
  <2> QED BY <2>1, <2>2, <2>3
<1>3. ASSUME NEW x \in Places(r), NEW y \in Places(r) PROVE x = y
  <2>1. PlaceInv
    BY DEF IInv
  <2>2. CASE x \in StreamPlaces(r)
    BY <1>1, <1>2, <2>1, <2>2 DEF Single, PlaceInv, Disjoint
  <2>3. CASE x \in PoolPlaces(r)
    BY <1>1, <1>2, <2>1, <2>3 DEF Single, PlaceInv, Disjoint
  <2>4. CASE x \in WorkPlaces(r)
    BY <1>1, <1>2, <2>1, <2>4 DEF Single, PlaceInv, Disjoint
  <2>5. CASE x \in TaskPlaces(r)
    BY <1>1, <1>2, <2>1, <2>5 DEF Single, PlaceInv, Disjoint
  <2>6. CASE x \in ReplyPlaces(r)
    BY <1>1, <1>2, <2>1, <2>6 DEF Single, PlaceInv, Disjoint
  <2> QED BY <1>2, <2>2, <2>3, <2>4, <2>5, <2>6
<1>4. ASSUME ~disConnect, client # "rst", sent[r] = 2 PROVE Places(r) # {}
  <2>1. r \notin Unsent
    BY <1>4 DEF Unsent
  <2>2. r \in Tails(Stream) \cup Members(pool) \cup Members(Held) \cup Members(Asked(taskqueue_))
                \cup Elements(Who(Replies))
    BY <1>4, <2>1 DEF IInv, LossInv
  <2> QED BY <1>1, <1>2, <2>2 DEF Single
<1> QED BY <1>3, <1>4

-----------------------------------------------------------------------------
(* The theorems *)

\* However reads split the stream, whichever worker takes a batch and whenever
\* the connection is closed, reset or swept: the dispatcher calls the method of
\* a request once at most, and the request or its reply is in one place at
\* most, so that the client never gets two replies to it.
THEOREM RequestAtMostOnce == Spec => []AtMostOnce
<1>1. IInv => AtMostOnce
  <2> SUFFICES ASSUME IInv, NEW r \in Requests PROVE executed[r] <= 1 /\ Cardinality(Places(r)) <= 1
    BY DEF AtMostOnce
  <2>1. executed[r] <= 1
    BY DEF IInv, ExecInv
  <2>2. \A x, y \in Places(r) : x = y
    BY PlacesSingle
  <2> QED BY <2>1, <2>2, AtMostOneElement
<1> QED BY <1>1, ServerIInv, PTL

\* While the connection is up, what the client has sent in full is still in the
\* stream, in the pool, at a worker, in the loop's queue or answered: neither
\* decode, which leaves half a packet in the buffer, nor the hand-over between
\* loop and workers, nor a write that the socket cuts short loses a request.
THEOREM RequestNotLost == Spec => []NothingLost
<1>1. IInv => NothingLost
  BY PlacesSingle DEF NothingLost
<1> QED BY <1>1, ServerIInv, PTL

\* The client can believe the error code of every reply: the method ran, once,
\* if the code is 0 for a request or says that the response could not be
\* serialised, and it did not run if the request was refused.
THEOREM ReplyTruthful == Spec => []CodeTruthful
<1>1. IInv => CodeTruthful
  <2> SUFFICES ASSUME IInv, NEW i \in 1..Len(received) PROVE Truthful(received[i])
    BY DEF CodeTruthful, Truthful
  <2>1. /\ received \in Seq(Reply) /\ s2c \in Seq(Reply) /\ outputbuffer_ \in Seq(Reply)
        /\ received \o s2c \in Seq(Reply)
    BY ConcatElements DEF IInv, Types
  <2>2. Elements(received) \subseteq Elements(Replies)
    <3>1. Elements(received \o s2c) = Elements(received) \cup Elements(s2c)
      BY <2>1, ElementsConcat
    <3>2. Elements((received \o s2c) \o outputbuffer_) = Elements(received \o s2c) \cup Elements(outputbuffer_)
      <4>1. \A s, u \in Seq(Reply) : Elements(s \o u) = Elements(s) \cup Elements(u)
        BY ElementsConcat
      <4> QED BY <2>1, <4>1, Zenon
    <3> QED BY <3>1, <3>2 DEF Replies
  <2>3. received[i] \in Elements(received)
    BY DEF Elements
  <2> QED BY <2>2, <2>3 DEF IInv, CodeInv
<1> QED BY <1>1, ServerIInv, PTL

\* A connection that is destroyed was closed first: conns_ holds it until
\* closeconnection takes it out, and that runs after disConnect was set.  So
\* what a late handleEvent or regSend finds in the freed memory, if it has not
\* been used again, is a connection that is closed.
THEOREM DestroyedWasClosed == Spec => [](~Alive => disConnect)
<1>1. IInv => (~Alive => disConnect)
  BY DEF IInv, HeldInv, Alive, HeldBy
<1> QED BY <1>1, ServerIInv, PTL

-----------------------------------------------------------------------------
(* Type correctness *)

\* What the invariant says nothing of.
StateTypes ==
    /\ workThread_ \in Nat /\ conns_ \in BOOLEAN /\ disConnect \in BOOLEAN /\ wshut \in BOOLEAN
    /\ mpc \in {"listen", "accept", "enable", "release", "idle", "fin"}
    /\ lpc \in {"wait", "handle", "parse", "write", "close", "erase"}
    /\ revents_ \in SUBSET (Bits \cup {"HUP"})
    /\ client \in {"open", "fin", "rst"}

\* A method of the channel begins, or the channel is left alone, raised or taken
\* down with the process.
ChannelTouched ==
    \/ UNCHANGED chanVars
    \/ \E t \in Threads, at \in {"store", "del", "idle"}, val \in SUBSET Bits :
        Goto(t, at, val) /\ UNCHANGED <<events_, inepoll_, registered, mask, ready, dead>>
    \/ /\ ready' \in BOOLEAN /\ dead' \in {dead, "assert", "sigpipe", "freed"}
       /\ UNCHANGED <<events_, inepoll_, registered, mask, call>>

\* Either way its types are kept.
LEMMA TouchedTypes == ASSUME ChannelTypeOK, ChannelTouched PROVE ChannelTypeOK'
<1>1. CASE UNCHANGED chanVars
  BY <1>1 DEF ChannelTypeOK, chanVars
<1>2. ASSUME NEW t \in Threads, NEW at \in {"store", "del", "idle"}, NEW val \in SUBSET Bits,
             Goto(t, at, val), UNCHANGED <<events_, inepoll_, registered, mask, ready, dead>>
      PROVE  ChannelTypeOK'
  <2>1. call' \in [Threads -> [at : CallStates, val : SUBSET Bits]]
    BY <1>2 DEF ChannelTypeOK, Goto, CallStates
  <2> QED BY <1>2, <2>1 DEF ChannelTypeOK
<1>3. CASE /\ ready' \in BOOLEAN /\ dead' \in {dead, "assert", "sigpipe", "freed"}
           /\ UNCHANGED <<events_, inepoll_, registered, mask, call>>
  BY <1>3 DEF ChannelTypeOK
<1> QED BY <1>1, <1>2, <1>3 DEF ChannelTouched

\* The steps inside the channel's methods keep them too.
LEMMA InChannelTypes ==
    ASSUME ChannelTypeOK, NEW t \in Threads, ChannelStep(t, Level) PROVE ChannelTypeOK'
<1>1. call[t].val \in SUBSET Bits
  BY DEF ChannelTypeOK
<1>2. /\ events_' \in SUBSET Bits /\ inepoll_' \in BOOLEAN /\ registered' \in BOOLEAN
      /\ mask' \in SUBSET Bits /\ ready' \in BOOLEAN /\ dead' \in {"no", "assert", "sigpipe", "freed"}
  BY <1>1 DEF ChannelTypeOK, ChannelStep, StoreEvents, SetChannelRead, SetChannelTest, SetChannelMod,
              SetChannelAdd, SetInepoll, RemoveChannelDel, DelInepoll, Register
<1>3. \/ UNCHANGED call
      \/ \E at \in CallStates, val \in SUBSET Bits : Goto(t, at, val)
  BY <1>1 DEF ChannelTypeOK, ChannelStep, StoreEvents, SetChannelRead, SetChannelTest, SetChannelMod,
              SetChannelAdd, SetInepoll, RemoveChannelDel, DelInepoll, CallStates
<1>4. call' \in [Threads -> [at : CallStates, val : SUBSET Bits]]
  BY <1>3 DEF ChannelTypeOK, Goto
<1> QED BY <1>2, <1>4 DEF ChannelTypeOK

\* Every other step begins a method, raises an event or leaves the channel alone.
LEMMA StepTouches ==
    ASSUME ChannelTypeOK, [Next]_vars, ~(\E t \in Threads : InChannel(t)) PROVE ChannelTouched
<1> USE DEF chanVars
<1>1. Main \in Threads /\ Loop \in Threads /\ Workers \subseteq Threads
  BY ThreadsAssumption
<1>2. ASSUME NEW t \in Threads,
             EnableReading(t) \/ EnableWriting(t) \/ DisableWriting(t) \/ RemoveChannel(t)
      PROVE  ChannelTouched
  <2>1. /\ events_ \cup {"IN"} \in SUBSET Bits /\ events_ \cup {"OUT"} \in SUBSET Bits
        /\ events_ \ {"OUT"} \in SUBSET Bits /\ {} \in SUBSET Bits
    BY DEF ChannelTypeOK, Bits
  <2>2. CASE EnableReading(t)
    BY <2>1, <2>2 DEF ChannelTouched, EnableReading, Begin
  <2>3. CASE EnableWriting(t)
    BY <2>1, <2>3 DEF ChannelTouched, EnableWriting, Begin
  <2>4. CASE DisableWriting(t)
    BY <2>1, <2>4 DEF ChannelTouched, DisableWriting, Begin
  <2>5. CASE RemoveChannel(t)
    BY <2>1, <2>5 DEF ChannelTouched, RemoveChannel
  <2> QED BY <1>2, <2>2, <2>3, <2>4, <2>5
<1>3. ASSUME NEW how \in {"assert", "sigpipe", "freed"}, Dies(how) PROVE ChannelTouched
  BY <1>3 DEF ChannelTouched, Dies, ChannelTypeOK
<1>4. ASSUME NEW bits, Raise(bits), UNCHANGED <<events_, inepoll_, registered, mask, call, dead>>
      PROVE  ChannelTouched
  BY <1>4 DEF ChannelTouched, Raise, ChannelTypeOK
<1>5. ASSUME NEW t \in Threads, NEW held, Release(t, held) PROVE ChannelTouched
  BY <1>2, <1>5 DEF Release, ChannelTouched
<1>6. CASE AcceptStep
  BY <1>1, <1>2, <1>3, <1>5, <1>6 DEF AcceptStep, Accept, AcceptFails, NewConnection, NewConnectionEnable,
                                      NewConnectionReturn, ChannelTouched
<1>7. CASE SweepStep
  BY <1>7 DEF SweepStep, ClearClientTimerFunc, ClearClientShutdown, ChannelTouched, ChannelTypeOK
<1>8. ASSUME NEW w \in Workers, WorkerStep(w) PROVE ChannelTouched
  BY <1>1, <1>5, <1>8 DEF WorkerStep, WorkerTake, WorkerOnMassage, WorkerReturn, ChannelTouched
<1>9. CASE ServeStep
  <2>1. CASE EpollWait
    BY <2>1 DEF EpollWait, ChannelTouched
  <2>2. CASE OnMessage \/ OnMessageEof \/ ParseMsg \/ SendMessage
    BY <2>2 DEF OnMessage, OnMessageEof, ParseMsg, SendMessage, ChannelTouched
  <2>3. CASE Close
    BY <1>1, <1>2, <2>3 DEF Close
  <2>4. CASE CloseConnection
    BY <1>1, <1>5, <2>4 DEF CloseConnection
  <2>5. CASE ParseMsgInline \/ RegSend \/ Write
    BY <1>1, <1>2, <2>5 DEF ParseMsgInline, RegSend, Write, ChannelTouched
  <2>6. CASE WriteBroken \/ LoopUsesDestroyed \/ RegSendDestroyed
    BY <1>3, <2>6 DEF WriteBroken, LoopUsesDestroyed, RegSendDestroyed, ChannelTouched
  <2> QED BY <1>9, <2>1, <2>2, <2>3, <2>4, <2>5, <2>6 DEF ServeStep
<1>10. CASE ClientStep
  BY <1>4, <1>10 DEF ClientStep, ClientSend, ClientRead, ClientClose, ClientReset
<1>11. CASE Quiescent \/ UNCHANGED vars
  BY <1>11 DEF Quiescent, vars, ChannelTouched
<1> QED BY <1>6, <1>7, <1>8, <1>9, <1>10, <1>11 DEF Next

\* The rest of the variables.
LEMMA StepStateTypes == ASSUME StateTypes, [Next]_vars PROVE StateTypes'
<1> USE DEF mainVars, connVars, loopVars, workVars, netVars
<1> DEFINE stay == UNCHANGED <<workThread_, conns_, mpc, disConnect, lpc, revents_, client, wshut>>
<1>0. stay => StateTypes'
  BY DEF StateTypes
<1> HIDE DEF stay
<1>1. CASE AcceptStep \/ SweepStep
  <2> USE DEF StateTypes
  <2>1. CASE Accept \/ NewConnection \/ NewConnectionEnable \/ NewConnectionReturn
    BY <2>1 DEF Accept, NewConnection, NewConnectionEnable, NewConnectionReturn
  <2>2. CASE AcceptFails
    BY <1>0, <2>2 DEF AcceptFails, Dies, stay
  <2>3. CASE ClearClientTimerFunc \/ ClearClientShutdown
    BY <2>3 DEF ClearClientTimerFunc, ClearClientShutdown
  <2> QED BY <1>1, <2>1, <2>2, <2>3 DEF AcceptStep, SweepStep
<1>2. ASSUME NEW w \in Workers, WorkerStep(w) PROVE StateTypes'
  <2>1. stay
    BY <1>2 DEF WorkerStep, WorkerTake, WorkerOnMassage, WorkerReturn, stay
  <2> QED BY <1>0, <2>1
<1>3. ASSUME NEW t \in Threads, InChannel(t) PROVE StateTypes'
  <2>1. stay
    BY <1>3 DEF InChannel, stay
  <2> QED BY <1>0, <2>1
<1>4. CASE ServeStep
  <2>1. CASE EpollWait
    <3>1. Level \cap (mask \cup {"HUP"}) \in SUBSET (Bits \cup {"HUP"})
      BY DEF Level, Bits
    <3>2. /\ revents_' \in SUBSET (Bits \cup {"HUP"}) /\ lpc' \in {"wait", "handle"}
          /\ UNCHANGED <<workThread_, conns_, mpc, disConnect, client, wshut>>
      BY <2>1, <3>1 DEF EpollWait
    <3> QED BY <3>2 DEF StateTypes
  <2>2. CASE OnMessage \/ OnMessageEof \/ SendMessage
    <3>1. /\ revents_' = {} /\ lpc' \in {"parse", "close", "wait", "write"} /\ disConnect' \in {disConnect, TRUE}
          /\ UNCHANGED <<workThread_, conns_, mpc, client, wshut>>
      BY <2>2 DEF OnMessage, OnMessageEof, SendMessage, HandleEvent
    <3> QED BY <3>1 DEF StateTypes
  <2>3. CASE Close \/ CloseConnection
    <3>1. /\ conns_' \in {conns_, FALSE} /\ lpc' \in {"erase", "wait"}
          /\ UNCHANGED <<workThread_, mpc, disConnect, revents_, client, wshut>>
      BY <2>3 DEF Close, CloseConnection, Erased
    <3> QED BY <3>1 DEF StateTypes
  <2>4. CASE ParseMsg \/ ParseMsgInline \/ Write
    <3>1. lpc' = "wait" /\ UNCHANGED <<workThread_, conns_, mpc, disConnect, revents_, client, wshut>>
      BY <2>4 DEF ParseMsg, ParseMsgInline, Write
    <3> QED BY <3>1 DEF StateTypes
  <2>5. CASE RegSend \/ RegSendDestroyed \/ WriteBroken
    <3>1. stay
      BY <2>5 DEF RegSend, RegSendDestroyed, WriteBroken, Dies, stay
    <3> QED BY <1>0, <3>1
  <2>6. CASE LoopUsesDestroyed
    <3>1. CASE Dies("freed")
      BY <1>0, <3>1 DEF Dies, stay
    <3>2. CASE ~Dies("freed")
      <4>1. /\ lpc' = "wait" /\ revents_' = {}
            /\ UNCHANGED <<workThread_, conns_, mpc, disConnect, client, wshut>>
        BY <2>6, <3>2 DEF LoopUsesDestroyed
      <4> QED BY <4>1 DEF StateTypes
    <3> QED BY <3>1, <3>2
  <2> QED BY <1>4, <2>1, <2>2, <2>3, <2>4, <2>5, <2>6 DEF ServeStep
<1>5. CASE ClientStep
  <2>1. /\ client' \in {client, "fin", "rst"}
        /\ UNCHANGED <<workThread_, conns_, mpc, disConnect, lpc, revents_, wshut>>
    BY <1>5 DEF ClientStep, ClientSend, ClientRead, ClientClose, ClientReset
  <2> QED BY <2>1 DEF StateTypes
<1>6. CASE Quiescent \/ UNCHANGED vars
  BY <1>0, <1>6 DEF Quiescent, vars, stay
<1> QED BY <1>1, <1>2, <1>3, <1>4, <1>5, <1>6 DEF Next

\* Every variable of the connection, the loop, the workers and the network keeps
\* its type, and the socket's send buffer never holds more than it takes.
THEOREM TypeCorrect == Spec => []TypeOK
<1> DEFINE TInv == ChannelTypeOK /\ StateTypes
<1>1. Init => TInv
  <2> SUFFICES ASSUME Init PROVE TInv
    OBVIOUS
  <2>1. ChannelTypeOK
    BY DEF Init, ChannelInit, ChannelTypeOK, CallStates
  <2>2. Cardinality(Workers) \in Nat
    BY ThreadsAssumption, FS_CardinalityType
  <2>3. StateTypes
    <3>1. workThread_ \in Nat
      BY <2>2 DEF Init
    <3>2. /\ conns_ = FALSE /\ disConnect = FALSE /\ wshut = FALSE /\ mpc = "listen" /\ lpc = "wait"
          /\ revents_ = {} /\ client = "open"
      BY DEF Init
    <3> QED BY <3>1, <3>2 DEF StateTypes
  <2> QED BY <2>1, <2>3
<1>2. TInv /\ [Next]_vars => TInv'
  <2> SUFFICES ASSUME TInv, [Next]_vars PROVE TInv'
    OBVIOUS
  <2>1. StateTypes'
    BY StepStateTypes
  <2>2. ChannelTypeOK'
    BY StepTouches, TouchedTypes, InChannelTypes DEF InChannel
  <2> QED BY <2>1, <2>2
<1>3. IInv /\ TInv => TypeOK
  BY DEF IInv, Types, StateTypes, TypeOK
<1> QED BY <1>1, <1>2, <1>3, ServerIInv, PTL DEF Spec
=============================================================================
