------------------------------ MODULE Waveview ------------------------------
(***************************************************************************)
(* waveview.c: an event is read once, condensed into a digest of           *)
(* wavDigestLen columns, and shown in a window xL .. xH of its samples     *)
(* that keys widen, narrow and shift by parts of its width.                *)
(***************************************************************************)
EXTENDS Integers, FiniteSetsExt

CONSTANTS
  Waves,              \* events: functions on channels of functions on 0 .. nPt - 1
  Beyond,             \* values that the memory after an event may hold
  wavDigestLen,
  INIT_WINDOW_WIDTH,
  Mantissa,           \* 2^53: a double has 53 significant bits
  Spacings,           \* powers of two: what two neighbouring doubles may be apart
  Unit                \* doubles are counted in steps of 1 / Unit

WavesAssumption ==
  /\ Beyond \subseteq Int /\ Beyond # {}
  /\ \A w \in Waves :
       /\ 0 \in DOMAIN w /\ IsFiniteSet(DOMAIN w)
       /\ LET n == Cardinality(DOMAIN w[0]) IN
          n \in Nat \ {0} /\ \A c \in DOMAIN w : w[c] \in [0 .. n - 1 -> Int]
LengthsAssumption == {wavDigestLen, INIT_WINDOW_WIDTH} \subseteq Nat \ {0}

(* The sizes are far from where doubles become coarse or vanish.           *)
DoublesAssumption ==
  /\ Mantissa \in Nat /\ Unit \in Nat \ {0}
  /\ IsFiniteSet(Spacings) /\ Spacings \subseteq Nat \ {0}
  /\ 3 * wavDigestLen <= Mantissa
  /\ \A w \in Waves : LET n == Cardinality(DOMAIN w[0]) IN
       3 * n <= Mantissa /\ Mantissa * wavDigestLen <= n * Unit

VARIABLES
  wavBuf,            \* the event
  chdInfo,           \* minimum and maximum of each channel
  wavDigest,         \* a value for each column of each channel
  digestL, digestH,
  xL, xH

shown == <<wavBuf, chdInfo, wavDigest, digestL, digestH>>
vars  == <<shown, xL, xH>>

nPt == Cardinality(DOMAIN wavBuf[0])
-----------------------------------------------------------------------------
Ceil(a, b) == (a + b - 1) \div b
Trunc(a, b) == IF a >= 0 THEN a \div b ELSE -((-a) \div b)    \* a C conversion to integer
Total(f, S) == FoldSet(LAMBDA i, t : f[i] + t, 0, S)

(* The double nearest to a / b, of two that are as near the even one.      *)
Round(a, b) ==
  LET q == Max({1} \cup {x \in Spacings : Mantissa * x * b <= 2 * a})
      d == a \div (q * b)
      r == 2 * (a % (q * b))
  IN q * (IF r > q * b \/ (r = q * b /\ d % 2 = 1) THEN d + 1 ELSE d)

Step(n)    == Round(n * Unit, wavDigestLen)      \* s
Edge(j, n) == Round(j * Step(n), 1)              \* j*s

(* Column j of n samples: from j*s, cut, up to the last below (j+1)*s.     *)
ColumnShort(j, n) ==    \* mutant of Column: one sample short, but for the first
  LET i == Edge(j, n) \div Unit IN i .. Max({i, Ceil(Edge(j + 1, n), Unit) - 2})
Column(j, n) == Edge(j, n) \div Unit .. Ceil(Edge(j + 1, n), Unit) - 1

(* Sample n of a channel is the first of the next one in the buffer, that  *)
(* of the last channel what lies behind the buffer.                        *)
Sample(w, c, i, beyond) ==
  IF i \in DOMAIN w[c] THEN w[c][i] ELSE IF c + 1 \in DOMAIN w THEN w[c + 1][0] ELSE beyond

Digest(w, n, beyond) ==
  [c \in DOMAIN w |-> [j \in 0 .. wavDigestLen - 1 |->
     LET S == Column(j, n)
     IN  Trunc(Total([i \in S |-> Sample(w, c, i, beyond)], S), Cardinality(S))]]

Values(w, c) == {w[c][i] : i \in DOMAIN w[c]}
ChannelRange(w) == [c \in DOMAIN w |-> [min |-> Min(Values(w, c)), max |-> Max(Values(w, c))]]

LowFirst(w) ==     \* mutant of Low: the first channel alone
  ChannelRange(w)[0].min
Low(w)  == Min({ChannelRange(w)[c].min : c \in DOMAIN w})
High(w) == Max({ChannelRange(w)[c].max : c \in DOMAIN w})

Init ==
  /\ wavBuf \in Waves
  /\ chdInfo = ChannelRange(wavBuf)
  /\ \E beyond \in Beyond : wavDigest = Digest(wavBuf, nPt, beyond)
  /\ digestL = Low(wavBuf) /\ digestH = High(wavBuf)
  /\ xL = 0 /\ xH = Min({nPt, INIT_WINDOW_WIDTH})
-----------------------------------------------------------------------------
xHmL == xH - xL + 1
Parts == {100, 10}      \* frac[0] is 1 part of 100, frac[1] 1 of 10

(* x - xHmL / d and x + xHmL / d in double, then cut to an integer.  The   *)
(* double of a fraction lies above it, so a difference that should be      *)
(* whole may fall just short.                                              *)
Less(x, d) ==
  LET v == x - xHmL \div d IN
  IF v <= 0 \/ xHmL = 0 THEN {v} ELSE IF xHmL % d = 0 THEN {v, v - 1} ELSE {v - 1}
More(x, d) == Trunc(x * d + xHmL, d)

AtLeast(x, low) == IF x < low THEN low ELSE x
LowTo(x)  == xL' = x /\ UNCHANGED <<xH, shown>>
HighTo(x) == xH' = x /\ UNCHANGED <<xL, shown>>

LowerLow  == \E x \in {xL - 1} \cup UNION {Less(xL, d) : d \in Parts} : LowTo(AtLeast(x, 0))
RaiseLow  == \E x \in {xL + 1} \cup {More(xL, d) : d \in Parts} : LowTo(IF x > xH THEN xH ELSE x)
LowerHigh == \E x \in {xH - 1} \cup UNION {Less(xH, d) : d \in Parts} : HighTo(AtLeast(x, xL))
RaiseHighPast ==   \* mutant of RaiseHigh: one sample too far
  \E x \in {xH + 1} \cup {More(xH, d) : d \in Parts} : HighTo(IF x >= nPt THEN nPt ELSE x)
RaiseHigh ==       \* nPt is unsigned, so a negative xH compares as larger
  \E x \in {xH + 1} \cup {More(xH, d) : d \in Parts} : HighTo(IF x \in 0 .. nPt - 1 THEN x ELSE nPt - 1)

Steps == {1} \cup {xHmL \div d : d \in {100, 10, 5}}    \* with shift, alt and control
Left  == \E dx \in Steps : xL - dx >= 0 /\ xL' = xL - dx /\ xH' = xH - dx /\ UNCHANGED shown
RightHeld ==       \* mutant of Right: xH stops at the end and xL goes on
  \E dx \in Steps : /\ xL' = Min({xL + dx, nPt - 1}) /\ xH' = Min({xH + dx, nPt - 1}) /\ UNCHANGED shown
Right == \E dx \in Steps : xH + dx \in 0 .. nPt - 1 /\ xL' = xL + dx /\ xH' = xH + dx /\ UNCHANGED shown

Next == LowerLow \/ RaiseLow \/ LowerHigh \/ RaiseHigh \/ Left \/ Right
Spec == Init /\ [][Next]_vars
-----------------------------------------------------------------------------
(* The window of an event longer than the first window is never turned     *)
(* round nor outside the event, so that what draw and dump_to_file read,   *)
(* samples xL to xH - 1, is inside the event.  Of a shorter event the      *)
(* window begins with xH = nPt, which xL may reach; RaiseHigh then takes   *)
(* xH to nPt - 1, Left the pair to 0 and -1, and RaiseLow xL to -1 too: it *)
(* goes one sample beyond either end and turns round by one, no more.      *)
(* (That is enough for dump_to_file to read the sample before the event,   *)
(* and with xH = -1 the unsigned loop of draw, waveview.c 329, does not    *)
(* end.)                                                                   *)
Long == nPt > INIT_WINDOW_WIDTH
WindowInside ==
  /\ -1 <= xL /\ xL <= nPt /\ -1 <= xH /\ xH <= nPt /\ xL <= xH + 1
  /\ Long => 0 <= xL /\ xL <= xH /\ xH < nPt

(* An arrow key moves the window and keeps its width, at the ends too; the *)
(* other keys move one of its edges.                                       *)
WidthKept == xL' # xL /\ xH' # xH => xH' - xL' = xH - xL

(* However the step and its multiples are rounded, no sample is left out   *)
(* of the digest, no column is empty, and none reads beyond the event, but *)
(* for one sample that the last column may read when wavDigestLen*s is     *)
(* rounded up past nPt.                                                    *)
DigestCovers ==
  /\ 0 .. nPt - 1 \subseteq UNION {Column(j, nPt) : j \in 0 .. wavDigestLen - 1}
  /\ \A j \in 0 .. wavDigestLen - 1 :
       Column(j, nPt) # {} /\ Column(j, nPt) \subseteq 0 .. IF j = wavDigestLen - 1 THEN nPt ELSE nPt - 1

(* The digest fits the scale it is drawn with, in every channel, unless    *)
(* what lies behind the buffer went into it.                               *)
DigestInScale ==
  \A c \in DOMAIN wavDigest, j \in 0 .. wavDigestLen - 1 :
    c + 1 \in DOMAIN wavDigest \/ nPt \notin Column(j, nPt) => wavDigest[c][j] \in digestL .. digestH
=============================================================================
