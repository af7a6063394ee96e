---------------------------- MODULE CompareProofs ----------------------------
(***************************************************************************)
(* Proofs, for images, chunks and samples of every size, that the verdict  *)
(* of a comparison is right, that samples are spent on different chunks,   *)
(* and that a conversion that was verified and found good left nothing     *)
(* out.                                                                    *)
(***************************************************************************)
EXTENDS Convert, FiniteSetTheorems, TLAPS

-----------------------------------------------------------------------------
(* Division.                                                               *)

\* A quotient and its remainder.
LEMMA DivMod ==
  ASSUME NEW x \in Nat, NEW c \in Nat \ {0}
  PROVE  x \div c \in Nat /\ x % c \in 0 .. c - 1 /\ x = (x \div c) * c + (x % c)
<1>1. x \div c \in Nat /\ x % c \in 0 .. c - 1 /\ x = c * (x \div c) + (x % c)
  BY Z3
<1>2. \A q \in Nat : c * q = q * c
  BY Z3
<1> QED
  BY <1>1, <1>2

\* Multiples are ordered like their factors, and are apart.
LEMMA Multiples ==
  ASSUME NEW a \in Nat, NEW b \in Nat, NEW c \in Nat \ {0}
  PROVE  /\ a * c \in Nat /\ b * c \in Nat
         /\ a <= b => a * c <= b * c
         /\ a < b => a * c + c <= b * c
<1>1. a * c \in Nat /\ b * c \in Nat
  BY Z3
<1>2. ASSUME a <= b PROVE a * c <= b * c
  <2>1. PICK d \in Nat : d = b - a
    BY <1>2
  <2>2. b = a + d /\ d * c \in Nat
    BY <1>2, <2>1, Z3
  <2>3. b * c = a * c + d * c
    BY <2>2, Z3
  <2> QED
    BY <1>1, <2>2, <2>3
<1>3. ASSUME a < b PROVE a * c + c <= b * c
  <2>1. PICK d \in Nat : d = b - a - 1
    BY <1>3
  <2>2. b = a + d + 1 /\ d * c \in Nat
    BY <1>3, <2>1, Z3
  <2>3. b * c = a * c + d * c + c
    BY <2>2, Z3
  <2> QED
    BY <1>1, <2>2, <2>3
<1> QED
  BY <1>1, <1>2, <1>3

\* A number between two multiples has the smaller one's factor as quotient.
LEMMA QuotientIs ==
  ASSUME NEW x \in Nat, NEW q \in Nat, NEW c \in Nat \ {0},
         q * c <= x, x < q * c + c
  PROVE  x \div c = q /\ x % c = x - q * c
<1> DEFINE d == x \div c
<1>1. d \in Nat /\ x % c \in 0 .. c - 1 /\ x = d * c + (x % c)
  BY DivMod
<1>2. d * c \in Nat /\ q * c \in Nat
  BY <1>1, Multiples
<1> HIDE DEF d
<1>3. ~(d < q)
  BY <1>1, <1>2, Multiples
<1>4. ~(q < d)
  BY <1>1, <1>2, Multiples
<1>5. d = q
  BY <1>1, <1>3, <1>4
<1> QED
  BY <1>1, <1>2, <1>5 DEF d

\* A number below a multiple has a quotient below the factor.
LEMMA QuotientBelow ==
  ASSUME NEW x \in Nat, NEW m \in Nat, NEW c \in Nat \ {0}, x < m * c
  PROVE  x \div c < m
<1> DEFINE d == x \div c
<1>1. d \in Nat /\ x % c \in 0 .. c - 1 /\ x = d * c + (x % c)
  BY DivMod
<1>2. d * c \in Nat /\ m * c \in Nat /\ (m <= d => m * c <= d * c)
  BY <1>1, Multiples
<1> QED
  BY <1>1, <1>2

\* Rounding a division up loses nothing, and adds less than one.
LEMMA CeilDivCovers ==
  ASSUME NEW x \in Nat, NEW y \in Nat \ {0}
  PROVE  /\ ceilDiv(x, y) \in Nat /\ x <= ceilDiv(x, y) * y
         /\ \A k \in Nat : k < ceilDiv(x, y) => k * y < x
<1> DEFINE q == (x + y - 1) \div y
           m == (x + y - 1) % y
<1>1. x + y - 1 \in Nat
  OBVIOUS
<1>2. q \in Nat /\ m \in 0 .. y - 1 /\ x + y - 1 = q * y + m
  BY <1>1, DivMod
<1> HIDE DEF q, m
<1>3. q * y \in Nat
  BY <1>2, Multiples
<1>4. \A k \in Nat : k < q => k * y < x
  <2> SUFFICES ASSUME NEW k \in Nat, k < q PROVE k * y < x
    OBVIOUS
  <2>1. k * y \in Nat /\ k * y + y <= q * y
    BY <1>2, Multiples
  <2> QED
    BY <1>2, <1>3, <2>1
<1>5. x <= q * y
  BY <1>2, <1>3
<1> QED
  BY <1>2, <1>4, <1>5 DEF ceilDiv, q

-----------------------------------------------------------------------------
(* The inductive invariant.                                                *)

Images == UNION {[0 .. k - 1 -> Values] : k \in Nat}

TypesOK ==
  /\ pc \in {"open", "src", "dst", "compare", "returned"}
  /\ mode \in {"none", "full", "sample"}
  /\ image \in [Sides -> Images] /\ size >= 1
  /\ breaks \in [Sides -> SUBSET Nat]
  /\ buf \in [Sides -> [0 .. ChunkWords - 1 -> Values]]
  /\ step \in Nat
  /\ interrupted \in BOOLEAN
  /\ result \in {"none", "nil", "size", "mismatch", "error", "cancelled"}
  /\ result = "none" <=> pc # "returned"
  /\ task \in {"compare", "copy", "verify"}
  /\ outcome \in {"none", "nil", "error"}

\* Where ConvertRange and VerifyRange are.
TaskOK ==
  /\ task # "copy" => mode # "none"
  /\ task # "compare" => breaks["dst"] = {}
  /\ task = "verify" => outcome = "nil"
  /\ task = "copy" =>
       /\ step = 0
       /\ pc = "open" \/ (pc = "returned" /\ result = outcome /\ (outcome = "error" \/ mode = "none"))

\* What the buffer of side s holds of the chunk that is compared.
Filled(s) == \A i \in 0 .. ChunkWords - 1 : i < Got(s) => buf[s][i] = image[s][off + i]

\* Where the loop of the comparison is.
LoopOK ==
  /\ step <= Turns
  /\ seen = {ChunkOf(j) : j \in 0 .. step - 1}
  /\ pc = "open" => step = 0
  /\ pc \in {"dst", "compare"} => step < Turns /\ Filled("src")
  /\ pc = "compare" => Filled("dst")
  /\ pc \in {"src", "dst", "compare"} \/ (task # "copy" /\ result = "nil") => SizeOf("dst") = size
  /\ task # "copy" /\ result = "nil" => step = Turns

\* Where both readers gave what a compared chunk holds, the images agree.
AgreeOK ==
  \A w \in DOMAIN image["src"] :
    w \div ChunkWords \in seen /\ (\A s \in Sides : Given(s, w))
      => image["src"][w] = image["dst"][w]

\* A verdict against the images.
AgainstOK ==
  result \in {"size", "mismatch"} /\ (\A s \in Sides : breaks[s] = {})
    => image["src"] # image["dst"]

SamplesOK == Sampling => IsFiniteSet(seen) /\ Cardinality(seen) = step

\* The verification has compared something: the caller had not cancelled when
\* ConvertRange returned.
Begun == task = "verify" /\ (step > 0 \/ pc \in {"dst", "compare"})

SettledOK ==
  outcome = "nil" /\ (~interrupted \/ Begun) => \A c \in 1 .. NumChunks : Copying!Settled(c)

Inv ==
  /\ TypesOK /\ TaskOK /\ LoopOK
  /\ AgreeOK /\ AgainstOK /\ SamplesOK /\ SettledOK

-----------------------------------------------------------------------------
(* Sizes, chunks and samples.                                              *)

LEMMA Parameters ==
  /\ ChunkWords \in Nat \ {0} /\ Samples \in Nat \ {0}
  /\ ImageWords \in Nat \ {0} /\ SectorWords \in Nat \ {0}
BY SizesAssumption, ConvertAssumption

LEMMA ImageSize ==
  ASSUME NEW k \in Nat, NEW f \in [0 .. k - 1 -> Values]
  PROVE  f \in Images /\ Cardinality(DOMAIN f) = k
<1>1. DOMAIN f = 0 .. k - 1
  OBVIOUS
<1>2. Cardinality(0 .. k - 1) = k
  BY FS_Interval
<1> QED
  BY <1>1, <1>2 DEF Images

LEMMA SizeFacts ==
  ASSUME image \in [Sides -> Images], NEW s \in Sides
  PROVE  /\ SizeOf(s) \in Nat
         /\ image[s] \in [0 .. SizeOf(s) - 1 -> Values]
         /\ DOMAIN image[s] = 0 .. SizeOf(s) - 1
<1>1. PICK k \in Nat : image[s] \in [0 .. k - 1 -> Values]
  BY DEF Images
<1>2. SizeOf(s) = k
  BY <1>1, ImageSize DEF SizeOf
<1> QED
  BY <1>1, <1>2

\* Chunks of samples lie in the image, those of a full comparison cover it.
LEMMA TurnFacts ==
  ASSUME TypesOK
  PROVE  /\ size \in Nat /\ size >= 1
         /\ Turns \in Nat /\ Turns >= 1
         /\ \A i \in Nat : ChunkOf(i) \in Nat
         /\ \A i \in 0 .. Turns - 1 : ChunkOf(i) * ChunkWords \in Nat /\ ChunkOf(i) * ChunkWords < size
<1>1. /\ size \in Nat /\ size >= 1 /\ ChunkWords \in Nat \ {0} /\ Samples \in Nat \ {0}
  BY SizeFacts, Parameters DEF TypesOK, size, Sides
<1>2. PICK n \in Nat \ {0} : n = size
  BY <1>1
<1>3. CASE Sampling
  <2>1. Turns = Samples
    BY <1>3 DEF Turns
  <2>2. PICK q \in Nat : q = size \div Samples
    BY <1>1, DivMod
  <2>3. ASSUME NEW i \in Nat
        PROVE  ChunkOf(i) \in Nat /\ ChunkOf(i) * ChunkWords \in Nat /\ ChunkOf(i) * ChunkWords < size
    <3>1. PICK a \in Nat : a = i * q
      <4>1. i * q \in Nat
        BY Z3
      <4> QED
        BY <4>1
    <3>2. PICK w \in Nat : w = Least(a, n - 1) /\ w < n
      <4>1. Least(a, n - 1) \in Nat /\ Least(a, n - 1) < n
        BY DEF Least
      <4> QED
        BY <4>1
    <3>3. ChunkOf(i) = w \div ChunkWords
      BY <1>2, <1>3, <2>2, <3>1, <3>2 DEF ChunkOf
    <3>4. PICK d \in Nat, m \in Nat : d = w \div ChunkWords /\ w = d * ChunkWords + m
      BY <1>1, DivMod
    <3>5. d * ChunkWords \in Nat
      BY <1>1, Multiples
    <3>6. d * ChunkWords < n
      BY <3>2, <3>4, <3>5
    <3> QED
      BY <1>2, <3>3, <3>4, <3>5, <3>6
  <2> QED
    BY <1>1, <2>1, <2>3
<1>4. CASE ~Sampling
  <2>1. Turns = ceilDiv(size, ChunkWords) /\ \A i : ChunkOf(i) = i
    BY <1>4 DEF Turns, ChunkOf
  <2>2. PICK t \in Nat : t = ceilDiv(n, ChunkWords)
    BY <1>1, CeilDivCovers
  <2>3. n <= t * ChunkWords /\ \A k \in Nat : k < t => k * ChunkWords < n
    BY <1>1, <2>2, CeilDivCovers
  <2>4. t # 0
    <3>1. 0 * ChunkWords = 0
      BY <1>1
    <3> QED
      BY <2>3, <3>1
  <2>5. \A i \in Nat : i * ChunkWords \in Nat
    BY <1>1, Multiples
  <2> QED
    BY <1>1, <1>2, <2>1, <2>2, <2>3, <2>4, <2>5
<1> QED
  BY <1>3, <1>4

\* Samples are at least a chunk apart.
LEMMA SamplesApart ==
  ASSUME TypesOK, Sampling, NEW i \in 0 .. Samples - 1, NEW j \in 0 .. Samples - 1, i < j
  PROVE  ChunkOf(i) # ChunkOf(j)
<1>1. /\ size \in Nat /\ size >= 1 /\ ChunkWords \in Nat \ {0} /\ Samples \in Nat \ {0}
      /\ i \in Nat /\ j \in Nat
  BY TurnFacts, Parameters
<1>2. PICK n \in Nat \ {0} : n = size
  BY <1>1
<1>3. PICK q \in Nat, r \in Nat : q = n \div Samples /\ r < Samples /\ n = q * Samples + r
  <2>1. n \div Samples \in Nat /\ n % Samples \in 0 .. Samples - 1
        /\ n = (n \div Samples) * Samples + (n % Samples)
    BY <1>1, DivMod
  <2>2. n % Samples \in Nat /\ n % Samples < Samples
    BY <1>1, <2>1
  <2> QED
    BY <2>1, <2>2
<1>4. q >= ChunkWords
  <2> SUFFICES ASSUME q < ChunkWords PROVE FALSE
    BY <1>1
  <2>1. q * Samples \in Nat /\ ChunkWords * Samples \in Nat
        /\ q * Samples + Samples <= ChunkWords * Samples
    BY <1>1, Multiples
  <2>2. ChunkWords * Samples = Samples * ChunkWords
    BY <1>1, Z3
  <2>3. Samples * ChunkWords < n
    BY <1>2 DEF Sampling
  <2> QED
    BY <1>1, <1>3, <2>1, <2>2, <2>3
<1>5. q # 0
  BY <1>1, <1>4
<1>6. PICK a \in Nat, b \in Nat : a = i * q /\ b = j * q /\ a + q <= b
  BY <1>1, <1>5, Multiples
<1>7. b < n
  <2>1. b + q <= Samples * q
    BY <1>1, <1>5, <1>6, Multiples
  <2>2. Samples * q = q * Samples /\ q * Samples \in Nat
    BY <1>1, Z3
  <2> QED
    BY <1>1, <1>3, <1>5, <1>6, <2>1, <2>2
<1>8. ChunkOf(i) = a \div ChunkWords /\ ChunkOf(j) = b \div ChunkWords
  <2>1. Least(a, n - 1) = a /\ Least(b, n - 1) = b
    BY <1>6, <1>7 DEF Least
  <2>2. /\ ChunkOf(i) = Least(i * (size \div Samples), size - 1) \div ChunkWords
        /\ ChunkOf(j) = Least(j * (size \div Samples), size - 1) \div ChunkWords
    BY DEF ChunkOf
  <2>3. ChunkOf(i) = Least(a, n - 1) \div ChunkWords /\ ChunkOf(j) = Least(b, n - 1) \div ChunkWords
    BY <1>2, <1>3, <1>6, <2>2
  <2> QED
    BY <2>1, <2>3
<1>9. PICK d \in Nat, m \in Nat : d = a \div ChunkWords /\ a = d * ChunkWords + m
  <2>1. /\ a \div ChunkWords \in Nat /\ a % ChunkWords \in 0 .. ChunkWords - 1
        /\ a = (a \div ChunkWords) * ChunkWords + (a % ChunkWords)
    BY <1>1, DivMod
  <2>2. a % ChunkWords \in Nat
    BY <1>1, <2>1
  <2> QED
    BY <2>1, <2>2
<1>10. b \div ChunkWords # d
  <2> SUFFICES ASSUME b \div ChunkWords = d PROVE FALSE
    OBVIOUS
  <2>1. PICK l \in Nat : l < ChunkWords /\ b = d * ChunkWords + l
    BY <1>1, DivMod
  <2>2. d * ChunkWords \in Nat
    BY <1>1, Multiples
  <2> QED
    BY <1>1, <1>4, <1>6, <1>9, <2>1, <2>2
<1> QED
  BY <1>8, <1>9, <1>10

-----------------------------------------------------------------------------
(* The chunk of a turn, and what a reader gives of it.                     *)

LEMMA ChunkFacts ==
  ASSUME TypesOK, step < Turns
  PROVE  /\ size \in Nat /\ ChunkWords \in Nat \ {0} /\ ChunkOf(step) \in Nat
         /\ off \in Nat /\ off = ChunkOf(step) * ChunkWords /\ off < size
         /\ want \in Nat /\ want >= 1 /\ want <= ChunkWords /\ off + want <= size
         /\ want = ChunkWords \/ off + want = size
<1>1. /\ size \in Nat /\ ChunkWords \in Nat \ {0} /\ Turns \in Nat /\ step \in Nat
  BY TurnFacts, Parameters DEF TypesOK
<1>2. step \in 0 .. Turns - 1
  BY <1>1
<1>3. ChunkOf(step) \in Nat /\ off \in Nat /\ off < size
  BY <1>1, <1>2, TurnFacts DEF off
<1>4. /\ want \in Nat /\ want >= 1 /\ want <= ChunkWords /\ off + want <= size
      /\ want = ChunkWords \/ off + want = size
  BY <1>1, <1>3 DEF want, Least
<1> QED
  BY <1>1, <1>3, <1>4 DEF off

LEMMA GotFacts ==
  ASSUME TypesOK, step < Turns, NEW s \in Sides
  PROVE  /\ Got(s) \in Nat /\ Got(s) <= want
         /\ breaks[s] = {} => Got(s) = want
         /\ \A w \in 0 .. size - 1 :
              w \div ChunkWords = ChunkOf(step) /\ Given(s, w)
                => w - off \in 0 .. want - 1 /\ w - off < Got(s)
<1>1. /\ size \in Nat /\ ChunkWords \in Nat \ {0} /\ ChunkOf(step) \in Nat
      /\ off \in Nat /\ off = ChunkOf(step) * ChunkWords
      /\ want \in Nat /\ want >= 1 /\ want <= ChunkWords
      /\ want = ChunkWords \/ off + want = size
  BY ChunkFacts
<1>2. breaks[s] \in SUBSET Nat
  BY DEF TypesOK
<1> DEFINE all   == off .. off + want - 1
           given == {w \in all : ~\E b \in breaks[s] : off < b /\ b <= w}
<1>3. Got(s) = Cardinality(given)
  BY DEF Got
<1>4. IsFiniteSet(all) /\ Cardinality(all) = want
  <2>1. IsFiniteSet(all)
    BY <1>1, FS_Interval
  <2>2. Cardinality(all) = want
    BY <1>1, FS_Interval
  <2> QED
    BY <2>1, <2>2
<1>5. given \in SUBSET all /\ (breaks[s] = {} => given = all)
  OBVIOUS
<1>6. IsFiniteSet(given) /\ Cardinality(given) \in Nat /\ Cardinality(given) <= want
  <2> HIDE DEF all, given
  <2> QED
    BY <1>4, <1>5, FS_Subset, FS_CardinalityType
<1>7. ASSUME NEW w \in 0 .. size - 1, w \div ChunkWords = ChunkOf(step), Given(s, w)
      PROVE  w - off \in 0 .. want - 1 /\ w - off < Got(s)
  <2>1. w \in Nat /\ w < size
    BY <1>1
  <2>2. PICK m \in Nat : m < ChunkWords /\ w = off + m
    <3>1. w % ChunkWords \in 0 .. ChunkWords - 1
          /\ w = (w \div ChunkWords) * ChunkWords + (w % ChunkWords)
      BY <1>1, <2>1, DivMod
    <3>2. w = off + (w % ChunkWords)
      BY <1>1, <1>7, <3>1
    <3>3. w % ChunkWords \in Nat /\ w % ChunkWords < ChunkWords
      BY <1>1, <3>1
    <3> QED
      BY <3>2, <3>3
  <2>3. w - off = m /\ m <= want - 1
    BY <1>1, <2>1, <2>2
  <2>4. ~\E b \in breaks[s] : off < b /\ b <= w
    BY <1>1, <1>7 DEF Given
  <2>5. off .. w \in SUBSET given
    BY <1>1, <1>2, <2>2, <2>3, <2>4
  <2>6. Cardinality(off .. w) = m + 1
    BY <1>1, <2>1, <2>2, FS_Interval
  <2>7. m + 1 <= Cardinality(given)
    <3> HIDE DEF given
    <3>1. Cardinality(off .. w) <= Cardinality(given)
      BY <1>6, <2>5, FS_Subset
    <3> QED
      BY <2>6, <3>1
  <2> QED
    BY <1>1, <1>3, <1>6, <2>2, <2>3, <2>7
<1>8. breaks[s] = {} => Got(s) = want
  BY <1>3, <1>4, <1>5
<1> QED
  BY <1>3, <1>6, <1>7, <1>8

-----------------------------------------------------------------------------
(* What a step leaves alone.                                               *)

LEMMA SameImages ==
  ASSUME UNCHANGED <<image, mode, breaks>>
  PROVE  /\ size' = size /\ SizeOf("dst")' = SizeOf("dst")
         /\ Sampling' <=> Sampling
         /\ Turns' = Turns
         /\ \A i : ChunkOf(i)' = ChunkOf(i)
         /\ \A s, w : Given(s, w)' <=> Given(s, w)
<1>1. size' = size /\ SizeOf("dst")' = SizeOf("dst")
  BY DEF size, SizeOf
<1>2. Sampling' <=> Sampling
  BY <1>1 DEF Sampling
<1>3. Turns' = Turns
  BY <1>1, <1>2 DEF Turns
<1>4. \A i : ChunkOf(i)' = ChunkOf(i)
  BY <1>1, <1>2 DEF ChunkOf
<1>5. \A s, w : Given(s, w)' <=> Given(s, w)
  BY DEF Given
<1> QED
  BY <1>1, <1>2, <1>3, <1>4, <1>5

LEMMA SameChunk ==
  ASSUME UNCHANGED <<image, mode, breaks, step>>
  PROVE  off' = off /\ want' = want /\ ChunkOf(step)' = ChunkOf(step)
         /\ \A s : Got(s)' = Got(s)
<1>1. UNCHANGED <<image, mode, breaks>>
  OBVIOUS
<1>2. size' = size
  BY <1>1, SameImages
<1>3. Sampling' <=> Sampling
  BY <1>1, SameImages
<1>4. ChunkOf(step)' = ChunkOf(step)
  BY <1>2, <1>3 DEF ChunkOf
<1>5. off' = off
  BY <1>4 DEF off
<1>6. want' = want
  BY <1>2, <1>5 DEF want
<1>7. \A s : Got(s)' = Got(s)
  BY <1>5, <1>6 DEF Got
<1> QED
  BY <1>4, <1>5, <1>6, <1>7

LEMMA AgreeQuiet ==
  ASSUME AgreeOK, UNCHANGED <<image, mode, breaks, seen>>
  PROVE  AgreeOK'
<1>1. \A s, w : Given(s, w)' <=> Given(s, w)
  BY SameImages
<1>2. ASSUME NEW w \in DOMAIN image["src"], w \div ChunkWords \in seen,
             \A s \in Sides : Given(s, w)'
      PROVE  image["src"][w] = image["dst"][w]
  <2>1. \A s \in Sides : Given(s, w)
    BY <1>1, <1>2
  <2> QED
    BY <1>2, <2>1 DEF AgreeOK
<1> QED
  BY <1>2 DEF AgreeOK

LEMMA AgainstQuiet ==
  ASSUME AgainstOK, UNCHANGED <<image, breaks>>, result' \in {result, "nil", "error", "cancelled"}
  PROVE  AgainstOK'
BY DEF AgainstOK

LEMMA SamplesQuiet ==
  ASSUME SamplesOK, UNCHANGED <<image, mode, breaks, step, seen>>
  PROVE  SamplesOK'
BY SameImages DEF SamplesOK

LEMMA SettledSame ==
  ASSUME UNCHANGED copyVars, image'["src"] = image["src"], NEW c \in 1 .. NumChunks
  PROVE  Copying!Settled(c)' <=> Copying!Settled(c)
<1>1. \A d : WordsOf(d)' = WordsOf(d)
  BY DEF WordsOf
<1> QED
  BY <1>1 DEF Copying!Settled, copyVars

\* A step of the comparison does not start it when the caller has cancelled.
LEMMA SettledQuiet ==
  ASSUME SettledOK, UNCHANGED copyVars, image'["src"] = image["src"],
         ~interrupted' => ~interrupted, Begun' => Begun \/ ~interrupted
  PROVE  SettledOK'
<1> SUFFICES ASSUME outcome' = "nil", ~interrupted' \/ Begun', NEW c \in 1 .. NumChunks
             PROVE  Copying!Settled(c)'
  BY DEF SettledOK
<1>1. Copying!Settled(c)
  BY DEF SettledOK, copyVars
<1> QED
  BY <1>1, SettledSame

\* What is said of the loop holds on outside of it.
LEMMA LoopQuiet ==
  ASSUME LoopOK, UNCHANGED <<image, mode, breaks, buf, step, seen>>, task' = task,
         pc' \in {pc, "returned"}, result' = "nil" => result = "nil" \/ task = "copy"
  PROVE  LoopOK'
<1>1. UNCHANGED <<image, mode, breaks>>
  OBVIOUS
<1>2. /\ size' = size /\ SizeOf("dst")' = SizeOf("dst") /\ Turns' = Turns
  BY <1>1, SameImages
<1>3. \A i : ChunkOf(i)' = ChunkOf(i)
  BY <1>1, SameImages
<1>4. off' = off /\ \A s : Got(s)' = Got(s)
  BY SameChunk
<1>5. \A s : Filled(s)' <=> Filled(s)
  BY <1>4 DEF Filled
<1> QED
  BY <1>2, <1>3, <1>5 DEF LoopOK

-----------------------------------------------------------------------------
(* ConvertRange.                                                           *)

LEMMA CopyStepKeeps ==
  ASSUME Inv, CopyStep
  PROVE  Inv'
<1>1. /\ TypesOK /\ TaskOK /\ LoopOK /\ AgreeOK /\ AgainstOK /\ SamplesOK /\ SettledOK
      /\ task = "copy" /\ outcome = "none"
      /\ UNCHANGED <<pc, mode, image, breaks, buf, step, seen, interrupted, result, task>>
  BY DEF Inv, CopyStep, vars
<1>2. \/ outcome' = "none"
      \/ /\ outcome' \in {"nil", "error"} /\ UNCHANGED <<copied, clipped>>
         /\ outcome' = "nil" => interrupted \/ \A c \in 1 .. NumChunks : Copying!Settled(c)
  <2>1. CASE \E c \in 1 .. NumChunks : Copying!Clip(c) \/ Copying!Copy(c)
    BY <1>1, <2>1 DEF Copying!Clip, Copying!Copy
  <2>2. CASE Copying!Fail
    BY <1>1, <2>2 DEF Copying!Fail
  <2>3. CASE Copying!Finish
    <3>1. /\ UNCHANGED <<copied, clipped>>
          /\ outcome' = IF failed THEN "error" ELSE "nil"
          /\ failed \/ interrupted \/ \A c \in Copying!Chunks : Copying!Settled(c)
      BY <2>3 DEF Copying!Finish
    <3>2. Copying!Chunks = 1 .. NumChunks
      BY DEF Copying!Chunks
    <3> QED
      BY <3>1, <3>2
  <2> QED
    BY <2>1, <2>2, <2>3 DEF CopyStep
<1>3. TypesOK'
  <2>1. size' = size
    BY <1>1, SameImages
  <2> QED
    BY <1>1, <1>2, <2>1 DEF TypesOK
<1>4. TaskOK'
  BY <1>1, <1>2 DEF TaskOK, TypesOK
<1>5. LoopOK' /\ AgreeOK' /\ AgainstOK' /\ SamplesOK'
  BY <1>1, LoopQuiet, AgreeQuiet, AgainstQuiet, SamplesQuiet
<1>6. SettledOK'
  <2> SUFFICES ASSUME outcome' = "nil", ~interrupted, NEW c \in 1 .. NumChunks
               PROVE  Copying!Settled(c)'
    BY <1>1 DEF SettledOK, Begun
  <2>1. Copying!Settled(c) /\ UNCHANGED <<copied, clipped>>
    BY <1>2
  <2>2. \A d : WordsOf(d)' = WordsOf(d)
    BY <1>1 DEF WordsOf
  <2> QED
    BY <1>1, <2>1, <2>2 DEF Copying!Settled
<1> QED
  BY <1>3, <1>4, <1>5, <1>6 DEF Inv

LEMMA CopyReturnsKeeps ==
  ASSUME Inv, CopyReturns
  PROVE  Inv'
<1>1. /\ TypesOK /\ TaskOK /\ LoopOK /\ AgreeOK /\ AgainstOK /\ SamplesOK /\ SettledOK
      /\ task = "copy" /\ pc = "open" /\ outcome # "none"
      /\ outcome = "error" \/ mode = "none"
      /\ pc' = "returned" /\ result' = outcome
      /\ UNCHANGED <<mode, image, breaks, buf, step, seen, interrupted, task>>
      /\ UNCHANGED copyVars /\ outcome' = outcome
  BY DEF Inv, CopyReturns, copyVars
<1>2. size' = size /\ outcome \in {"nil", "error"}
  BY <1>1, SameImages DEF TypesOK
<1>3. TypesOK'
  BY <1>1, <1>2 DEF TypesOK
<1>4. TaskOK'
  BY <1>1 DEF TaskOK
<1>5. LoopOK' /\ AgreeOK' /\ AgainstOK' /\ SamplesOK'
  BY <1>1, <1>2, LoopQuiet, AgreeQuiet, AgainstQuiet, SamplesQuiet
<1>6. SettledOK'
  BY <1>1, SettledQuiet DEF Begun
<1> QED
  BY <1>3, <1>4, <1>5, <1>6 DEF Inv

LEMMA VerifyOutputKeeps ==
  ASSUME Inv, VerifyOutput
  PROVE  Inv'
<1>1. /\ TypesOK /\ TaskOK /\ LoopOK /\ SettledOK
      /\ task = "copy" /\ outcome = "nil" /\ mode # "none" /\ task' = "verify"
      /\ UNCHANGED <<pc, mode, breaks, buf, step, seen, interrupted, result>>
      /\ UNCHANGED copyVars /\ outcome' = outcome
  BY DEF Inv, VerifyOutput, copyVars
<1>2. pc = "open" /\ result = "none" /\ step = 0
  BY <1>1 DEF TaskOK, TypesOK
<1>3. image' \in [Sides -> Images] /\ image'["src"] = image["src"]
  <2>1. PICK n \in {ImageWords, ceilDiv(ImageWords, SectorWords) * SectorWords} :
             \E lost \in IF MayLose THEN SUBSET (0 .. n - 1) ELSE {{}} :
               image' = [image EXCEPT !["dst"] =
                          [w \in 0 .. n - 1 |-> IF w \in lost THEN 0 ELSE Copy(w)]]
    BY DEF VerifyOutput
  <2>2. PICK lost : image' = [image EXCEPT !["dst"] =
                               [w \in 0 .. n - 1 |-> IF w \in lost THEN 0 ELSE Copy(w)]]
    BY <2>1
  <2>3. n \in Nat
    BY Parameters, CeilDivCovers, Multiples
  <2>4. ASSUME NEW w \in 0 .. n - 1 PROVE (IF w \in lost THEN 0 ELSE Copy(w)) \in Values
    <3>1. image["src"] \in [DOMAIN image["src"] -> Values]
      BY <1>1, SizeFacts DEF TypesOK, Sides
    <3>2. Copy(w) \in Values
      BY <3>1 DEF Copy, Values
    <3> QED
      BY <3>2 DEF Values
  <2> DEFINE f == [w \in 0 .. n - 1 |-> IF w \in lost THEN 0 ELSE Copy(w)]
  <2>5. f \in [0 .. n - 1 -> Values]
    BY <2>4
  <2>6. f \in Images
    BY <2>3, <2>5, ImageSize
  <2>7. image' = [image EXCEPT !["dst"] = f]
    BY <2>2
  <2> HIDE DEF f
  <2> QED
    BY <1>1, <2>6, <2>7 DEF TypesOK, Sides
<1>4. size' = size
  BY <1>3 DEF size, SizeOf
<1>5. TypesOK'
  BY <1>1, <1>3, <1>4 DEF TypesOK
<1>6. TaskOK'
  BY <1>1, <1>2 DEF TaskOK
<1>7. seen' = {} /\ step' = 0 /\ pc' = "open" /\ result' = "none"
  BY <1>1, <1>2 DEF LoopOK
<1>8. LoopOK'
  <2>1. Turns' \in Nat
    <3>1. Sampling' <=> Sampling
      BY <1>1, <1>4 DEF Sampling
    <3>2. Turns' = Turns
      BY <1>4, <3>1 DEF Turns
    <3> QED
      BY <1>1, <3>2, TurnFacts
  <2> QED
    BY <1>7, <2>1 DEF LoopOK
<1>9. AgreeOK' /\ AgainstOK'
  BY <1>7 DEF AgreeOK, AgainstOK
<1>10. SamplesOK'
  BY <1>7, FS_EmptySet DEF SamplesOK
<1>11. SettledOK'
  BY <1>1, <1>3, <1>7, SettledQuiet DEF Begun
<1> QED
  BY <1>5, <1>6, <1>8, <1>9, <1>10, <1>11 DEF Inv

-----------------------------------------------------------------------------
(* VerifyRange and CompareReaders.                                         *)

LEMMA OpenKeeps ==
  ASSUME Inv, Comparing, Open
  PROVE  Inv'
<1>1. /\ TypesOK /\ TaskOK /\ LoopOK /\ AgreeOK /\ AgainstOK /\ SamplesOK /\ SettledOK
      /\ task # "copy" /\ pc = "open"
      /\ UNCHANGED <<mode, image, breaks, buf, step, seen, interrupted, task>>
      /\ UNCHANGED copyVars /\ outcome' = outcome
      /\ \/ SizeOf("dst") = size /\ pc' = "src" /\ result' = result
         \/ SizeOf("dst") # size /\ pc' = "returned" /\ result' = "size"
  BY DEF Inv, Comparing, Open, copyVars
<1>2. /\ size' = size /\ SizeOf("dst")' = SizeOf("dst") /\ Turns' = Turns
      /\ \A i : ChunkOf(i)' = ChunkOf(i)
  BY <1>1, SameImages
<1>3. TypesOK' /\ TaskOK'
  BY <1>1, <1>2 DEF TypesOK, TaskOK
<1>4. LoopOK'
  BY <1>1, <1>2 DEF LoopOK, TypesOK
<1>5. AgreeOK' /\ SamplesOK'
  BY <1>1, AgreeQuiet, SamplesQuiet
<1>6. AgainstOK'
  <2>1. SizeOf("dst") # size => image["src"] # image["dst"]
    BY DEF size, SizeOf
  <2> QED
    BY <1>1, <2>1 DEF AgainstOK, TypesOK
<1>7. SettledOK'
  BY <1>1, SettledQuiet DEF Begun
<1> QED
  BY <1>3, <1>4, <1>5, <1>6, <1>7 DEF Inv

LEMMA FillFacts ==
  ASSUME TypesOK, step < Turns, NEW s \in Sides, SizeOf(s) = size, Fill(s)
  PROVE  /\ buf' \in [Sides -> [0 .. ChunkWords - 1 -> Values]]
         /\ \A i \in 0 .. ChunkWords - 1 : i < Got(s) => buf'[s][i] = image[s][off + i]
         /\ \A t \in Sides \ {s} : buf'[t] = buf[t]
<1>1. /\ size \in Nat /\ ChunkWords \in Nat /\ off \in Nat /\ want \in Nat /\ off + want <= size
      /\ Got(s) \in Nat /\ Got(s) <= want
  BY ChunkFacts, GotFacts
<1>2. image[s] \in [0 .. size - 1 -> Values]
  BY SizeFacts DEF TypesOK
<1>3. buf \in [Sides -> [0 .. ChunkWords - 1 -> Values]]
  BY DEF TypesOK
<1> DEFINE held == [i \in 0 .. ChunkWords - 1 |->
                      IF i < Got(s) THEN image[s][off + i] ELSE buf[s][i]]
<1>4. ASSUME NEW i \in 0 .. ChunkWords - 1
      PROVE  (IF i < Got(s) THEN image[s][off + i] ELSE buf[s][i]) \in Values
  <2>1. CASE i < Got(s)
    <3>1. off + i \in 0 .. size - 1
      BY <1>1, <2>1
    <3> QED
      BY <1>2, <2>1, <3>1
  <2>2. CASE ~(i < Got(s))
    BY <1>3, <2>2
  <2> QED
    BY <2>1, <2>2
<1>5. held \in [0 .. ChunkWords - 1 -> Values]
  BY <1>4
<1>6. buf' = [buf EXCEPT ![s] = held]
  BY <1>3 DEF Fill
<1>7. \A i \in 0 .. ChunkWords - 1 : i < Got(s) => held[i] = image[s][off + i]
  OBVIOUS
<1> HIDE DEF held
<1> QED
  BY <1>3, <1>5, <1>6, <1>7

LEMMA ReadSourceKeeps ==
  ASSUME Inv, Comparing, ReadSource
  PROVE  Inv'
<1>1. /\ TypesOK /\ TaskOK /\ LoopOK /\ AgreeOK /\ AgainstOK /\ SamplesOK /\ SettledOK
      /\ task # "copy" /\ pc = "src" /\ step < Turns /\ ~interrupted
      /\ Fill("src") /\ pc' = "dst"
      /\ UNCHANGED <<mode, image, breaks, step, seen, interrupted, result, task>>
      /\ UNCHANGED copyVars /\ outcome' = outcome
  BY DEF Inv, Comparing, ReadSource, copyVars
<1>2. /\ size' = size /\ SizeOf("dst")' = SizeOf("dst") /\ Turns' = Turns
      /\ \A i : ChunkOf(i)' = ChunkOf(i)
  BY <1>1, SameImages
<1>3. off' = off /\ \A s : Got(s)' = Got(s)
  BY <1>1, SameChunk
<1>4. /\ buf' \in [Sides -> [0 .. ChunkWords - 1 -> Values]]
      /\ \A i \in 0 .. ChunkWords - 1 : i < Got("src") => buf'["src"][i] = image["src"][off + i]
  BY <1>1, FillFacts DEF size, Sides
<1>5. TypesOK' /\ TaskOK'
  BY <1>1, <1>2, <1>4 DEF TypesOK, TaskOK
<1>6. Filled("src")'
  BY <1>1, <1>3, <1>4 DEF Filled
<1>7. LoopOK'
  BY <1>1, <1>2, <1>6 DEF LoopOK, TypesOK
<1>8. AgreeOK' /\ AgainstOK' /\ SamplesOK'
  BY <1>1, AgreeQuiet, AgainstQuiet, SamplesQuiet
<1>9. SettledOK'
  BY <1>1, SettledQuiet
<1> QED
  BY <1>5, <1>7, <1>8, <1>9 DEF Inv

LEMMA ReadDestinationKeeps ==
  ASSUME Inv, Comparing, ReadDestination
  PROVE  Inv'
<1>1. /\ TypesOK /\ TaskOK /\ LoopOK /\ AgreeOK /\ AgainstOK /\ SamplesOK /\ SettledOK
      /\ task # "copy" /\ pc = "dst" /\ Fill("dst") /\ pc' = "compare"
      /\ UNCHANGED <<mode, image, breaks, step, seen, interrupted, result, task>>
      /\ UNCHANGED copyVars /\ outcome' = outcome
  BY DEF Inv, Comparing, ReadDestination, copyVars
<1>2. /\ size' = size /\ SizeOf("dst")' = SizeOf("dst") /\ Turns' = Turns
      /\ \A i : ChunkOf(i)' = ChunkOf(i)
  BY <1>1, SameImages
<1>3. off' = off /\ \A s : Got(s)' = Got(s)
  BY <1>1, SameChunk
<1>4. step < Turns /\ SizeOf("dst") = size /\ Filled("src")
  BY <1>1 DEF LoopOK
<1>5. /\ buf' \in [Sides -> [0 .. ChunkWords - 1 -> Values]]
      /\ \A i \in 0 .. ChunkWords - 1 : i < Got("dst") => buf'["dst"][i] = image["dst"][off + i]
      /\ buf'["src"] = buf["src"]
  BY <1>1, <1>4, FillFacts DEF Sides
<1>6. TypesOK' /\ TaskOK'
  BY <1>1, <1>2, <1>5 DEF TypesOK, TaskOK
<1>7. Filled("src")' /\ Filled("dst")'
  BY <1>1, <1>3, <1>4, <1>5 DEF Filled
<1>8. LoopOK'
  BY <1>1, <1>2, <1>4, <1>7 DEF LoopOK, TypesOK
<1>9. AgreeOK' /\ AgainstOK' /\ SamplesOK'
  BY <1>1, AgreeQuiet, AgainstQuiet, SamplesQuiet
<1>10. SettledOK'
  BY <1>1, SettledQuiet DEF Begun
<1> QED
  BY <1>6, <1>8, <1>9, <1>10 DEF Inv

LEMMA MismatchKeeps ==
  ASSUME Inv, Comparing, Mismatch
  PROVE  Inv'
<1>1. /\ TypesOK /\ TaskOK /\ LoopOK /\ AgreeOK /\ AgainstOK /\ SamplesOK /\ SettledOK
      /\ task # "copy" /\ pc = "compare" /\ Differ
      /\ pc' = "returned" /\ result' = "mismatch"
      /\ UNCHANGED <<mode, image, breaks, buf, step, seen, interrupted, task>>
      /\ UNCHANGED copyVars /\ outcome' = outcome
  BY DEF Inv, Comparing, Mismatch, copyVars
<1>2. size' = size
  BY <1>1, SameImages
<1>3. TypesOK' /\ TaskOK'
  BY <1>1, <1>2 DEF TypesOK, TaskOK
<1>4. LoopOK' /\ AgreeOK' /\ SamplesOK'
  BY <1>1, LoopQuiet, AgreeQuiet, SamplesQuiet
<1>5. AgainstOK'
  <2> SUFFICES ASSUME \A s \in Sides : breaks[s] = {} PROVE image["src"] # image["dst"]
    BY <1>1 DEF AgainstOK
  <2>1. /\ step < Turns /\ Filled("src") /\ Filled("dst")
        /\ "src" \in Sides /\ "dst" \in Sides
    BY <1>1 DEF LoopOK, Sides
  <2>2. PICK i \in 0 .. want - 1 : buf["src"][i] # buf["dst"][i]
    BY <1>1 DEF Differ
  <2>3. want \in Nat /\ want <= ChunkWords /\ ChunkWords \in Nat
    BY <1>1, <2>1, ChunkFacts
  <2>4. Got("src") = want /\ Got("dst") = want
    BY <1>1, <2>1, GotFacts
  <2>5. i \in 0 .. ChunkWords - 1 /\ i < want
    BY <2>3
  <2>6. buf["src"][i] = image["src"][off + i] /\ buf["dst"][i] = image["dst"][off + i]
    BY <2>1, <2>4, <2>5 DEF Filled
  <2> QED
    BY <2>2, <2>6
<1>6. SettledOK'
  BY <1>1, SettledQuiet DEF Begun
<1> QED
  BY <1>3, <1>4, <1>5, <1>6 DEF Inv

\* Words that both readers gave are in both buffers, and those agree.
LEMMA ChunkAgrees ==
  ASSUME TypesOK, LoopOK, pc = "compare", ~Differ, NEW w \in DOMAIN image["src"],
         w \div ChunkWords = ChunkOf(step), \A s \in Sides : Given(s, w)
  PROVE  image["src"][w] = image["dst"][w]
<1>1. /\ step < Turns /\ Filled("src") /\ Filled("dst")
      /\ "src" \in Sides /\ "dst" \in Sides
  BY DEF LoopOK, Sides
<1>2. /\ size \in Nat /\ off \in Nat /\ want \in Nat /\ want <= ChunkWords /\ ChunkWords \in Nat
  BY <1>1, ChunkFacts
<1>3. w \in 0 .. size - 1 /\ w \in Nat
  BY <1>1, <1>2, SizeFacts DEF TypesOK, size
<1>4. w - off \in 0 .. want - 1 /\ w - off < Got("src") /\ w - off < Got("dst")
  BY <1>1, <1>3, GotFacts
<1>5. PICK i \in 0 .. want - 1 : i = w - off
  BY <1>4
<1>6. i \in 0 .. ChunkWords - 1 /\ off + i = w /\ i < Got("src") /\ i < Got("dst")
  BY <1>2, <1>3, <1>4, <1>5
<1>7. buf["src"][i] = image["src"][w] /\ buf["dst"][i] = image["dst"][w]
  BY <1>1, <1>6 DEF Filled
<1>8. buf["src"][i] = buf["dst"][i]
  BY DEF Differ
<1> QED
  BY <1>7, <1>8

LEMMA MatchKeeps ==
  ASSUME Inv, Comparing, Match
  PROVE  Inv'
<1>1. /\ TypesOK /\ TaskOK /\ LoopOK /\ AgreeOK /\ AgainstOK /\ SamplesOK /\ SettledOK
      /\ task # "copy" /\ pc = "compare" /\ ~Differ
      /\ seen' = seen \union {ChunkOf(step)} /\ step' = step + 1 /\ pc' = "src"
      /\ UNCHANGED <<mode, image, breaks, buf, interrupted, result, task>>
      /\ UNCHANGED copyVars /\ outcome' = outcome
  BY DEF Inv, Comparing, Match, copyVars
<1>2. /\ size' = size /\ SizeOf("dst")' = SizeOf("dst") /\ Turns' = Turns
      /\ Sampling' <=> Sampling
  BY <1>1, SameImages
<1>3. \A i : ChunkOf(i)' = ChunkOf(i)
  BY <1>1, SameImages
<1>4. \A s, w : Given(s, w)' <=> Given(s, w)
  BY <1>1, SameImages
<1>5. /\ step \in Nat /\ step < Turns /\ Turns \in Nat /\ SizeOf("dst") = size
      /\ seen = {ChunkOf(j) : j \in 0 .. step - 1}
  BY <1>1, TurnFacts DEF LoopOK, TypesOK
<1>6. TypesOK' /\ TaskOK'
  BY <1>1, <1>2, <1>5 DEF TypesOK, TaskOK
<1>7. LoopOK'
  <2>1. 0 .. step' - 1 = (0 .. step - 1) \union {step}
    BY <1>1, <1>5
  <2>2. seen' = {ChunkOf(j) : j \in 0 .. step' - 1}
    BY <1>1, <1>5, <2>1
  <2>3. seen' = {ChunkOf(j)' : j \in 0 .. step' - 1}
    BY <1>3, <2>2
  <2>4. step' <= Turns
    BY <1>1, <1>5
  <2>5. result' = "none"
    BY <1>1 DEF TypesOK
  <2> QED
    BY <1>1, <1>2, <1>5, <2>3, <2>4, <2>5 DEF LoopOK
<1>8. AgreeOK'
  <2> SUFFICES ASSUME NEW w \in DOMAIN image["src"], w \div ChunkWords \in seen',
                      \A s \in Sides : Given(s, w)'
               PROVE  image["src"][w] = image["dst"][w]
    BY <1>1 DEF AgreeOK
  <2>1. \A s \in Sides : Given(s, w)
    BY <1>4
  <2>2. CASE w \div ChunkWords \in seen
    BY <1>1, <2>1, <2>2 DEF AgreeOK
  <2>3. CASE w \div ChunkWords = ChunkOf(step)
    BY <1>1, <2>1, <2>3, ChunkAgrees
  <2> QED
    BY <1>1, <2>2, <2>3
<1>9. AgainstOK'
  BY <1>1, AgainstQuiet
<1>10. SamplesOK'
  <2> SUFFICES ASSUME Sampling PROVE IsFiniteSet(seen') /\ Cardinality(seen') = step + 1
    BY <1>1, <1>2 DEF SamplesOK
  <2>1. Turns = Samples /\ Samples \in Nat
    BY Parameters DEF Turns
  <2>2. \A j \in 0 .. step - 1 : ChunkOf(j) # ChunkOf(step)
    <3>1. ASSUME NEW j \in 0 .. step - 1
          PROVE  j \in 0 .. Samples - 1 /\ step \in 0 .. Samples - 1 /\ j < step
      BY <1>5, <2>1
    <3> QED
      BY <1>1, <3>1, SamplesApart
  <2>3. ChunkOf(step) \notin seen
    BY <1>5, <2>2
  <2>4. IsFiniteSet(seen) /\ Cardinality(seen) = step
    BY <1>1 DEF SamplesOK
  <2> QED
    BY <1>1, <2>3, <2>4, FS_AddElement
<1>11. SettledOK'
  BY <1>1, SettledQuiet DEF Begun
<1> QED
  BY <1>6, <1>7, <1>8, <1>9, <1>10, <1>11 DEF Inv

\* The comparison ends: with no error only when every turn has been taken.
LEMMA EndKeeps ==
  ASSUME Inv, Comparing, Returned \/ Fails \/ Cancelled
  PROVE  Inv'
<1>1. /\ TypesOK /\ TaskOK /\ LoopOK /\ AgreeOK /\ AgainstOK /\ SamplesOK /\ SettledOK
      /\ task # "copy" /\ pc # "returned"
      /\ pc' = "returned" /\ result' \in {"nil", "error", "cancelled"}
      /\ result' = "nil" => pc = "src" /\ step >= Turns
      /\ UNCHANGED <<mode, image, breaks, buf, step, seen, interrupted, task>>
      /\ UNCHANGED copyVars /\ outcome' = outcome
  BY DEF Inv, Comparing, Returned, Fails, Cancelled, copyVars
<1>2. /\ size' = size /\ SizeOf("dst")' = SizeOf("dst") /\ Turns' = Turns
      /\ \A i : ChunkOf(i)' = ChunkOf(i)
  BY <1>1, SameImages
<1>3. TypesOK' /\ TaskOK'
  BY <1>1, <1>2 DEF TypesOK, TaskOK
<1>4. LoopOK'
  <2>1. result' = "nil" => step = Turns /\ SizeOf("dst") = size
    BY <1>1, TurnFacts DEF LoopOK, TypesOK
  <2> QED
    BY <1>1, <1>2, <2>1 DEF LoopOK
<1>5. AgreeOK' /\ AgainstOK' /\ SamplesOK'
  BY <1>1, AgreeQuiet, AgainstQuiet, SamplesQuiet
<1>6. SettledOK'
  BY <1>1, SettledQuiet DEF Begun
<1> QED
  BY <1>3, <1>4, <1>5, <1>6 DEF Inv

\* The caller cancels, or nothing happens.
LEMMA CancelKeeps ==
  ASSUME Inv, Cancel \/ UNCHANGED convertVars
  PROVE  Inv'
<1>1. /\ TypesOK /\ TaskOK /\ LoopOK /\ AgreeOK /\ AgainstOK /\ SamplesOK /\ SettledOK
      /\ UNCHANGED <<pc, mode, image, breaks, buf, step, seen, result, task>>
      /\ UNCHANGED copyVars /\ outcome' = outcome
      /\ interrupted' \in BOOLEAN /\ (~interrupted' => ~interrupted)
  BY DEF Inv, Cancel, Interrupt, convertVars, vars, copyVars, TypesOK
<1>2. size' = size
  BY <1>1, SameImages
<1>3. TypesOK' /\ TaskOK'
  BY <1>1, <1>2 DEF TypesOK, TaskOK
<1>4. LoopOK' /\ AgreeOK' /\ AgainstOK' /\ SamplesOK'
  BY <1>1, LoopQuiet, AgreeQuiet, AgainstQuiet, SamplesQuiet
<1>5. SettledOK'
  BY <1>1, SettledQuiet DEF Begun
<1> QED
  BY <1>3, <1>4, <1>5 DEF Inv

-----------------------------------------------------------------------------

LEMMA InvInit == ConvertInit => Inv
<1> SUFFICES ASSUME ConvertInit PROVE Inv
  OBVIOUS
<1>1. /\ pc = "open" /\ mode \in Modes /\ step = 0 /\ seen = {} /\ interrupted = FALSE
      /\ result = "none" /\ outcome = "none"
      /\ breaks \in [Sides -> {B \in SUBSET (1 .. size - 1) : Cardinality(B) <= MaxBreaks}]
      /\ buf = [s \in Sides |-> [i \in 0 .. ChunkWords - 1 |-> 0]]
      /\ task \in {"compare", "copy"}
      /\ task = "compare" => mode # "none"
      /\ task = "copy" => breaks["dst"] = {}
  <2>1. Init
    BY DEF ConvertInit
  <2>2. /\ task \in {"compare", "copy"} /\ outcome = "none"
        /\ task = "compare" => mode # "none"
        /\ task = "copy" => breaks["dst"] = {}
    BY DEF ConvertInit
  <2> QED
    BY <2>1, <2>2 DEF Init
<1>2. image \in [Sides -> Images] /\ size >= 1
  <2>1. PICK m \in Sizes, n \in Sizes :
          image \in [Sides -> UNION {[0 .. k - 1 -> Values] : k \in {m, n}}]
    BY DEF ConvertInit, Init
  <2>2. m \in Nat \ {0} /\ n \in Nat \ {0}
    BY SizesAssumption
  <2>3. ASSUME NEW s \in Sides
        PROVE  \E k \in Nat \ {0} : image[s] \in [0 .. k - 1 -> Values]
    BY <2>1, <2>2
  <2>4. ASSUME NEW s \in Sides PROVE image[s] \in Images
    BY <2>3, ImageSize
  <2>5. DOMAIN image = Sides /\ image = [s \in Sides |-> image[s]]
    BY <2>1
  <2>6. image \in [Sides -> Images]
    BY <2>4, <2>5
  <2>7. PICK k \in Nat \ {0} : image["src"] \in [0 .. k - 1 -> Values]
    BY <2>3 DEF Sides
  <2>8. size = k
    BY <2>7, ImageSize DEF size, SizeOf
  <2> QED
    BY <2>6, <2>8
<1>3. size \in Nat
  BY <1>2, SizeFacts DEF size, Sides
<1>4. TypesOK
  <2>1. breaks \in [Sides -> SUBSET Nat]
    <3>1. \A B \in {B \in SUBSET (1 .. size - 1) : Cardinality(B) <= MaxBreaks} : B \in SUBSET Nat
      BY <1>3
    <3> QED
      BY <1>1, <3>1
  <2>2. buf \in [Sides -> [0 .. ChunkWords - 1 -> Values]]
    BY <1>1 DEF Values
  <2>3. mode \in {"none", "full", "sample"}
    BY <1>1, SizesAssumption
  <2>4. step \in Nat /\ interrupted \in BOOLEAN
    BY <1>1
  <2> QED
    BY <1>1, <1>2, <2>1, <2>2, <2>3, <2>4 DEF TypesOK
<1>5. TaskOK
  BY <1>1 DEF TaskOK
<1>6. LoopOK
  <2>1. Turns \in Nat /\ Turns >= 1
    BY <1>4, TurnFacts
  <2>2. 0 .. step - 1 = {}
    BY <1>1
  <2> QED
    BY <1>1, <2>1, <2>2 DEF LoopOK
<1>7. AgreeOK /\ AgainstOK
  BY <1>1 DEF AgreeOK, AgainstOK
<1>8. SamplesOK
  BY <1>1, FS_EmptySet DEF SamplesOK
<1>9. SettledOK
  BY <1>1 DEF SettledOK
<1> QED
  BY <1>4, <1>5, <1>6, <1>7, <1>8, <1>9 DEF Inv

LEMMA InvNext == Inv /\ [ConvertNext]_convertVars => Inv'
<1> SUFFICES ASSUME Inv, [ConvertNext]_convertVars PROVE Inv'
  OBVIOUS
<1>1. CASE CopyStep
  BY <1>1, CopyStepKeeps
<1>2. CASE CopyReturns
  BY <1>2, CopyReturnsKeeps
<1>3. CASE VerifyOutput
  BY <1>3, VerifyOutputKeeps
<1>4. CASE Comparing
  <2>1. \/ Open \/ ReadSource \/ ReadDestination \/ Mismatch \/ Match
        \/ Returned \/ Fails \/ Cancelled
    BY <1>4 DEF Comparing, CompareStep
  <2> QED
    BY <1>4, <2>1, OpenKeeps, ReadSourceKeeps, ReadDestinationKeeps, MismatchKeeps,
       MatchKeeps, EndKeeps
<1>5. CASE Cancel \/ Stopped \/ UNCHANGED convertVars
  BY <1>5, CancelKeeps DEF Stopped
<1> QED
  BY <1>1, <1>2, <1>3, <1>4, <1>5 DEF ConvertNext

\* The invariant holds of every comparison, and of every conversion: ConvertRange
\* and then VerifyRange.
LEMMA InvHolds == ConvertSpec => []Inv
BY InvInit, InvNext, PTL DEF ConvertSpec

-----------------------------------------------------------------------------

\* What VerifyRange and CompareReaders return is right: images found to be the
\* same agree wherever both readers gave what a compared chunk holds, a full
\* comparison compares every chunk, and readers that stop nowhere let no
\* difference be found in images that have none.
THEOREM VerdictIsRight == ConvertSpec => []Verdict
<1>1. Inv => Verdict
  <2> SUFFICES ASSUME Inv PROVE Verdict
    OBVIOUS
  <2>1. ASSUME result = "nil", mode # "none", ~Sampling
        PROVE  seen = 0 .. ceilDiv(size, ChunkWords) - 1
    <3>1. task # "copy"
      BY <2>1 DEF Inv, TaskOK, TypesOK
    <3>2. step = Turns /\ Turns = ceilDiv(size, ChunkWords) /\ \A i : ChunkOf(i) = i
      BY <2>1, <3>1 DEF Inv, LoopOK, Turns, ChunkOf
    <3>3. seen = {ChunkOf(j) : j \in 0 .. step - 1}
      BY DEF Inv, LoopOK
    <3> QED
      BY <3>2, <3>3
  <2> QED
    BY <2>1 DEF Inv, AgreeOK, AgainstOK, Verdict
<1> QED
  BY <1>1, InvHolds, PTL

\* Samples, rounded down to chunks, are never spent on the same chunk twice,
\* whatever the sizes of image and chunk.
THEOREM SamplesAreDistinct == ConvertSpec => []SamplesDistinct
<1>1. Inv => SamplesDistinct
  BY DEF Inv, SamplesOK, SamplesDistinct
<1> QED
  BY <1>1, InvHolds, PTL

\* A conversion that was verified and found good left nothing out, although
\* ConvertRange returns nil when it is cancelled: VerifyRange would have seen the
\* cancellation; after a full verification the output holds every word that the
\* reader of the source gave, whatever became of Close.
THEOREM VerifiedLeftNothingOut == ConvertSpec => []ConvertVerdict
<1>1. Inv => ConvertVerdict
  <2> SUFFICES ASSUME Inv, result = "nil", task = "verify" PROVE ConvertVerdict
    BY DEF ConvertVerdict
  <2>1. TypesOK /\ mode # "none" /\ outcome = "nil" /\ breaks["dst"] = {}
    BY DEF Inv, TaskOK
  <2>2. step = Turns /\ SizeOf("dst") = size
    BY DEF Inv, LoopOK
  <2>3. step > 0
    BY <2>1, <2>2, TurnFacts
  <2>4. \A c \in 1 .. NumChunks : Copying!Settled(c)
    BY <2>1, <2>3 DEF Inv, SettledOK, Begun
  <2>5. ASSUME mode = "full", NEW w \in DOMAIN image["src"], Given("src", w)
        PROVE  image["dst"][w] = image["src"][w]
    <3>1. ~Sampling /\ (\A i : ChunkOf(i) = i) /\ Turns = ceilDiv(size, ChunkWords)
      BY <2>5 DEF Sampling, ChunkOf, Turns
    <3>2. size \in Nat /\ ChunkWords \in Nat \ {0} /\ w \in Nat /\ w < size
      <4>1. size \in Nat /\ DOMAIN image["src"] = 0 .. size - 1
        BY <2>1, SizeFacts DEF TypesOK, size, Sides
      <4> QED
        BY <4>1, Parameters
    <3>3. w \div ChunkWords \in Nat /\ w \div ChunkWords < Turns
      <4>1. PICK t \in Nat : t = ceilDiv(size, ChunkWords) /\ size <= t * ChunkWords
        BY <3>2, CeilDivCovers
      <4>2. t * ChunkWords \in Nat
        BY <3>2, Multiples
      <4>3. w < t * ChunkWords
        BY <3>2, <4>1, <4>2
      <4> QED
        BY <3>1, <3>2, <4>1, <4>3, DivMod, QuotientBelow
    <3>4. w \div ChunkWords \in 0 .. step - 1
      BY <2>1, <2>2, <3>3, TurnFacts
    <3>5. seen = {ChunkOf(j) : j \in 0 .. step - 1}
      BY DEF Inv, LoopOK
    <3>6. w \div ChunkWords \in seen
      BY <3>1, <3>4, <3>5
    <3>7. Given("dst", w)
      BY <2>1 DEF Given
    <3> QED
      BY <2>5, <3>6, <3>7 DEF Inv, AgreeOK, Sides
  <2> QED
    BY <2>2, <2>4, <2>5 DEF ConvertVerdict
<1> QED
  BY <1>1, InvHolds, PTL
=============================================================================
