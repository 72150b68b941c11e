------------------------ MODULE DeviceProfileProofs ------------------------
(***************************************************************************)
(* Theorems about DeviceProfile for every value a command may give and     *)
(* every status.  The two round trips are proved for the bytes and the     *)
(* 32-bit word of the code, which are beyond TLC's integers; the others    *)
(* for every Base.                                                         *)
(***************************************************************************)
EXTENDS DeviceProfile, TLAPS

(* What was sent is the encoding of the profile unless a command failed    *)
(* since, and the flags say whether one did.                               *)
ProfileInv ==
  /\ ProfileTypeOK
  /\ FailureSticks
  /\ sent # << >> /\ ~spoilt => sent = Encoded(profile)

(* A byte is an int, for every width of a byte. *)
LEMMA BytesAreInts ==
  ASSUME NEW n \in 0 .. Base - 1
  PROVE  n \in Ints /\ luaL_checkint(n) = n
<1>1. Base \in Nat /\ Base >= 3
  BY BaseAssumption
<1> DEFINE square == Base * Base
           cube == square * Base
<1>2. square \in Nat /\ square >= 3 * Base
  BY <1>1
<1> HIDE DEF square
<1>3. cube \in Nat /\ cube >= 3 * square
  BY <1>1, <1>2
<1> HIDE DEF cube
<1>4. cube * Base \in Nat /\ cube * Base >= 3 * cube
  BY <1>1, <1>3
<1>5. Word = cube * Base
  BY DEF Word, cube, square
<1>6. Word \in Nat /\ Word >= 2 * Base
  BY <1>1, <1>2, <1>3, <1>4, <1>5
<1>7. n <= Word \div 2 - 1 /\ n >= -(Word \div 2) /\ n \in Int /\ Word \div 2 \in Int
  <2>1. \A w \in Nat : w >= 2 * Base => w \div 2 \in Int /\ w \div 2 >= Base
    BY <1>1
  <2> QED
    BY <1>1, <1>6, <2>1
<1> QED
  BY <1>7 DEF Ints, luaL_checkint

LEMMA MergedType ==
  ASSUME NEW p \in Profile, NEW m \in Command
  PROVE  Merged(p, m) \in Profile
<1>1. /\ m.brightness \in Values /\ m.time \in Values
      /\ m.brightness.n \in Int /\ m.time \in Times
  BY ValuesAssumption DEF Command, Values
<1>2. p.cmdType \in {0, 1, 2} /\ p.power \in {0, 1} /\ p.brightness \in Int
      /\ p.time \in Times \union {Number(0)}
  BY DEF Profile
<1>3. string2Int(m.brightness) \in Int
  BY <1>1 DEF string2Int
<1> DEFINE cmdType == IF m.cmd_type = "control" THEN 1
                      ELSE IF m.cmd_type = "query" THEN 2 ELSE p.cmdType
           power == IF m.power = "on" THEN 1 ELSE IF m.power = "off" THEN 0 ELSE p.power
           brightness == IF m.brightness # Absent THEN string2Int(m.brightness)
                         ELSE p.brightness
           time == IF m.time # Absent THEN m.time ELSE p.time
<1>4. cmdType \in {0, 1, 2} /\ power \in {0, 1} /\ brightness \in Int
      /\ time \in Times \union {Number(0)}
  BY <1>1, <1>2, <1>3
<1>5. Merged(p, m) = [cmdType |-> cmdType, power |-> power, brightness |-> brightness,
                      time |-> time]
  BY DEF Merged
<1> HIDE DEF cmdType, power, brightness, time
<1> QED
  BY <1>4, <1>5 DEF Profile

(* A good command makes any profile encodable. *)
LEMMA GoodIsEncodable ==
  ASSUME NEW p \in Profile, NEW m \in Command, Good(m)
  PROVE  Encodable(Merged(p, m))
<1>1. m.time # Absent
  BY DEF Good, Numeric, Absent
<1>2. IsByte(luaL_checkint(string2Int(m.brightness)))
  BY BytesAreInts DEF Good, IsByte
<1> QED
  BY <1>1, <1>2 DEF Good, Encodable, Merged

LEMMA ProfileInitially ==
  ProfileInit => ProfileInv
<1> SUFFICES ASSUME ProfileInit PROVE ProfileInv
  OBVIOUS
<1>1. profile \in Profile
  BY DEF ProfileInit, Profile, Values, Number
<1>2. Encodable(profile)
  <2>1. 0 \in 0 .. Base - 1
    BY BaseAssumption
  <2> QED
    BY <2>1, BytesAreInts DEF ProfileInit, Encodable, IsByte, Numeric, Number
<1> QED
  BY <1>1, <1>2
  DEF ProfileInit, ProfileInv, ProfileTypeOK, FailureSticks, Nothing

LEMMA CommandKeeps ==
  ASSUME ProfileInv, NEW m \in Command, jsonToData(m)
  PROVE  ProfileInv'
<1> DEFINE p == Merged(profile, m)
<1>1. profile' = p /\ p \in Profile /\ profile \in Profile
  BY MergedType DEF ProfileInv, ProfileTypeOK, jsonToData
<1>2. good' = Good(m) /\ (good' => Encodable(p))
  BY <1>1, GoodIsEncodable DEF jsonToData
<1>3. Replied(p)
  BY DEF jsonToData
<1> HIDE DEF p
<1>4. CASE Encodable(p)
  <2>1. sent' = Encoded(p) /\ spoilt' = FALSE /\ reply' = Hex
    BY <1>3, <1>4 DEF Replied
  <2> QED
    BY <1>1, <1>2, <1>4, <2>1
    DEF ProfileInv, ProfileTypeOK, FailureSticks, Hex, Good
<1>5. CASE ~Encodable(p)
  <2>1. spoilt' = TRUE /\ reply' = Failed
    BY <1>3, <1>5 DEF Replied
  <2>2. good' = FALSE
    BY <1>2, <1>5 DEF Good
  <2> QED
    BY <1>1, <1>5, <2>1, <2>2
    DEF ProfileInv, ProfileTypeOK, FailureSticks, Failed
<1> QED
  BY <1>4, <1>5

LEMMA StatusKeeps ==
  ASSUME ProfileInv,
         jsonToDataOfNoCommand \/ \E bytes \in Statuses : dataToJson(bytes)
  PROVE  ProfileInv'
<1>1. UNCHANGED <<profile, sent, spoilt, good>>
  BY DEF jsonToDataOfNoCommand, dataToJson
<1>2. reply'.kind \in {"none", "error", "hex", "json"}
  BY DEF jsonToDataOfNoCommand, dataToJson, Parsed, Json, Failed, Nothing
<1> QED
  BY <1>1, <1>2
  DEF ProfileInv, ProfileTypeOK, FailureSticks, Encodable, Encoded

THEOREM ProfileInductive ==
  ProfileSpec => []ProfileInv
<1>1. ProfileInv /\ [ProfileNext]_profileVars => ProfileInv'
  <2>1. ProfileInv /\ UNCHANGED profileVars => ProfileInv'
    BY DEF profileVars, ProfileInv, ProfileTypeOK, FailureSticks, Encodable, Encoded
  <2> QED
    BY <2>1, CommandKeeps, StatusKeeps DEF ProfileNext
<1> QED
  BY <1>1, ProfileInitially, PTL DEF ProfileSpec

(* The profile is always made of values the script can hold. *)
THEOREM ProfileTypeCorrect ==
  ProfileSpec => []ProfileTypeOK
<1>1. ProfileInv => ProfileTypeOK
  BY DEF ProfileInv
<1> QED
  BY <1>1, ProfileInductive, PTL

(* A script is stuck exactly after a command was merged that cannot be     *)
(* encoded, and a good command ends it, for every width of the byte and    *)
(* every value.                                                            *)
THEOREM FailuresStick ==
  ProfileSpec => []FailureSticks
<1>1. ProfileInv => FailureSticks
  BY DEF ProfileInv
<1> QED
  BY <1>1, ProfileInductive, PTL

-----------------------------------------------------------------------------
(***************************************************************************)
(* RoundTrip, for bytes of 256 values and words of 32 bits.  Ranges of     *)
(* words are stated with inequalities.                                     *)
(***************************************************************************)
RealWidth == Base = 256

LEMMA Widths ==
  ASSUME RealWidth
  PROVE  /\ Word = 4294967296 /\ Word \div 2 = 2147483648
         /\ Base * Base = 65536 /\ Base * Base * Base = 16777216
<1>1. Base * Base = 65536
  BY SMTT(30) DEF RealWidth
<1>2. Base * Base * Base = 16777216
  BY SMTT(30), <1>1 DEF RealWidth
<1>3. Word = 4294967296
  BY SMTT(30), <1>2 DEF RealWidth, Word
<1> QED
  BY SMTT(30), <1>1, <1>2, <1>3

(* Ints have 32 bits, and no word is too large for bit.c. *)
LEMMA RealInts ==
  ASSUME RealWidth, NEW n \in Int
  PROVE  /\ n \in Ints <=> n >= -2147483648 /\ n <= 2147483647
         /\ n >= -2147483648 /\ n <= 4294967295 => barg(n) = n % 4294967296
<1>1. Exact \in Nat /\ Exact >= 4294967296
  BY SMTT(30), ExactAssumption, Widths
<1>2. Word \div 2 = 2147483648 /\ Word = 4294967296
  BY SMTT(30), Widths
<1>3. n \in Ints <=> n >= -2147483648 /\ n <= 2147483647
  <2> DEFINE h == Word \div 2
  <2>1. h = 2147483648
    BY SMTT(30), <1>2
  <2>2. Ints = -h .. h - 1
    BY SMTT(30) DEF Ints
  <2> HIDE DEF h
  <2>3. h \in Int /\ -h = -2147483648 /\ h - 1 = 2147483647
    BY SMTT(30), <2>1
  <2>4. \A a, b \in Int : n \in a .. b <=> a <= n /\ n <= b
    OBVIOUS
  <2>5. n \in -h .. h - 1 <=> -h <= n /\ n <= h - 1
    BY SMTT(30), <2>3, <2>4
  <2>6. n \in Ints <=> -h <= n /\ n <= h - 1
    BY SMTT(30), <2>2, <2>5
  <2>7. /\ -h <= n <=> n >= -2147483648
        /\ n <= h - 1 <=> n <= 2147483647
    BY SMTT(30), <2>1
  <2> QED
    BY SMTT(30), <2>6, <2>7
<1>4. n >= -2147483648 /\ n <= 4294967295 => IsExact(n)
  BY SMTT(30), <1>1 DEF IsExact
<1> QED
  BY SMTT(30), <1>2, <1>3, <1>4 DEF barg

(* The digits of a word, and the word they make. *)
LEMMA FourDigits ==
  ASSUME NEW w \in Int, w >= 0, w <= 4294967295,
         NEW q1 \in Int, NEW q2 \in Int, NEW q3 \in Int,
         NEW r0 \in Int, NEW r1 \in Int, NEW r2 \in Int,
         q1 = w \div 256, q2 = w \div 65536, q3 = w \div 16777216,
         r0 = w % 256, r1 = q1 % 256, r2 = q2 % 256
  PROVE  /\ w = r0 + 256 * r1 + 65536 * r2 + 16777216 * q3
         /\ r0 >= 0 /\ r0 <= 255 /\ r1 >= 0 /\ r1 <= 255
         /\ r2 >= 0 /\ r2 <= 255 /\ q3 >= 0 /\ q3 <= 255
<1>1. q2 = q1 \div 256
  BY SMTT(30)
<1>2. q3 = q2 \div 256
  BY SMTT(30)
<1>3. /\ w = 256 * q1 + r0 /\ r0 >= 0 /\ r0 <= 255
      /\ q1 = 256 * q2 + r1 /\ r1 >= 0 /\ r1 <= 255
      /\ q2 = 256 * q3 + r2 /\ r2 >= 0 /\ r2 <= 255
  BY SMTT(30), <1>1, <1>2
<1>4. q3 >= 0 /\ q3 <= 255
  BY SMTT(30)
<1> QED
  BY SMTT(30), <1>3, <1>4

(* What the shifts of jsonToData leave is below the sign bit, and a mask   *)
(* takes its low byte.                                                     *)
LEMMA MaskedQuotient ==
  ASSUME RealWidth, NEW q \in Int, q >= 0, q <= 16777215
  PROVE  band(BRET(q)) = q % 256
<1>1. BRET(q) = q
  BY SMTT(30), Widths DEF BRET
<1>2. barg(q) = q
  <2>1. q % 4294967296 = q
    BY SMTT(30)
  <2> QED
    BY SMTT(30), <2>1, RealInts
<1>3. BRET(q % 256) = q % 256
  <2>1. \A r \in Int : r = q % 256 => r >= 0 /\ r <= 255
    BY SMTT(30)
  <2>2. q % 256 \in Int
    BY SMTT(30)
  <2>3. \A r \in Int : r >= 0 /\ r <= 255 => BRET(r) = r
    BY SMTT(30), Widths DEF BRET
  <2> QED
    BY SMTT(30), <2>1, <2>2, <2>3
<1> QED
  BY SMTT(30), <1>1, <1>2, <1>3 DEF band, RealWidth

(* A byte shifted back to its place. *)
LEMMA ShiftedByte ==
  ASSUME RealWidth, NEW b \in Int, b >= 0, b <= 255
  PROVE  /\ lshift(b, Base) = 256 * b
         /\ lshift(b, Base * Base) = 65536 * b
         /\ lshift(b, Base * Base * Base) =
              IF b >= 128 THEN 16777216 * b - 4294967296 ELSE 16777216 * b
<1>1. barg(b) = b
  <2>1. b % 4294967296 = b
    BY SMTT(30)
  <2> QED
    BY SMTT(30), <2>1, RealInts
<1>2. /\ (b * 256) % 4294967296 = 256 * b
      /\ (b * 65536) % 4294967296 = 65536 * b
      /\ (b * 16777216) % 4294967296 = 16777216 * b
  BY SMTT(30)
<1>3. /\ lshift(b, Base) = BRET(256 * b)
      /\ lshift(b, Base * Base) = BRET(65536 * b)
      /\ lshift(b, Base * Base * Base) = BRET(16777216 * b)
  BY SMTT(30), <1>1, <1>2, Widths DEF lshift, RealWidth
<1>4. BRET(256 * b) = 256 * b /\ BRET(65536 * b) = 65536 * b
  BY SMTT(30), Widths DEF BRET
<1>5. BRET(16777216 * b) =
        IF b >= 128 THEN 16777216 * b - 4294967296 ELSE 16777216 * b
  BY SMTT(30), Widths DEF BRET
<1> QED
  BY SMTT(30), <1>3, <1>4, <1>5

(* A time is a word for bit.c, of whatever size it is. *)
LEMMA WordRange ==
  ASSUME RealWidth, NEW p \in Profile
  PROVE  barg(p.time.n) \in Int /\ barg(p.time.n) >= 0 /\ barg(p.time.n) <= 4294967295
<1> DEFINE n == p.time.n
<1>1. n \in Int /\ (p.time \in Times \/ n = 0)
  BY SMTT(30), ValuesAssumption DEF Profile, Values, Number
<1> HIDE DEF n
<1>2. CASE IsExact(n)
  <2>1. barg(n) = n % 4294967296
    BY SMTT(30), <1>2, Widths DEF barg
  <2>2. \A r \in Int : r = n % 4294967296 => r >= 0 /\ r <= 4294967295
    BY SMTT(30), <1>1
  <2>3. n % 4294967296 \in Int
    BY SMTT(30), <1>1
  <2> QED
    BY SMTT(30), <2>1, <2>2, <2>3 DEF n
<1>3. CASE ~IsExact(n)
  <2>1. IsExact(0)
    BY SMTT(30), ExactAssumption, Widths DEF IsExact
  <2>2. barg(n) \in 0 .. Word - 1
    BY SMTT(30), <1>1, <1>3, <2>1, RoundedAssumption DEF barg, n
  <2> QED
    BY SMTT(30), <2>2, Widths DEF n
<1> QED
  BY SMTT(30), <1>2, <1>3

(* The time's four bytes in what is sent, and the time they are joined to. *)
LEMMA TimeRoundTrip ==
  ASSUME RealWidth, NEW p \in Profile
  PROVE  /\ \A i \in 4 .. 7 : /\ Encoded(p)[i] \in Int
                              /\ Encoded(p)[i] >= 0
         /\ JoinedTime(Encoded(p)) = BRET(barg(p.time.n))
<1> DEFINE n == p.time.n
           w == barg(n)
           q1 == w \div 256
           q2 == w \div 65536
           q3 == w \div 16777216
           r0 == w % 256
           r1 == q1 % 256
           r2 == q2 % 256
           bytes == Encoded(p)
<1>1. n \in Int
  BY ValuesAssumption DEF Profile, Values, Number
<1>2. w \in Int /\ w >= 0 /\ w <= 4294967295
  BY WordRange
<1>3. /\ band(n) = BRET(w % 256)
      /\ rshift(n, Base) = BRET(q1)
      /\ rshift(n, Base * Base) = BRET(q2)
      /\ rshift(n, Base * Base * Base) = BRET(q3)
  BY SMTT(30), Widths DEF band, rshift, RealWidth
<1>4. bytes = <<p.cmdType, p.power, luaL_checkint(p.brightness), band(n),
                band(rshift(n, Base)), band(rshift(n, Base * Base)),
                band(rshift(n, Base * Base * Base))>>
  BY DEF Encoded
<1> HIDE DEF w, n, bytes
<1>5. /\ q1 \in Int /\ q1 >= 0 /\ q1 <= 16777215
      /\ q2 \in Int /\ q2 >= 0 /\ q2 <= 16777215
      /\ q3 \in Int /\ q3 >= 0 /\ q3 <= 16777215
      /\ r0 \in Int /\ r1 \in Int /\ r2 \in Int
  BY SMTT(30), <1>2
<1>6. /\ w = r0 + 256 * r1 + 65536 * r2 + 16777216 * q3
      /\ r0 >= 0 /\ r0 <= 255 /\ r1 >= 0 /\ r1 <= 255
      /\ r2 >= 0 /\ r2 <= 255 /\ q3 >= 0 /\ q3 <= 255
  BY SMTT(30), <1>2, <1>5, FourDigits
<1>7. bytes[4] = r0 /\ bytes[5] = r1 /\ bytes[6] = r2 /\ bytes[7] = q3
  <2>1. bytes[4] = BRET(r0)
    BY <1>3, <1>4
  <2>2. bytes[5] = band(BRET(q1)) /\ bytes[6] = band(BRET(q2))
        /\ bytes[7] = band(BRET(q3))
    BY <1>3, <1>4
  <2>3. band(BRET(q1)) = r1 /\ band(BRET(q2)) = r2
        /\ band(BRET(q3)) = q3 % 256
    BY SMTT(30), <1>5, MaskedQuotient
  <2>4. q3 % 256 = q3
    <3>1. \A q \in Int : q >= 0 /\ q <= 255 => q % 256 = q
      BY SMTT(30)
    <3> HIDE DEF q3
    <3> QED
      BY SMTT(30), <1>5, <1>6, <3>1
  <2> HIDE DEF q1, q2, q3, r0, r1, r2
  <2>5. BRET(r0) = r0
    BY SMTT(30), <1>5, <1>6, Widths DEF BRET
  <2> QED
    BY <2>1, <2>2, <2>3, <2>4, <2>5
<1> HIDE DEF q1, q2, q3, r0, r1, r2
<1>8. \A i \in 4 .. 7 : bytes[i] \in Int /\ bytes[i] >= 0
  <2>1. \A i \in 4 .. 7 : i = 4 \/ i = 5 \/ i = 6 \/ i = 7
    BY SMTT(30)
  <2>2. /\ bytes[4] \in Int /\ bytes[5] \in Int
        /\ bytes[6] \in Int /\ bytes[7] \in Int
        /\ bytes[4] >= 0 /\ bytes[5] >= 0 /\ bytes[6] >= 0 /\ bytes[7] >= 0
    BY <1>5, <1>6, <1>7
  <2> QED
    BY SMTT(30), <2>1, <2>2
<1>9. JoinedTime(bytes) =
        r0 + 256 * r1 + 65536 * r2
          + (IF q3 >= 128 THEN 16777216 * q3 - 4294967296
             ELSE 16777216 * q3)
  <2>1. /\ lshift(bytes[5], Base) = 256 * r1
        /\ lshift(bytes[6], Base * Base) = 65536 * r2
        /\ lshift(bytes[7], Base * Base * Base) =
             IF q3 >= 128 THEN 16777216 * q3 - 4294967296 ELSE 16777216 * q3
    BY SMTT(30), <1>5, <1>6, <1>7, ShiftedByte
  <2> QED
    BY SMTT(30), <2>1, <1>7 DEF JoinedTime
<1>10. BRET(w) = r0 + 256 * r1 + 65536 * r2
          + (IF q3 >= 128 THEN 16777216 * q3 - 4294967296
             ELSE 16777216 * q3)
  BY SMTT(30), <1>5, <1>6, Widths DEF BRET
<1> QED
  BY <1>8, <1>9, <1>10 DEF w, n, bytes

(* What is sent has no hole and one border, its end. *)
LEMMA OneBorder ==
  ASSUME RealWidth, NEW p \in Profile, Encodable(p),
         NEW border \in Borders(Encoded(p))
  PROVE  border = 7
<1> DEFINE bytes == Encoded(p)
<1>1. Len(bytes) = 7 /\ DOMAIN bytes = 1 .. 7
  BY DEF Encoded
<1>2. bytes[1] # -1 /\ bytes[2] # -1 /\ bytes[3] # -1
  <2>1. bytes[1] = p.cmdType /\ bytes[2] = p.power /\ bytes[3] = luaL_checkint(p.brightness)
    BY DEF Encoded
  <2>2. p.cmdType \in {0, 1, 2} /\ p.power \in {0, 1} /\ luaL_checkint(p.brightness) \in 0 .. Base - 1
    BY DEF Profile, Encodable, IsByte
  <2> QED
    BY <2>1, <2>2, BaseAssumption
<1>3. \A i \in 4 .. 7 : bytes[i] \in Int /\ bytes[i] >= 0
  BY TimeRoundTrip
<1> HIDE DEF bytes
<1>4. \A i \in 1 .. 7 : bytes[i] # -1
  BY <1>2, <1>3
<1>5. border \in 0 .. Len(bytes) /\ At(bytes, border + 1) = -1
  BY DEF Borders, NotHex, bytes
<1>6. border \in 0 .. 7
  BY <1>1, <1>5
<1>7. CASE border + 1 \in 1 .. 7
  BY <1>1, <1>4, <1>5, <1>7 DEF At
<1> QED
  BY <1>6, <1>7

(* What a decode of the encoding gives. *)
LEMMA DecodesToProfile ==
  ASSUME RealWidth, NEW p \in Profile, Encodable(p),
         NEW border \in Borders(Encoded(p))
  PROVE  Parsed(Encoded(p), border) =
           Json(parseData2Table(<<p.cmdType, p.power, luaL_checkint(p.brightness)>>,
                                Number(BRET(barg(p.time.n)))))
<1> DEFINE bytes == Encoded(p)
           head == <<p.cmdType, p.power, luaL_checkint(p.brightness)>>
           t == Number(BRET(barg(p.time.n)))
<1>1. border = 7
  BY OneBorder
<1>2. /\ \A i \in 4 .. 7 : bytes[i] \in Int /\ bytes[i] >= 0
      /\ JoinedTime(bytes) = BRET(barg(p.time.n))
  BY TimeRoundTrip
<1>3. DOMAIN bytes = 1 .. 7 /\ \A i \in 1 .. 3 : bytes[i] = head[i]
  BY DEF Encoded
<1> HIDE DEF bytes
<1>4. ~(border <= 6) /\ Joinable(bytes)
  BY <1>1, <1>2 DEF NotHex, Joinable
<1>5. Parsed(bytes, border) = Json(parseData2Table(bytes, t))
  BY <1>2, <1>4 DEF Parsed
<1>6. DOMAIN head = 1 .. 3
  OBVIOUS
<1> HIDE DEF head, t
<1>7. \A i \in 1 .. 3 : At(bytes, i) = At(head, i)
  BY <1>3, <1>6 DEF At
<1>8. parseData2Table(bytes, t) = parseData2Table(head, t)
  BY <1>3, <1>7 DEF parseData2Table
<1> QED
  BY <1>5, <1>8 DEF bytes, t, head

(* The time that is read is the time that was set, but for multiples of    *)
(* 2^32.                                                                   *)
LEMMA TimeKept ==
  ASSUME RealWidth, NEW p \in Profile
  PROVE  SameTime(BRET(barg(p.time.n)), p.time.n)
<1> DEFINE n == p.time.n
           w == barg(n)
           t == BRET(w)
<1>1. n \in Int
  BY SMTT(30), ValuesAssumption DEF Profile, Values, Number
<1>2. w \in Int /\ w >= 0 /\ w <= 4294967295
  BY SMTT(30), WordRange
<1>3. IsExact(n) => w = n % 4294967296
  BY SMTT(30), Widths DEF barg
<1> HIDE DEF n, w
<1>4. t = IF w >= 2147483648 THEN w - 4294967296 ELSE w
  BY SMTT(30), Widths DEF BRET
<1>5. t \in Int /\ t \in Ints
  <2>1. t \in Int /\ t >= -2147483648 /\ t <= 2147483647
    BY SMTT(30), <1>2, <1>4
  <2> HIDE DEF t
  <2> QED
    BY SMTT(30), <2>1, RealInts
<1>6. ASSUME IsExact(n) PROVE (n - t) % Word = 0
  <2>1. w = n % 4294967296
    BY SMTT(30), <1>3, <1>6
  <2> DEFINE k == n \div 4294967296
  <2>2. k \in Int /\ n = 4294967296 * k + w
    BY SMTT(30), <1>1, <2>1
  <2> HIDE DEF k
  <2>3. n - t = 4294967296 * k \/ n - t = 4294967296 * (k + 1)
    BY SMTT(30), <1>2, <1>4, <2>2
  <2>4. \A j \in Int : (4294967296 * j) % 4294967296 = 0
    BY SMTT(30)
  <2>5. k + 1 \in Int
    BY SMTT(30), <2>2
  <2>6. (n - t) % 4294967296 = 0
    BY SMTT(30), <2>2, <2>3, <2>4, <2>5
  <2> QED
    BY SMTT(30), <2>6, Widths
<1> QED
  BY SMTT(30), <1>5, <1>6 DEF SameTime, n, w

(* The device was sent the profile, whichever commands and statuses came,  *)
(* and dataToJson reads it back: the time up to multiples of 2^32 within   *)
(* what bit.c takes exactly, the brightness if it is an int.               *)
THEOREM ProfileRoundTrips ==
  ASSUME RealWidth
  PROVE  ProfileSpec => []RoundTrip
<1>1. ProfileInv => RoundTrip
  <2> SUFFICES ASSUME ProfileInv, sent # << >>, ~spoilt,
                      NEW border \in Borders(sent)
               PROVE  LET parsed == Parsed(sent, border)
                      IN  /\ parsed.kind = "json"
                          /\ parsed = Json(parseData2Table(
                                        <<profile.cmdType, profile.power,
                                          luaL_checkint(profile.brightness)>>,
                                        parsed.json.time))
                          /\ profile.brightness \in Ints =>
                               parsed.json.brightness = Digits(profile.brightness)
                          /\ parsed.json.time.kind = "number"
                          /\ SameTime(parsed.json.time.n, profile.time.n)
    BY DEF RoundTrip
  <2> DEFINE parsed == Parsed(sent, border)
             head == <<profile.cmdType, profile.power, luaL_checkint(profile.brightness)>>
             t == BRET(barg(profile.time.n))
  <2>1. profile \in Profile /\ sent = Encoded(profile) /\ Encodable(profile)
    BY DEF ProfileInv, ProfileTypeOK, FailureSticks
  <2>2. parsed = Json(parseData2Table(head, Number(t)))
    BY <2>1, DecodesToProfile
  <2>3. SameTime(t, profile.time.n)
    BY <2>1, TimeKept
  <2>4. head[3] = luaL_checkint(profile.brightness) /\ DOMAIN head = 1 .. 3
    OBVIOUS
  <2>5. At(head, 3) = head[3] /\ head[3] # NotHex
    BY <2>1, <2>4, BaseAssumption DEF At, Encodable, IsByte, NotHex
  <2>6. profile.brightness \in Ints => head[3] = profile.brightness
    BY <2>4 DEF luaL_checkint
  <2> HIDE DEF head, t
  <2>7. /\ parsed.kind = "json" /\ parsed.json = parseData2Table(head, Number(t))
        /\ parsed.json.time = Number(t)
        /\ parsed.json.brightness = Digits(head[3])
    BY <2>2, <2>5 DEF Json, parseData2Table
  <2>8. parsed.json.time.kind = "number" /\ parsed.json.time.n = t
    BY <2>7 DEF Number
  <2> HIDE DEF parsed
  <2>9. /\ parsed = Json(parseData2Table(head, parsed.json.time))
        /\ profile.brightness \in Ints => parsed.json.brightness = Digits(profile.brightness)
        /\ SameTime(parsed.json.time.n, profile.time.n)
    BY <2>2, <2>3, <2>6, <2>7, <2>8
  <2> QED
    BY <2>7, <2>8, <2>9 DEF parsed, head
<1> QED
  BY <1>1, ProfileInductive, PTL

-----------------------------------------------------------------------------
(***************************************************************************)
(* StatusIsCommand, the other way round, for the same width.               *)
(***************************************************************************)

(* The word made of four digits, and what the divisions leave of it. *)
HasDigits(w, b0, b1, b2, b3) ==
  /\ w \in Int /\ w >= 0 /\ w <= 4294967295 /\ w % 256 = b0
  /\ w \div 256 = b1 + 256 * b2 + 65536 * b3
  /\ w \div 65536 = b2 + 256 * b3
  /\ w \div 16777216 = b3
  /\ (b1 + 256 * b2 + 65536 * b3) % 256 = b1
  /\ (b2 + 256 * b3) % 256 = b2
  /\ b3 % 256 = b3

LEMMA JoinedDigits ==
  ASSUME NEW b0 \in Int, NEW b1 \in Int, NEW b2 \in Int, NEW b3 \in Int,
         b0 >= 0, b0 <= 255, b1 >= 0, b1 <= 255, b2 >= 0, b2 <= 255, b3 >= 0, b3 <= 255,
         NEW w, w = b0 + 256 * b1 + 65536 * b2 + 16777216 * b3
  PROVE  HasDigits(w, b0, b1, b2, b3)
<1>1. w \in Int /\ w >= 0 /\ w <= 4294967295 /\ w % 256 = b0
  BY SMTT(30)
<1>2. /\ w \div 256 = b1 + 256 * b2 + 65536 * b3
      /\ w \div 65536 = b2 + 256 * b3
      /\ w \div 16777216 = b3
  BY SMTT(30)
<1>3. /\ (b1 + 256 * b2 + 65536 * b3) % 256 = b1
      /\ (b2 + 256 * b3) % 256 = b2
      /\ b3 % 256 = b3
  BY SMTT(30)
<1> QED
  BY <1>1, <1>2, <1>3 DEF HasDigits

(* dataToJson's time, encoded again, is the four bytes it was joined from. *)
LEMMA JoinedTimeEncodes ==
  ASSUME RealWidth, NEW bytes,
         \A i \in 4 .. 7 : bytes[i] \in Int /\ bytes[i] >= 0 /\ bytes[i] <= 255
  PROVE  LET n == JoinedTime(bytes)
         IN  /\ band(n) = bytes[4] /\ band(rshift(n, Base)) = bytes[5]
             /\ band(rshift(n, Base * Base)) = bytes[6]
             /\ band(rshift(n, Base * Base * Base)) = bytes[7]
<1> DEFINE n == JoinedTime(bytes)
           w == bytes[4] + 256 * bytes[5] + 65536 * bytes[6] + 16777216 * bytes[7]
<1>1. /\ bytes[4] \in Int /\ bytes[4] >= 0 /\ bytes[4] <= 255
      /\ bytes[5] \in Int /\ bytes[5] >= 0 /\ bytes[5] <= 255
      /\ bytes[6] \in Int /\ bytes[6] >= 0 /\ bytes[6] <= 255
      /\ bytes[7] \in Int /\ bytes[7] >= 0 /\ bytes[7] <= 255
  OBVIOUS
<1>2. n = IF bytes[7] >= 128 THEN w - 4294967296 ELSE w
  <2>1. /\ lshift(bytes[5], Base) = 256 * bytes[5]
        /\ lshift(bytes[6], Base * Base) = 65536 * bytes[6]
        /\ lshift(bytes[7], Base * Base * Base) =
             IF bytes[7] >= 128 THEN 16777216 * bytes[7] - 4294967296 ELSE 16777216 * bytes[7]
    BY <1>1, ShiftedByte
  <2> QED
    BY SMTT(30), <1>1, <2>1 DEF JoinedTime
<1>3. /\ w \in Int /\ w >= 0 /\ w <= 4294967295 /\ w % 256 = bytes[4]
      /\ w \div 256 = bytes[5] + 256 * bytes[6] + 65536 * bytes[7]
      /\ w \div 65536 = bytes[6] + 256 * bytes[7]
      /\ w \div 16777216 = bytes[7]
      /\ (bytes[5] + 256 * bytes[6] + 65536 * bytes[7]) % 256 = bytes[5]
      /\ (bytes[6] + 256 * bytes[7]) % 256 = bytes[6]
      /\ bytes[7] % 256 = bytes[7]
  <2> DEFINE b4 == bytes[4]
             b5 == bytes[5]
             b6 == bytes[6]
             b7 == bytes[7]
  <2>1. w = b4 + 256 * b5 + 65536 * b6 + 16777216 * b7
    OBVIOUS
  <2>2. HasDigits(w, b4, b5, b6, b7)
    <3>1. /\ b4 \in Int /\ b4 >= 0 /\ b4 <= 255 /\ b5 \in Int /\ b5 >= 0 /\ b5 <= 255
          /\ b6 \in Int /\ b6 >= 0 /\ b6 <= 255 /\ b7 \in Int /\ b7 >= 0 /\ b7 <= 255
      BY <1>1
    <3> HIDE DEF w, b4, b5, b6, b7
    <3> QED
      BY <2>1, <3>1, JoinedDigits
  <2> HIDE DEF w
  <2> QED
    BY SMTT(30), <2>2 DEF HasDigits
<1> HIDE DEF n, w
<1>4. barg(n) = w
  <2>1. \A x \in Int : x >= 0 /\ x <= 4294967295 =>
          x % 4294967296 = x /\ (x - 4294967296) % 4294967296 = x
    BY SMTT(30)
  <2>2. n % 4294967296 = w
    BY SMTT(30), <1>2, <1>3, <2>1
  <2>3. n \in Int /\ n >= -2147483648 /\ n <= 4294967295
    BY SMTT(30), <1>1, <1>2, <1>3 DEF w
  <2> QED
    BY SMTT(30), <2>2, <2>3, RealInts
<1>5. /\ band(n) = BRET(w % 256)
      /\ rshift(n, Base) = BRET(w \div 256)
      /\ rshift(n, Base * Base) = BRET(w \div 65536)
      /\ rshift(n, Base * Base * Base) = BRET(w \div 16777216)
  BY SMTT(30), <1>4, Widths DEF band, rshift, RealWidth
<1>6. BRET(bytes[4]) = bytes[4]
  BY SMTT(30), <1>1, Widths DEF BRET
<1>7. /\ band(BRET(w \div 256)) = bytes[5]
      /\ band(BRET(w \div 65536)) = bytes[6]
      /\ band(BRET(w \div 16777216)) = bytes[7]
  <2> DEFINE q1 == bytes[5] + 256 * bytes[6] + 65536 * bytes[7]
             q2 == bytes[6] + 256 * bytes[7]
  <2>1. /\ q1 \in Int /\ q1 >= 0 /\ q1 <= 16777215
        /\ q2 \in Int /\ q2 >= 0 /\ q2 <= 16777215
        /\ bytes[7] <= 16777215
    BY SMTT(30), <1>1
  <2>2. band(BRET(q1)) = q1 % 256 /\ band(BRET(q2)) = q2 % 256
        /\ band(BRET(bytes[7])) = bytes[7] % 256
    <3> HIDE DEF q1, q2
    <3> QED
      BY <1>1, <2>1, MaskedQuotient
  <2> QED
    BY <1>3, <2>2
<1> QED
  BY <1>3, <1>5, <1>6, <1>7 DEF n

(* Each of the first three properties is taken over if the status has it.   *)
LEMMA HeadKept ==
  ASSUME NEW bytes \in Statuses, NEW time
  PROVE  LET p == Merged(profile, parseData2Table(bytes, time))
         IN  /\ p.cmdType = IF At(bytes, 1) \in {1, 2} THEN bytes[1] ELSE profile.cmdType
             /\ p.power = IF At(bytes, 2) \in {0, 1} THEN bytes[2] ELSE profile.power
             /\ p.brightness = IF At(bytes, 3) \in 0 .. Base - 1 THEN bytes[3]
                               ELSE profile.brightness
             /\ p.time = IF time # Absent THEN time ELSE profile.time
<1> DEFINE m == parseData2Table(bytes, time)
           p == Merged(profile, m)
<1>1. bytes \in Seq((0 .. Base - 1) \union {NotHex})
  BY StatusesAssumption
<1>2. \A i \in 1 .. 3 : /\ At(bytes, i) \in (0 .. Base - 1) \union {NotHex}
                        /\ At(bytes, i) # NotHex => At(bytes, i) = bytes[i]
  BY <1>1 DEF At
<1>3. NotHex \notin 0 .. Base - 1 /\ NotHex \notin {0, 1, 2}
  BY BaseAssumption DEF NotHex
<1>4. /\ m.cmd_type = IF At(bytes, 1) = 1 THEN "control"
                      ELSE IF At(bytes, 1) = 2 THEN "query" ELSE "?"
      /\ m.power = IF At(bytes, 2) = 1 THEN "on" ELSE IF At(bytes, 2) = 0 THEN "off" ELSE "?"
      /\ m.brightness = IF At(bytes, 3) = NotHex THEN Absent ELSE Digits(bytes[3])
      /\ m.time = time
  BY DEF parseData2Table
<1> HIDE DEF m
<1>5. /\ p.cmdType = IF m.cmd_type = "control" THEN 1
                     ELSE IF m.cmd_type = "query" THEN 2 ELSE profile.cmdType
      /\ p.power = IF m.power = "on" THEN 1 ELSE IF m.power = "off" THEN 0 ELSE profile.power
      /\ p.brightness = IF m.brightness # Absent THEN string2Int(m.brightness)
                        ELSE profile.brightness
      /\ p.time = IF m.time # Absent THEN m.time ELSE profile.time
  BY DEF Merged
<1> HIDE DEF p
<1>6. Digits(bytes[3]) # Absent /\ string2Int(Digits(bytes[3])) = bytes[3]
  BY DEF Digits, Absent, string2Int, Numeric
<1>7. p.cmdType = IF At(bytes, 1) \in {1, 2} THEN bytes[1] ELSE profile.cmdType
  BY <1>2, <1>3, <1>4, <1>5
<1>8. p.power = IF At(bytes, 2) \in {0, 1} THEN bytes[2] ELSE profile.power
  BY <1>2, <1>3, <1>4, <1>5
<1>9. p.brightness = IF At(bytes, 3) \in 0 .. Base - 1 THEN bytes[3] ELSE profile.brightness
  BY <1>2, <1>3, <1>4, <1>5, <1>6
<1> QED
  BY <1>4, <1>5, <1>7, <1>8, <1>9 DEF p, m

LEMMA StatusesKept ==
  ASSUME RealWidth, NEW bytes \in Statuses, NEW border \in Borders(bytes)
  PROVE  StatusKept(bytes, border)
<1> DEFINE parsed == Parsed(bytes, border)
<1>1. /\ bytes \in Seq((0 .. 255) \union {NotHex}) /\ NotHex = -1
      /\ border \in 0 .. Len(bytes) /\ At(bytes, border + 1) = NotHex
  BY StatusesAssumption DEF RealWidth, Borders, NotHex
<1>2. CASE border <= 6
  <2> DEFINE p == Merged(profile, parseData2Table(bytes, Absent))
  <2>1. parsed = Json(parseData2Table(bytes, Absent))
    BY <1>2 DEF Parsed
  <2>2. parsed.kind = "json" /\ parsed.json = parseData2Table(bytes, Absent)
    BY <2>1 DEF Json
  <2>3. \E i \in 1 .. 7 : ~Given(bytes, i)
    BY <1>1, <1>2 DEF Given
  <2>4. /\ p.cmdType = IF At(bytes, 1) \in {1, 2} THEN bytes[1] ELSE profile.cmdType
        /\ p.power = IF At(bytes, 2) \in {0, 1} THEN bytes[2] ELSE profile.power
        /\ p.brightness = IF At(bytes, 3) \in 0 .. Base - 1 THEN bytes[3]
                          ELSE profile.brightness
        /\ p.time = profile.time
    BY HeadKept
  <2> QED
    BY <2>2, <2>3, <2>4 DEF StatusKept
<1>3. CASE ~(border <= 6) /\ ~Joinable(bytes)
  <2>1. parsed = Failed
    BY <1>3 DEF Parsed
  <2>2. PICK i \in 4 .. 7 : bytes[i] = NotHex
    BY <1>3 DEF Joinable
  <2>3. ~Given(bytes, i)
    BY <2>2 DEF Given, At
  <2> QED
    BY <2>1, <2>3 DEF StatusKept
<1>4. CASE ~(border <= 6) /\ Joinable(bytes)
  <2> DEFINE t == Number(JoinedTime(bytes))
             p == Merged(profile, parseData2Table(bytes, t))
  <2>1. parsed = Json(parseData2Table(bytes, t))
    BY <1>4 DEF Parsed
  <2>2. parsed.kind = "json" /\ parsed.json = parseData2Table(bytes, t)
    BY <2>1 DEF Json
  <2>3. t # Absent /\ Numeric(t) /\ t.n = JoinedTime(bytes)
    BY DEF Number, Absent, Numeric
  <2>4. /\ p.cmdType = IF At(bytes, 1) \in {1, 2} THEN bytes[1] ELSE profile.cmdType
        /\ p.power = IF At(bytes, 2) \in {0, 1} THEN bytes[2] ELSE profile.power
        /\ p.brightness = IF At(bytes, 3) \in 0 .. Base - 1 THEN bytes[3]
                          ELSE profile.brightness
        /\ p.time = t
    BY <2>3, HeadKept
  <2>5. \A i \in 4 .. 7 : /\ bytes[i] \in Int /\ bytes[i] >= 0 /\ bytes[i] <= 255
                          /\ Given(bytes, i)
    <3>1. DOMAIN bytes = 1 .. Len(bytes) /\ Len(bytes) \in Nat /\ Len(bytes) >= 7
      BY <1>1, <1>4
    <3>2. \A i \in DOMAIN bytes : bytes[i] \in (0 .. 255) \union {NotHex}
      <4> DEFINE S == (0 .. 255) \union {NotHex}
      <4>1. bytes \in Seq(S)
        BY <1>1
      <4> HIDE DEF S
      <4>2. \A i \in DOMAIN bytes : bytes[i] \in S
        BY <4>1
      <4> QED
        BY <4>2 DEF S
    <3>3. \A i \in 4 .. 7 : i \in DOMAIN bytes /\ bytes[i] # NotHex
      BY <1>4, <3>1 DEF Joinable
    <3>4. \A x \in (0 .. 255) \union {NotHex} :
            x # NotHex => x \in Int /\ x >= 0 /\ x <= 255
      OBVIOUS
    <3>5. \A i \in 4 .. 7 : bytes[i] \in Int /\ bytes[i] >= 0 /\ bytes[i] <= 255
      BY <3>2, <3>3, <3>4
    <3>6. \A i \in 4 .. 7 : Given(bytes, i)
      BY <3>3 DEF Given, At
    <3> QED
      BY <3>5, <3>6
  <2>6. /\ band(p.time.n) = bytes[4] /\ band(rshift(p.time.n, Base)) = bytes[5]
        /\ band(rshift(p.time.n, Base * Base)) = bytes[6]
        /\ band(rshift(p.time.n, Base * Base * Base)) = bytes[7]
    BY <2>3, <2>4, <2>5, JoinedTimeEncodes
  <2>7. \A i \in 4 .. 7 : Encoded(p)[i] = bytes[i]
    <3> HIDE DEF p
    <3>1. /\ Encoded(p)[4] = bytes[4] /\ Encoded(p)[5] = bytes[5]
          /\ Encoded(p)[6] = bytes[6] /\ Encoded(p)[7] = bytes[7]
      BY <2>6 DEF Encoded
    <3>2. \A i \in 4 .. 7 : i = 4 \/ i = 5 \/ i = 6 \/ i = 7
      OBVIOUS
    <3> QED
      BY <3>1, <3>2
  <2>8. Numeric(p.time) /\ \A i \in 4 .. 7 : Given(bytes, i) /\ Encoded(p)[i] = bytes[i]
    BY <2>3, <2>4, <2>5, <2>7
  <2> HIDE DEF t
  <2>9. p = Merged(profile, parsed.json)
    BY <2>2
  <2> HIDE DEF p
  <2> QED
    BY <2>2, <2>4, <2>8, <2>9 DEF StatusKept
<1> QED
  BY <1>2, <1>3, <1>4

(* Whatever dataToJson makes of a status, given to jsonToData whatever the *)
(* profile has become, is encoded to the bytes it was read from where it   *)
(* had some, and leaves the profile as it was where it had none.           *)
THEOREM StatusesAreCommands ==
  ASSUME RealWidth
  PROVE  ProfileSpec => []StatusIsCommand
<1>1. StatusIsCommand
  <2> SUFFICES ASSUME NEW bytes \in Statuses, NEW border \in Borders(bytes)
               PROVE  StatusKept(bytes, border)
    BY DEF StatusIsCommand
  <2> QED
    BY StatusesKept
<1> QED
  BY <1>1, PTL
=============================================================================
