--------------------------- MODULE DeviceProfile ---------------------------
(***************************************************************************)
(* The device profile, the Lua script that LuaManager runs: it keeps the   *)
(* properties of a lamp in locals that outlive a call, merges each JSON    *)
(* command into them and encodes all of them in seven bytes, and decodes   *)
(* such bytes to JSON.                                                     *)
(*                                                                         *)
(* A byte is a digit in base Base, and bit.c's 32-bit word four of them.   *)
(* JSON text and hexadecimal text stand for what they denote.              *)
(***************************************************************************)
EXTENDS Integers, Sequences

CONSTANTS
  Base,         \* 256
  Exact,        \* 2^51: bit.c takes a number in -Exact .. Exact - 1 exactly
  Rounded(_),   \* the word it takes any other number for
  Truncated(_), \* what becomes of a number that no int holds
  Brightnesses, \* what a command may give as its brightness
  Times,        \* and as its time
  Statuses      \* what dataToJson is given: sequences of bytes and NotHex

ASSUME BaseAssumption == Base \in Nat /\ Base >= 3

Word == Base * Base * Base * Base
Ints == -(Word \div 2) .. Word \div 2 - 1

ASSUME ExactAssumption == Exact \in Nat /\ Exact >= Word

(* A JSON value: a number, a string that reads as a number, any other      *)
(* string, and true, false, null, an object or an array.                   *)
Number(n) == [kind |-> "number", n |-> n]
Digits(n) == [kind |-> "digits", n |-> n]
Text == [kind |-> "text", n |-> 0]
Other == [kind |-> "other", n |-> 0]
Absent == [kind |-> "absent", n |-> 0]

Numeric(v) == v.kind \in {"number", "digits"}

Values == [kind : {"number", "digits", "text", "other", "absent"}, n : Int]

ASSUME ValuesAssumption == Brightnesses \subseteq Values /\ Times \subseteq Values

ASSUME RoundedAssumption == \A v \in Times : Rounded(v.n) \in 0 .. Word - 1

(* Strings that are compared with known ones; "?" is any other value. *)
Command ==
  [cmd_type : {"control", "query", "?"}, power : {"on", "off", "?"},
   brightness : Brightnesses, time : Times]

NotHex == -1  \* tonumber(s, 16) of two characters that are no hex digits

ASSUME StatusesAssumption ==
  Statuses \subseteq Seq((0 .. Base - 1) \union {NotHex})

Nothing == [kind |-> "none"]
Failed == [kind |-> "error"]
Hex == [kind |-> "hex"]  \* the bytes are in `sent'
Json(json) == [kind |-> "json", json |-> json]

VARIABLES
  profile,  \* the script's cmdTypeValue, powerValue, brightnessValue, timeValue
  reply,    \* what the last call returned, or Failed
  sent,     \* the bytes that jsonToData returned last, for the device
  spoilt,   \* the last command was merged and then failed
  good      \* the last command had all that it takes to succeed

profileVars == <<profile, reply, sent, spoilt, good>>

ProfileInit ==
  /\ profile = [cmdType |-> 0, power |-> 0, brightness |-> 0,
                time |-> Number(0)]
  /\ reply = Nothing
  /\ sent = << >>
  /\ spoilt = FALSE
  /\ good = FALSE

(***************************************************************************)
(* bit.c: arguments are taken modulo the word, results are signed; `unit'  *)
(* is the power of two to shift by.  barg adds 2^52 + 2^51 to a double and *)
(* takes the low bits of the sum, which are other bits if it is rounded.   *)
(***************************************************************************)
IsExact(n) == -Exact <= n /\ n < Exact
barg(n) == IF IsExact(n) THEN n % Word ELSE Rounded(n)
BRET(b) == IF b >= Word \div 2 THEN b - Word ELSE b
band(n) == BRET(barg(n) % Base)  \* band(n, 0xFF)
lshift(n, unit) == BRET((barg(n) * unit) % Word)
rshift_Short(n, unit) == BRET((barg(n) % (Base * Base)) \div unit)
rshift(n, unit) == BRET(barg(n) \div unit)

(***************************************************************************)
(* jsonToData.                                                             *)
(***************************************************************************)
string2Int(v) == IF Numeric(v) THEN v.n ELSE 0

Merged_PowerResets(p, m) ==
  [cmdType |-> IF m.cmd_type = "control" THEN 1
               ELSE IF m.cmd_type = "query" THEN 2 ELSE p.cmdType,
   power |-> IF m.power = "on" THEN 1 ELSE 0,
   brightness |-> IF m.brightness # Absent THEN string2Int(m.brightness)
                  ELSE p.brightness,
   time |-> IF m.time # Absent THEN m.time ELSE p.time]

(* updateGlobalPropertyValueByJson. *)
Merged(p, m) ==
  [cmdType |-> IF m.cmd_type = "control" THEN 1
               ELSE IF m.cmd_type = "query" THEN 2 ELSE p.cmdType,
   power |-> IF m.power = "on" THEN 1
             ELSE IF m.power = "off" THEN 0 ELSE p.power,
   brightness |-> IF m.brightness # Absent THEN string2Int(m.brightness)
                  ELSE p.brightness,
   time |-> IF m.time # Absent THEN m.time ELSE p.time]

(* string.char refuses what is not a byte as a C int; bit.band refuses a   *)
(* time that is no number, and before it print's concatenation one that is *)
(* no string.                                                              *)
IsByte(n) == n \in 0 .. Base - 1
luaL_checkint(n) == IF n \in Ints THEN n ELSE Truncated(n)
Good(m) ==
  m.brightness # Absent /\ IsByte(string2Int(m.brightness)) /\ Numeric(m.time)
Encodable(p) == IsByte(luaL_checkint(p.brightness)) /\ Numeric(p.time)

Encoded(p) ==
  LET n == p.time.n
  IN  <<p.cmdType, p.power, luaL_checkint(p.brightness),
        band(n), band(rshift(n, Base)), band(rshift(n, Base * Base)),
        band(rshift(n, Base * Base * Base))>>

Replied(p) ==
  IF Encodable(p)
  THEN reply' = Hex /\ sent' = Encoded(p) /\ spoilt' = FALSE
  ELSE reply' = Failed /\ spoilt' = TRUE /\ UNCHANGED sent

(* A command that decodes is merged before anything of it is refused: a    *)
(* call that fails afterwards has changed the profile.                     *)
jsonToData_RollsBack(m) ==
  /\ good' = Good(m)
  /\ Replied(Merged(profile, m))
  /\ profile' = IF Encodable(Merged(profile, m)) THEN Merged(profile, m)
                ELSE profile
jsonToData(m) ==
  /\ good' = Good(m)
  /\ profile' = Merged(profile, m)
  /\ Replied(Merged(profile, m))

(* The empty string gives nil; cjson refuses what is no JSON, and the      *)
(* first index of what it decoded to a number, a boolean or null.          *)
jsonToDataOfNoCommand ==
  /\ reply' \in {Nothing, Failed}
  /\ UNCHANGED <<profile, sent, spoilt, good>>

(***************************************************************************)
(* dataToJson.  A table with holes has several borders, and #hexData may   *)
(* be any of them.                                                         *)
(***************************************************************************)
At(bytes, i) == IF i \in DOMAIN bytes THEN bytes[i] ELSE NotHex

Borders(bytes) ==
  {n \in 0 .. Len(bytes) :
     /\ n = 0 \/ At(bytes, n) # NotHex
     /\ At(bytes, n + 1) = NotHex}

JoinedTime(bytes) ==
  bytes[4] + lshift(bytes[5], Base) + lshift(bytes[6], Base * Base)
    + lshift(bytes[7], Base * Base * Base)

parseData2Table(bytes, time) ==
  [cmd_type |-> IF At(bytes, 1) = 1 THEN "control"
                ELSE IF At(bytes, 1) = 2 THEN "query" ELSE "?",
   power |-> IF At(bytes, 2) = 1 THEN "on"
             ELSE IF At(bytes, 2) = 0 THEN "off" ELSE "?",
   brightness |-> IF At(bytes, 3) = NotHex THEN Absent
                  ELSE Digits(bytes[3]),
   time |-> time]

(* + and bit.lshift refuse nil. *)
Joinable_NilIsZero(bytes) == TRUE
Joinable(bytes) == \A i \in 4 .. 7 : bytes[i] # NotHex

Parsed(bytes, border) ==
  IF border <= 6 THEN Json(parseData2Table(bytes, Absent))
  ELSE IF ~Joinable(bytes) THEN Failed
  ELSE Json(parseData2Table(bytes, Number(JoinedTime(bytes))))

(* With updateGlobalPropertyValueByByte, which nothing calls. *)
dataToJson_Updates(bytes) ==
  /\ \E border \in Borders(bytes) : reply' = Parsed(bytes, border)
  /\ profile' = [profile EXCEPT !.cmdType = At(bytes, 1),
                                !.power = At(bytes, 2),
                                !.brightness = At(bytes, 3)]
  /\ UNCHANGED <<sent, spoilt, good>>
dataToJson(bytes) ==
  /\ \E border \in Borders(bytes) : reply' = Parsed(bytes, border)
  /\ UNCHANGED <<profile, sent, spoilt, good>>

ProfileNext ==
  \/ \E m \in Command : jsonToData(m)
  \/ jsonToDataOfNoCommand
  \/ \E bytes \in Statuses : dataToJson(bytes)

ProfileSpec == ProfileInit /\ [][ProfileNext]_profileVars

-----------------------------------------------------------------------------
(***************************************************************************)
(* Properties.                                                             *)
(***************************************************************************)

Profile == [cmdType : {0, 1, 2}, power : {0, 1}, brightness : Int,
            time : Times \union {Number(0)}]

ProfileTypeOK ==
  /\ profile \in Profile
  /\ reply.kind \in {"none", "error", "hex", "json"}
  /\ spoilt \in BOOLEAN /\ good \in BOOLEAN

(* The device was sent the profile, unless a command has failed since:     *)
(* whatever other commands left out, and whatever statuses were decoded in *)
(* between.  dataToJson makes of those bytes the profile again: its time   *)
(* modulo the word, and signed, unless it is too large for bit.c; and its  *)
(* brightness, or the byte that became of one beyond an int.               *)
SameTime(t, n) == t \in Ints /\ (IsExact(n) => (n - t) % Word = 0)

RoundTrip ==
  sent # << >> /\ ~spoilt =>
    \A border \in Borders(sent) :
      LET parsed == Parsed(sent, border)
      IN  /\ parsed.kind = "json"
          /\ parsed = Json(parseData2Table(
                        <<profile.cmdType, profile.power, luaL_checkint(profile.brightness)>>,
                        parsed.json.time))
          /\ profile.brightness \in Ints => parsed.json.brightness = Digits(profile.brightness)
          /\ parsed.json.time.kind = "number"
          /\ SameTime(parsed.json.time.n, profile.time.n)

(* "May be given the original state": a status as dataToJson returned it,  *)
(* given to jsonToData as a command, whatever the profile has become in    *)
(* between.  What the status has it gets back, byte for byte, and what it  *)
(* has not is as it was: a status with holes, of which the length is any   *)
(* border, gives all of its time, or none, or is refused for a hole in it. *)
Given(bytes, i) == At(bytes, i) # NotHex

StatusKept(bytes, border) ==
  LET parsed == Parsed(bytes, border)
      p == Merged(profile, parsed.json)
      Kept(i, old, new, known) == new = IF At(bytes, i) \in known THEN bytes[i] ELSE old
  IN  \/ /\ parsed.kind = "json"
         /\ Kept(1, profile.cmdType, p.cmdType, {1, 2})
         /\ Kept(2, profile.power, p.power, {0, 1})
         /\ Kept(3, profile.brightness, p.brightness, 0 .. Base - 1)
         /\ \/ /\ Numeric(p.time)
               /\ \A i \in 4 .. 7 : Given(bytes, i) /\ Encoded(p)[i] = bytes[i]
            \/ p.time = profile.time /\ \E i \in 1 .. 7 : ~Given(bytes, i)
      \/ parsed = Failed /\ \E i \in 4 .. 7 : ~Given(bytes, i)

StatusIsCommand ==
  \A bytes \in Statuses : \A border \in Borders(bytes) : StatusKept(bytes, border)

(* A command that fails to encode has been merged all the same.  The       *)
(* script then fails every command of every caller until one replaces what *)
(* was wrong, and is as good as new after that: a command with a good      *)
(* brightness and a good time succeeds, however many have failed before.   *)
FailureSticks ==
  /\ spoilt <=> ~Encodable(profile)
  /\ good => ~spoilt
=============================================================================
