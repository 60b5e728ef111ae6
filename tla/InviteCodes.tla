----------------------------- MODULE InviteCodes -----------------------------
(* Human-typed invitation codes (invitation/code.rs): characters are strings of length
   one, codes sequences of them. *)
EXTENDS Naturals, Sequences

CONSTANTS
    Alphabet,      \* CODE_ALPHABET, upper case
    Lower,         \* other spelling of a letter of the alphabet: subset -> lower case
    Blank          \* characters normalize_code strips: whitespace, - and _

(* The look-alikes of 1, 0 and V. *)
LookAlikes(c) ==
    CASE c = "1" -> {"i", "I", "l", "L"} [] c = "0" -> {"o", "O"} [] c = "V" -> {"u", "U"} [] OTHER -> {}

Spellings(c) == {c} \cup LookAlikes(c) \cup (IF c \in DOMAIN Lower THEN {Lower[c]} ELSE {})

(* generate_code *)
GenerateCode(len) == [1..len -> Alphabet]

(* The character map of normalize_code: look-alikes, else to_ascii_uppercase. *)
Canonical(c) ==
    CASE c \in {"i", "I", "l", "L"} -> "1"
      [] c \in {"o", "O"} -> "0"
      [] c \in {"u", "U"} -> "V"
      [] \E a \in DOMAIN Lower : Lower[a] = c -> CHOOSE a \in DOMAIN Lower : Lower[a] = c
      [] OTHER -> c

(* Mutant: u is upper-cased like any other letter. *)
MutNormalizeCode(raw) ==
    LET kept == SelectSeq(raw, LAMBDA c : c \notin Blank) IN
    [i \in DOMAIN kept |-> IF kept[i] \in {"u", "U"} THEN "U" ELSE Canonical(kept[i])]

NormalizeCode(raw) ==
    LET kept == SelectSeq(raw, LAMBDA c : c \notin Blank) IN
    [i \in DOMAIN kept |-> Canonical(kept[i])]

(* Both sides are normalised before they are compared. *)
VerifyCode(raw, expected) == NormalizeCode(raw) = NormalizeCode(expected)

(* What somebody may type for a code: any spelling of each character, with a separator
   anywhere in between. *)
Typed(code) ==
    LET plain == {t \in [DOMAIN code -> UNION {Spellings(code[i]) : i \in DOMAIN code}] :
                     \A i \in DOMAIN code : t[i] \in Spellings(code[i])} IN
    plain \cup {SubSeq(t, 1, k) \o <<b>> \o SubSeq(t, k + 1, Len(t)) :
                    t \in plain, k \in 0..Len(code), b \in Blank}

(* A code read aloud and typed back verifies however it was spelt, on either side, and
   verifies against no other code. *)
CodesReadable(code, len) ==
    \A t \in Typed(code) :
        /\ VerifyCode(t, code) /\ VerifyCode(code, t)
        /\ \A other \in GenerateCode(len) : VerifyCode(t, other) => other = code
==============================================================================
