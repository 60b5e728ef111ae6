---------------------------- MODULE CborLengths ----------------------------
(* The walk over authenticatorData (webauthn/auth_data.rs): cbor_item_len, which finds
   the end of a CBOR item without decoding it, and AuthenticatorData::parse.  The lengths
   of the fixed fields are parameters; bytes are 0..255. *)
EXTENDS Integers, Sequences, SequencesExt

CONSTANTS
    HashLen, AaguidLen,      \* 32 and 16 bytes
    MaxCredentialIdLen,      \* 2048
    MaxCborDepth             \* 32

None == -1      \* Option::None of a length
Bytes(n) == [i \in 1..n |-> 7]
From(s, i) == SubSeq(s, i + 1, Len(s))

(* Mutant: each length code is one byte longer than the last. *)
MutArgBytes(info) == IF info <= 23 THEN 0 ELSE info - 23

(* The argument of an initial byte: how many bytes follow, and the value; lengths 28 to
   31 (indefinite, reserved) are refused. *)
ArgBytes(info) == IF info <= 23 THEN 0 ELSE 2 ^ (info - 24)
BigEndian(s) == FoldLeft(LAMBDA acc, b : acc * 256 + b, 0, s)
Arg(info, rest) ==
    IF info > 27 \/ Len(rest) < ArgBytes(info) THEN <<None>>
    ELSE <<ArgBytes(info), IF info <= 23 THEN info ELSE BigEndian(SubSeq(rest, 1, ArgBytes(info)))>>

RECURSIVE ItemLen(_, _), ItemsLen(_, _, _, _)

(* n items from offset `consumed` on: the offset behind them. *)
ItemsLen(input, consumed, n, depth) ==
    IF n = 0 THEN consumed
    ELSE LET one == IF consumed > Len(input) THEN None ELSE ItemLen(From(input, consumed), depth + 1)
         IN  IF one = None THEN None ELSE ItemsLen(input, consumed + one, n - 1, depth)

(* cbor_item_len_depth *)
ItemLen(input, depth) ==
    IF depth > MaxCborDepth \/ input = <<>> THEN None
    ELSE LET major == input[1] \div 32
             arg == Arg(input[1] % 32, Tail(input)) IN
         IF arg = <<None>> THEN None
         ELSE LET start == 1 + arg[1]
                  value == arg[2]
                  total == CASE major \in {0, 1, 7} -> start
                             [] major \in {2, 3} ->
                                    IF value > Len(input) THEN None ELSE start + value
                             [] major = 4 -> ItemsLen(input, start, value, depth)
                             [] major = 5 -> ItemsLen(input, start, 2 * value, depth)
                             [] major = 6 -> ItemsLen(input, start, 1, depth)
              IN IF total = None \/ total > Len(input) THEN None ELSE total

CborItemLen(input) == ItemLen(input, 0)

-----------------------------------------------------------------------------
(* AuthenticatorData::parse.  The flags byte is the set of flags it has. *)
HeaderLen == HashLen + 2
Failed == [ok |-> FALSE]

(* Mutant: an empty credential id passes. *)
MutCredentialIdOk(raw, idAt, credLen) ==
    credLen <= MaxCredentialIdLen /\ idAt + credLen <= Len(raw)

(* The credential id has a length within bounds and is all there. *)
CredentialIdOk(raw, idAt, credLen) ==
    credLen # 0 /\ credLen <= MaxCredentialIdLen /\ idAt + credLen <= Len(raw)

(* raw is the byte sequence behind the flags; flags \in SUBSET {"UP", "UV", "AT", "ED"}.
   The header is the hash, the flags byte and a one-byte counter. *)
Parse(raw, flags) ==
    LET attested == "AT" \in flags
        idAt == HeaderLen + AaguidLen + 2
        credLen == raw[idAt - 1] * 256 + raw[idAt]
        idEnd == IF attested THEN idAt + credLen ELSE HeaderLen
        keyLen == IF attested THEN CborItemLen(From(raw, idEnd)) ELSE 0
        keyEnd == idEnd + keyLen
        extLen == IF "ED" \in flags THEN CborItemLen(From(raw, keyEnd)) ELSE 0
    IN  IF \/ Len(raw) < HeaderLen
           \/ attested /\ (Len(raw) < idAt \/ ~ CredentialIdOk(raw, idAt, credLen))
           \/ keyLen = None \/ extLen = None
           \/ keyEnd + extLen # Len(raw)
        THEN Failed
        ELSE [ok |-> TRUE, sign_count |-> raw[HeaderLen],
              id |-> IF attested THEN SubSeq(raw, idAt + 1, idEnd) ELSE <<>>,
              key |-> IF attested THEN SubSeq(raw, idEnd + 1, keyEnd) ELSE <<>>]

-----------------------------------------------------------------------------
(* What the format says, by construction instead of by walking: the encodings of the
   items of at most the given depth over a few atoms, definite lengths only. *)
Atoms == {<<5>>, <<24, 200>>, <<25, 1, 0>>, <<26, 0, 0, 1, 0>>, <<33>>, <<246>>, <<64>>, <<66, 9, 9>>,
          <<88, 2, 160, 31>>, <<97, 130>>}

Built(inner) ==
    inner \cup {<<128>>, <<160>>}
    \cup {<<129>> \o a : a \in inner} \cup {<<193>> \o a : a \in inner}
    \cup {<<152, 2>> \o a \o b : a \in inner, b \in {<<5>>, <<66, 9, 9>>}}
    \cup {<<161>> \o a \o b : a \in {<<5>>, <<97, 130>>}, b \in inner}

Items(depth) == IF depth = 0 THEN Atoms ELSE IF depth = 1 THEN Built(Atoms) ELSE Built(Built(Atoms))

(* An authenticatorData laid out field by field. *)
Layout(count, at, id, key, ext) ==
    Bytes(HashLen) \o <<0, count>>
    \o (IF ~ at THEN <<>> ELSE Bytes(AaguidLen) \o <<Len(id) \div 256, Len(id) % 256>> \o id \o key)
    \o ext

-----------------------------------------------------------------------------
(* On any bytes at all, the length found lies within the input and depends on nothing
   behind it: cut shorter there is no item, cut anywhere later it is the same item. *)
SelfDelimiting(s) ==
    LET n == CborItemLen(s) IN
    n # None => /\ n \in 1..Len(s)
                /\ \A k \in 0..Len(s) :
                       CborItemLen(SubSeq(s, 1, k)) = IF k < n THEN None ELSE n

(* Nesting is followed down to the limit and refused below it. *)
Nested(n) == [i \in 1..n |-> 129] \o <<5>>

(* The item laid out is the item found, whatever follows. *)
FindsItem(e) == \A junk \in {<<>>, <<255>>, <<5>>} : CborItemLen(e \o junk) = Len(e)

(* parse takes an authenticatorData apart where its construction put the seams, and
   refuses every shorter and every longer input and an empty or too long credential id. *)
ParsesExactly(at, id, key, ext) ==
    LET raw == Layout(3, at, id, key, ext)
        flags == (IF at THEN {"AT"} ELSE {}) \cup (IF ext = <<>> THEN {} ELSE {"ED"})
        sized == ~ at \/ (id # <<>> /\ Len(id) <= MaxCredentialIdLen)
        laidOut == [ok |-> TRUE, sign_count |-> 3,
                    id |-> IF at THEN id ELSE <<>>, key |-> IF at THEN key ELSE <<>>]
        wrong == {SubSeq(raw, 1, k) : k \in 0..(Len(raw) - 1)} \cup {raw \o <<5>>} IN
    /\ Parse(raw, flags) = IF sized THEN laidOut ELSE Failed
    /\ \A r \in wrong : ~ Parse(r, flags).ok
=============================================================================
