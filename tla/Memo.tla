--------------------------------- MODULE Memo ---------------------------------
(***************************************************************************)
(* hivecomb/src/memo.rs: encrypted memos between two holders of memo keys. *)
(*                                                                         *)
(* A party is its key pair.  The shared secret of two parties is the pair  *)
(* of them, and what is derived from it and a nonce is the two together:   *)
(* hashing is taken to be injective.  The key is checked before anything   *)
(* is decrypted, so ciphertext stands as its plaintext: if it is cut at a  *)
(* block, CBC leaves the blocks in front of the cut readable.  A result    *)
(* that may be an error is a set, empty for it.                            *)
(***************************************************************************)
EXTENDS WireFormat

CONSTANTS
    BLOCK,              \* the cipher's block, in bytes
    Parties,            \* holders of memo keys
    Nonces,
    Texts               \* messages, as bytes

(* A text longer than its length has bits for is refused before anything   *)
(* is made of it.                                                          *)
ASSUME MemoAssumption ==
    /\ BLOCK \in 2 .. 255 /\ Parties # {} /\ Nonces # {}
    /\ Texts \subseteq Seq(0 .. 127) /\ \A text \in Texts : Len(text) <= MaxInt

VARIABLES
    mail,       \* the memo under way, as on the wire
    sent,       \* history: who wrote what, in which format
    altered,    \* what was done to it on the way
    opened      \* what each party makes of it

memo_vars == <<mail, sent, altered, opened>>

Hash == 35      \* '#'

-----------------------------------------------------------------------------
(* Keys and padding *)

shared_secret(private, public) == {private, public}
derive(secret, nonce) == <<secret, nonce>>

(* n bytes of value n, a whole block of them for aligned data. *)
pad(data) ==
    LET n == BLOCK - (Len(data) % BLOCK)
    IN  data \o [i \in 1 .. n |-> n]

unpad(data) ==
    IF data = <<>> THEN {}
    ELSE LET n == data[Len(data)]
         IN  IF n = 0 \/ n > BLOCK \/ n > Len(data)
                \/ \E i \in Len(data) - n + 1 .. Len(data) : data[i] # n
             THEN {} ELSE {SubSeq(data, 1, Len(data) - n)}

-----------------------------------------------------------------------------
(* The wire form: a header, a length and the ciphertext. *)

to_memo(sender, to, nonce, plaintext) ==
    [from |-> sender, to |-> to, nonce |-> nonce,
     check |-> derive(shared_secret(sender, to), nonce),
     length |-> Len(plaintext), bytes |-> plaintext]

(* from_wire: as many bytes as the length says; what follows is ignored.   *)
from_memo(m) ==
    IF Len(m.bytes) < m.length THEN {}
    ELSE {[m EXCEPT !.bytes = SubSeq(@, 1, m.length)]}

(* One leading '#' is taken for the mark of an encrypted memo. *)
Unmarked(text) == IF text # <<>> /\ text[1] = Hash THEN Tail(text) ELSE text

(* What a writer pads: the text behind its length, or, from beem, as it is. *)
Formats == {"hivecomb", "beem", "beem_bare"}
Content(format, text) ==
    IF format = "hivecomb" THEN write_varint32(Len(Unmarked(text))) \o Unmarked(text)
    ELSE text

encode(sender, to, text, nonce) == to_memo(sender, to, nonce, pad(Content("hivecomb", text)))

(* What beem writes: no length in front.  The tests have it pad as pad      *)
(* does (memo.rs:388, differential_beem.py:235); the comment on pad says    *)
(* that it adds nothing to aligned data (memo.rs:97).                       *)
Aligned(text) == Len(text) % BLOCK = 0
encode_beem(sender, to, text, nonce) == to_memo(sender, to, nonce, pad(text))
encode_beem_bare(sender, to, text, nonce) ==
    to_memo(sender, to, nonce, IF Aligned(text) THEN text ELSE pad(text))

Encoded(sender, to, text, nonce, format) ==
    CASE format = "hivecomb"  -> encode(sender, to, text, nonce)
      [] format = "beem"      -> encode_beem(sender, to, text, nonce)
      [] format = "beem_bare" -> encode_beem_bare(sender, to, text, nonce)

(* A buffer that a length prefix fits exactly is what follows the prefix.  *)
Prefixed(data) ==
    {r.rest : r \in {r \in {read_varint32(data)} : r.ok /\ r.val = Len(r.rest)}}

Plaintext(p) ==
    IF p.bytes = <<>> \/ Len(p.bytes) % BLOCK # 0 THEN {}
    ELSE UNION {IF Prefixed(data) # {} THEN Prefixed(data) ELSE {data} : data \in unpad(p.bytes)}

(* Seeded bug: the secret is always made with the sender's key. *)
Counterparty_sender(key, p) == IF key \in {p.from, p.to} THEN {p.from} ELSE {}

(* Whichever end the key is, the other one. *)
Counterparty(key, p) ==
    CASE key = p.to   -> {p.from}
      [] key = p.from -> {p.to}
      [] OTHER        -> {}

(* Either end reads it; the check value tells whether the key was right.   *)
decode(key, m) ==
    UNION {Plaintext(p) :
              p \in {p \in from_memo(m) : \E other \in Counterparty(key, p) :
                        p.check = derive(shared_secret(key, other), p.nonce)}}

-----------------------------------------------------------------------------
(* A memo under way *)

NoMemo == <<>>

Sends(sender, to, text, nonce, format) ==
    /\ mail = NoMemo
    /\ mail' = <<Encoded(sender, to, text, nonce, format)>>
    /\ sent' = [text |-> text, format |-> format, ends |-> {sender, to}]
    /\ UNCHANGED <<altered, opened>>

Alter(how, m) ==
    /\ altered = "no" /\ \A p \in Parties : opened[p] = <<>>
    /\ altered' = how
    /\ mail' = <<m>> /\ UNCHANGED <<sent, opened>>

Shortened(m, n) == [m EXCEPT !.bytes = SubSeq(@, 1, Len(@) - n)]

(* It gains a byte, loses some at its end with or without saying so (whole *)
(* blocks or not), has its ends swapped, or is passed on under another     *)
(* nonce or to someone else.                                               *)
Alteration ==
    \E m \in {mail[i] : i \in DOMAIN mail} :
        \/ Alter("run_on", [m EXCEPT !.bytes = Append(@, 0)])
        \/ \E n \in 1 .. Len(m.bytes) :
             \/ Alter("cut", Shortened(m, n))
             \/ Alter(IF n % BLOCK = 0 THEN "block_cut" ELSE "cut",
                      [Shortened(m, n) EXCEPT !.length = @ - n])
        \/ Alter("swapped", [m EXCEPT !.from = m.to, !.to = m.from])
        \/ \E n \in Nonces \ {m.nonce} : Alter("misled", [m EXCEPT !.nonce = n])
        \/ \E p \in Parties \ {m.from, m.to} : Alter("misled", [m EXCEPT !.to = p])

Opens(key) ==
    /\ mail # NoMemo /\ opened' = [opened EXCEPT ![key] = <<decode(key, mail[1])>>]
    /\ opened[key] = <<>> /\ UNCHANGED <<mail, sent, altered>>

MemoInit ==
    /\ mail = NoMemo /\ sent = [text |-> <<>>, format |-> "hivecomb", ends |-> {}]
    /\ altered = "no" /\ opened = [p \in Parties |-> <<>>]

MemoNext ==
    \/ \E sender, to \in Parties, text \in Texts, nonce \in Nonces,
          format \in Formats : Sends(sender, to, text, nonce, format)
    \/ Alteration
    \/ \E p \in Parties : Opens(p)

MemoSpec == MemoInit /\ [][MemoNext]_memo_vars

-----------------------------------------------------------------------------
(* A text as its reader has it.  Of a memo that beem wrote, only one whose *)
(* first bytes are not a length that happens to fit is read as it is.      *)
AsRead(s) ==
    IF s.format = "hivecomb" THEN Unmarked(s.text)
    ELSE IF Prefixed(s.text) = {} THEN s.text
    ELSE CHOOSE t \in Prefixed(s.text) : TRUE

(* Its last byte says how much padding comes off.  (unpad takes a padded    *)
(* block for granted, memo.rs:96-98.)                                      *)
IsPadded(s) == s.format = "beem_bare" => ~Aligned(s.text)

IsPiece(t, s) == \E i \in 1 .. Len(s) + 1, j \in 0 .. Len(s) : t = SubSeq(s, i, j)

(* Nobody but the two ends ever reads anything; nor do they, of a memo that *)
(* is cut within a block or without saying so, or is passed on under        *)
(* another nonce or to another party.  Otherwise both read what was         *)
(* written, whatever its length, in either format, also with the ends       *)
(* swapped.  Two cases the format leaves open, as nothing checks the text:  *)
(* of a memo that is cut at a block, or that was not padded, an end may     *)
(* read nothing, or something, but never what was not written.              *)
(* ("fail closed", memo.rs:6-16; the two formats, memo.rs:22-44)            *)
OpensForItsEnds ==
    \A p \in Parties : \A texts \in {opened[p][i] : i \in DOMAIN opened[p]} :
        IF p \notin sent.ends \/ altered \in {"cut", "misled"} THEN texts = {}
        ELSE IF altered # "block_cut" /\ IsPadded(sent) THEN texts = {AsRead(sent)}
        ELSE \A t \in texts : IsPiece(t, Content(sent.format, sent.text))
=============================================================================
