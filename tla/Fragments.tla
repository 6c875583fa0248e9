----------------------------- MODULE Fragments -----------------------------
(***************************************************************************)
(* Reassembly of a fragmented IP datagram before the port rules see it.    *)
(* The fragments come from a host, in any order, repeated, overlapping or  *)
(* contradicting each other; what is let through is the original frames,   *)
(* so the receiving host must put together exactly what was checked.       *)
(*                                                                         *)
(* One key (source, destination, receiving member, identification); data   *)
(* in units of eight bytes, a fragment's content as one value.             *)
(***************************************************************************)
EXTENDS Integers, FiniteSets

CONSTANTS
  Content,
  Largest,     \* the largest datagram, in units: 65535 bytes in the code
  PartLimit    \* fragments kept of one datagram: 128 in the code

Unknown == -1

\* parseIP: no empty fragment, none past the largest datagram; in IPv6 one fragment may
\* be all of it.
Piece == [offset: 0..(Largest - 1), length: 1..Largest, content: Content, more: BOOLEAN]
Fragment == {f \in Piece : f.offset + f.length <= Largest}
EndOf(f) == f.offset + f.length

VARIABLES
  parts, total, size,   \* fragmentSet; no set is the same as an empty one
  yielded,              \* history: the frames of the datagram let through last
  checked               \* history: its content by unit, as it was checked
vars == <<parts, total, size, yielded, checked>>

TypeOK ==
  /\ parts \subseteq Fragment /\ Cardinality(parts) <= PartLimit
  /\ total \in (1..Largest) \cup {Unknown} /\ size \in 0..Largest

Init ==
  /\ parts = {} /\ total = Unknown /\ size = 0
  /\ yielded = {} /\ checked = <<>>

TouchesStart(f, q) == q.offset <= f.offset /\ f.offset < EndOf(q)
Overlaps(f, q) == f.offset < EndOf(q) /\ q.offset < EndOf(f)
SameData(f, q) == f.offset = q.offset /\ f.length = q.length /\ f.content = q.content

\* More than fits, or at odds with the end that is known.
Excessive(f) ==
  \/ Cardinality(parts) >= PartLimit \/ size + f.length > Largest
  \/ total # Unknown /\ (EndOf(f) > total \/ (~f.more /\ EndOf(f) # total))
\* The last fragment ends before another one does.
Short(f) == ~f.more /\ \E q \in parts : EndOf(q) > EndOf(f)

TotalWith(f) == IF f.more THEN total ELSE EndOf(f)
Complete(f) == TotalWith(f) # Unknown /\ size + f.length = TotalWith(f)

Forget == parts' = {} /\ total' = Unknown /\ size' = 0
Drop == Forget /\ UNCHANGED <<yielded, checked>>

\* The content that the rules check: each fragment copied to its place.
Assembled(ps, n) ==
  [u \in 0..(n - 1) |->
     IF \E q \in ps : q.offset <= u /\ u < EndOf(q)
     THEN (CHOOSE q \in ps : q.offset <= u /\ u < EndOf(q)).content ELSE "zero"]

Defragment(f) ==
  \/ Excessive(f) /\ Drop
  \/ /\ ~Excessive(f)
     /\ \E q \in parts : Overlaps(f, q)
     \* the first one that overlaps decides
     /\ \E q \in parts :
          /\ Overlaps(f, q)
          /\ IF SameData(f, q) THEN UNCHANGED vars ELSE Drop
  \/ /\ ~Excessive(f)
     /\ ~\E q \in parts : Overlaps(f, q)
     /\ \/ Short(f) /\ Drop
        \/ /\ ~Short(f) /\ ~Complete(f)
           /\ parts' = parts \cup {f} /\ total' = TotalWith(f)
           /\ size' = size + f.length /\ UNCHANGED <<yielded, checked>>
        \/ /\ ~Short(f) /\ Complete(f)
           /\ yielded' = parts \cup {f}
           /\ checked' = Assembled(parts \cup {f}, TotalWith(f))
           /\ Forget

\* The two seconds of a set are over.
Expire == parts # {} /\ Drop

Next == Expire \/ \E f \in Fragment : Defragment(f)

Spec == Init /\ [][Next]_vars

-----------------------------------------------------------------------------

\* What the receiving host may assemble: for every unit, of any fragment that covers it;
\* the datagram ends where a fragment without more says so.
Ends == {EndOf(f) : f \in {g \in yielded : ~g.more}}
Covering(u) == {f \in yielded : f.offset <= u /\ u < EndOf(f)}

\* The frames let through can be assembled in one way only, whatever the receiver does
\* with overlaps and whatever order they arrive in, and it is the one that was checked.
CheckedIsAssembled ==
  yielded # {} =>
    /\ \A e \in Ends : checked # <<>> /\ DOMAIN checked = 0..(e - 1)
    /\ Ends # {}
    /\ \A u \in DOMAIN checked :
         /\ Covering(u) # {}
         /\ \A f \in Covering(u) : f.content = checked[u]
    /\ \A f \in yielded : EndOf(f) - 1 \in DOMAIN checked

Inv == TypeOK /\ CheckedIsAssembled

(* What it rests on.  The fragments kept lie side by side, and their lengths   *)
(* add up to the size that is counted.                                        *)
Units(ps) == {u \in 0..(Largest - 1) : \E q \in ps : q.offset <= u /\ u < EndOf(q)}
SideBySide ==
  /\ IsFiniteSet(parts) /\ Cardinality(Units(parts)) = size
  /\ \A f, g \in parts : f # g => ~Overlaps(f, g)

(* The end is known from the last fragment, and nothing lies beyond it.       *)
EndKnown ==
  /\ \A q \in parts : ~q.more => total = EndOf(q)
  /\ total # Unknown => /\ \A q \in parts : EndOf(q) <= total
                        /\ \E q \in parts : ~q.more

Assembling == Inv /\ SideBySide /\ EndKnown
=============================================================================
