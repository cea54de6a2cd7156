------------------------------ MODULE Wildcards ------------------------------
(***************************************************************************)
(* match() of utils/match.cxx: does a name match a mask in which a * stands *)
(* for any characters?  The first argument of match() is a pointer into the *)
(* mask and the second the number of characters left, so that a call is a   *)
(* position in the mask; the mask ends with a zero, which no name contains. *)
(***************************************************************************)
EXTENDS Naturals, Sequences

Star == "*"
Zero == ""

At(text, i) == IF i \in DOMAIN text THEN text[i] ELSE Zero
OnlyStars(mask, from) == \A i \in from .. Len(mask) : mask[i] = Star
\* The first position from a * on that holds none, or the end of the mask.
BehindStars(mask, from) ==
  CHOOSE i \in from .. Len(mask) + 1 :
    /\ \A j \in from .. i - 1 : mask[j] = Star
    /\ At(mask, i) # Star

\* The * is taken for one character.
MatchOneCharacter(mask, name) ==
  /\ Len(mask) = Len(name)
  /\ \A i \in DOMAIN mask : mask[i] \in {Star, name[i]}

Match(mask, name) ==
  LET Behind(m) == BehindStars(mask, m)
      match[m \in 1 .. Len(mask) + 1] ==
        [n \in 1 .. Len(name) + 1 |->
          IF n > Len(name) THEN OnlyStars(mask, m)
          ELSE IF At(mask, m) = Star
            THEN \/ Behind(m) > Len(mask)
                 \/ \E k \in n .. Len(name) : name[k] = mask[Behind(m)] /\ match[Behind(m)][k]
          ELSE name[n] = At(mask, m) /\ match[m + 1][n + 1]]
  IN match[1][1]
-----------------------------------------------------------------------------
\* What a mask means: every character of it stands for itself and every * for a
\* part of the name; place[i] is where the part that mask[i] stands for begins.
Covers(mask, name) ==
  \E place \in [1 .. Len(mask) + 1 -> 1 .. Len(name) + 1] :
    /\ place[1] = 1
    /\ place[Len(mask) + 1] = Len(name) + 1
    /\ \A i \in DOMAIN mask :
         IF mask[i] = Star THEN place[i] <= place[i + 1]
         ELSE place[i + 1] = place[i] + 1 /\ mask[i] = name[place[i]]
=============================================================================
