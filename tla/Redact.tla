--------------------------------- MODULE Redact ---------------------------------
(***************************************************************************)
(* The replacements of logredact (tools/logredact.cpp): for each sensitive *)
(* key of the catalog, one after the other over the whole text, the value  *)
(* behind the key and an equals sign becomes [secret]. A text is a         *)
(* sequence of words and characters; words side by side are joined by      *)
(* underscores, so that a key is found at the end of a longer name too.    *)
(* Email and IP addresses, which are replaced before the keys, are left    *)
(* out, and so is the case of letters, which does not matter.              *)
(***************************************************************************)
EXTENDS RuleCatalog

Secret == "[secret]"

\* What ends a value: the class [^ \t,&] of the regular expression.
Separators == {" ", "tab", ",", "&"}

\* Is there a value behind key and an equals sign at position i of text?
KeyAt(text, key, i) ==
  /\ i + Len(key) < Len(text)
  /\ SubSeq(text, i, i + Len(key)) = Append(key, "=")
  /\ text[i + Len(key) + 1] \notin Separators

\* The position after the value that begins at i.
AfterValue(text, i) ==
  CHOOSE j \in i..Len(text) + 1 :
    /\ j = Len(text) + 1 \/ text[j] \in Separators
    /\ \A k \in i..j - 1 : text[k] \notin Separators

\* Mutant of RedactKey: the value is one character.
RedactKeyShort(text, key) ==
  LET from[i \in 1..Len(text) + 2] ==
        IF i > Len(text) THEN <<>>
        ELSE IF KeyAt(text, key, i) THEN key \o <<"=", Secret>> \o from[i + Len(key) + 2]
        ELSE <<text[i]>> \o from[i + 1]
  IN  from[1]

\* regex_replace with one key: from left to right, on behind each value.
RedactKey(text, key) ==
  LET from[i \in 1..Len(text) + 1] ==
        IF i > Len(text) THEN <<>>
        ELSE IF KeyAt(text, key, i)
        THEN key \o <<"=", Secret>> \o from[AfterValue(text, i + Len(key) + 1)]
        ELSE <<text[i]>> \o from[i + 1]
  IN  from[1]

\* Keys of more than 32 characters are passed over: the catalog has none.
SensitiveKeys == TokensForCategory("sensitive")

\* No key has an equals sign in it or what ends a value.
ASSUME KeysAssumption ==
  /\ SensitiveKeys \in Seq(Seq(STRING))
  /\ \A key \in ToSet(SensitiveKeys) : ToSet(key) \cap ({"="} \cup Separators) = {}

RedactText(text) == FoldLeft(RedactKey, text, SensitiveKeys)

-----------------------------------------------------------------------------
(* The reference: all keys at once.                                        *)

\* In one pass, the value behind whichever of the keys comes first in a run of text.
RedactAll(text, keys) ==
  LET from[i \in 1..Len(text) + 1] ==
        LET found == {key \in keys : KeyAt(text, key, i)} IN
        IF i > Len(text) THEN <<>>
        ELSE IF found # {}
        THEN LET key == CHOOSE key \in found : TRUE
             IN  key \o <<"=", Secret>> \o from[AfterValue(text, i + Len(key) + 1)]
        ELSE <<text[i]>> \o from[i + 1]
  IN  from[1]

RedactAtOnce(text) == RedactAll(text, ToSet(SensitiveKeys))
=================================================================================
