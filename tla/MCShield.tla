------------------------------- MODULE MCShield -------------------------------
(* Instances of Shield for TLC: lists of few lines, and requests that tell   *)
(* the lines apart.                                                          *)
EXTENDS Shield

Vocabulary == {"ads", "com", "shop", "cdn", "m", "https", "track", "gif", "pixel",
               "banner"}

Net(pattern) == [kind |-> "network", exception |-> FALSE, pattern |-> pattern,
                 options |-> NoOptions]
Except(pattern) == [Net(pattern) EXCEPT !.exception = TRUE]
With(line, option, value) == [line EXCEPT !.options[option] = value]

AdsCom == <<"ads", ".", "com">>
ShopCom == <<"shop", ".", "com">>
Url(host, path) == <<"https", "://">> \o host \o <<"/">> \o path

\* A host rule with a path, like "||facebook.net/tr" of the bundled list.
PathRule == Net(<<"|", "|">> \o AdsCom \o <<"/", "track">>)
HostRule == Net(<<"|", "|">> \o AdsCom \o <<"^">>)
Word == Net(<<"/", "track", ".", "gif">>)
Hide == [kind |-> "cosmetic", exception |-> FALSE, host |-> <<>>, marker |-> "##",
         selector |-> <<".", "banner">>, options |-> NoOptions]
UnHide == [Hide EXCEPT !.marker = "#@#"]

Lines == {
  Word,
  With(Word, "important", TRUE),
  With(Word, "odd", TRUE),
  With(Net(<<"/", "track", "*", "gif", "|">>), "third", "third"),
  With(Net(<<"|", "https", "*", "pixel">>), "types", {"image"}),
  With(Except(<<".", "com", "/", "track">>), "inc", {ShopCom}),
  With(Except(<<"pixel", "*">>), "exc", {ShopCom}),
  Net(<<"|", "|", "/", "pixel">>),
  HostRule, PathRule, Hide, UnHide }

\* As in the bundled list: "||doubleclick.net^", "||facebook.net/tr$third-party".
Bundled == <<HostRule, With(PathRule, "third", "third")>>
Texts == {<<>>} \cup {<<a>> : a \in Lines} \cup {<<a, b>> : a, b \in Lines}

Ask(host, path, type, third, origin) ==
  [url |-> Url(host, path), type |-> type, third |-> third, origin |-> origin]

Asked == {
  Ask(AdsCom, <<"track", ".", "gif">>, "image", TRUE, ShopCom),
  Ask(<<"cdn", ".">> \o AdsCom, <<"pixel">>, "image", TRUE, <<"m", ".">> \o ShopCom),
  Ask(AdsCom, <<"track", ".", "gif", "/", "pixel">>, "image", TRUE, AdsCom),
  Ask(AdsCom, <<"pixel">>, "script", FALSE, AdsCom),
  Ask(ShopCom, <<"track", ".", "gif">>, "script", FALSE, ShopCom) }
=============================================================================
