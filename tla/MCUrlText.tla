-------------------------------- MODULE MCUrlText --------------------------------
(***************************************************************************)
(* An instance of UrlText for TLC.                                         *)
(***************************************************************************)
EXTENDS UrlText

Letters == {"h", "k", "l", "p", "/", "?", "&", "="}
TwoKeys == <<<<"k">>, <<"l">>>>
FewValues == {<<>>, <<"?">>}
HostTexts == {<<"h">>, <<"h", "/">>}
(* with and without slashes and a question mark at the ends *)
PathTexts == {<<>>, <<"/">>, <<"?">>, <<"p">>, <<"/", "p">>, <<"p", "/">>,
              <<"/", "p", "/">>, <<"p", "?">>, <<"?", "/">>}
===============================================================================
