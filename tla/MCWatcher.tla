------------------------------ MODULE MCWatcher ------------------------------
EXTENDS Watcher

MCDirs == {<<>>, <<"p">>, <<"p", "q">>}
MCFiles == {<<"p", "f">>}
MCPatterns == {{<<"p">>}}
MCAddDirs == {<<>>}
NoPrefixes == {}

\* for the configurations that find what the code does not promise
InnerFirst == {<<"p">>, <<>>}
SiblingDirs == {<<>>, <<"p">>, <<"s">>}
SiblingFiles == {<<"pf">>}
Siblings == {<<"p", "pf">>}
=============================================================================
