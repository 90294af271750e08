----------------------------- MODULE MCControlPlane -----------------------------
EXTENDS ControlPlane

\* The insertions of the file and the first of the debugger have one key.
MCAnswers == {<<e, e>> : e \in Entries} \cup {<<1, 2>>, <<1, 3>>}
===============================================================================
