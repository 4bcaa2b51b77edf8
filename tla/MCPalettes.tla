----------------------------- MODULE MCPalettes ------------------------------
EXTENDS PaletteProperties

MCFrames == {0, 1}
MCFields == <<"DZ", "VE">>
MCItems == {"grid", "range"}
MCValues == {0, 1}
MCPlain == [i \in MCItems |-> 0]
Alone == [fr \in MCFrames |-> {fr}]
MCStock == <<[name |-> "p_vel", usual |-> {"VE"}, items |-> MCPlain]>>
MCTyped == {"p_vel"}
ANewName == {"p_mine"}
MCGestures == {"item", "name", "palette", "pick palette", "electric", "cancel", "toggle",
               "broadcast", "frame menu", "color bar", "links"}
=============================================================================
