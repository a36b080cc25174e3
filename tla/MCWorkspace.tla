---------------------------- MODULE MCWorkspace ----------------------------
(* A window that is a little larger than the panel, so that every limit is met. *)
EXTENDS Workspace

MCWindows == {[width |-> 300, height |-> 200], [width |-> 220, height |-> 160]}

MCPanelSize == [width |-> 140, height |-> 60]

\* In the middle, and near the corners.
MCAnchors ==
    {[left |-> 20, top |-> 10, width |-> 20, height |-> 10],
     [left |-> 150, top |-> 90, width |-> 20, height |-> 10],
     [left |-> 270, top |-> 180, width |-> 20, height |-> 10]}

MCPoints == {[x |-> 60, y |-> 60], [x |-> 180, y |-> 80], [x |-> 250, y |-> 190]}

\* An alert panel: its title, and a message and buttons in a stack of their own.
\* Beside it a page: a caption and below it a list, as high as there is room.
MCChildren == [frame |-> <<"title", "content">>, content |-> <<"message", "buttons">>,
               page |-> <<"caption", "list">>]

MCMargins == [frame |-> [top |-> 0, bottom |-> 0, spacing |-> 0],
              content |-> [top |-> 20, bottom |-> 17, spacing |-> 10],
              page |-> [top |-> 4, bottom |-> 3, spacing |-> 2]]

MCPadding == [title |-> 1, content |-> 0, message |-> 0, buttons |-> 0, caption |-> 5, list |-> 0]

MCMaxHeights == [frame |-> 150]

MCTrees == {<<0, 0>>, <<2, 0>>}

MCPages ==
    {{"centered", "thumb", "keyed"}, {"centered", "keyed", "window"},
     {"centered", "keyed", "click"}, {"panel", "keyed", "reused"},
     {"centered", "keyed", "closeDragging"}, {"panel", "reused", "closeDragging"},
     {"popover"}, {"popover", "reused"},
     {"centered", "stack", "reused"},
     {"split"}, {"split", "window", "sizes"}, {"centered", "split", "reused"},
     {"table", "resize", "resizeRows"}, {"table", "resize", "refresh"}, {"table", "scroll"},
     {"table", "scroll", "refresh", "rowHeader"},
     {"rows"}}

MCColumnSets == {<<"p">>, <<"q", "p">>}
=============================================================================
