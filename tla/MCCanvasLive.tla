---------------------------- MODULE MCCanvasLive ----------------------------
EXTENDS CanvasLive

\* Two cards, and an edge from one to the other.
AFrom == [e \in Edges |-> CHOOSE n \in Nodes : TRUE]
ATo == [e \in Edges |-> CHOOSE n \in Nodes : n # AFrom[e]]
=============================================================================
