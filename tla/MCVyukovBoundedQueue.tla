------------------------ MODULE MCVyukovBoundedQueue ------------------------
(* TLC instances of VyukovBoundedQueue.                                    *)
EXTENDS VyukovBoundedQueue
=============================================================================
