---------------------------- MODULE MCTargetUpdates ----------------------------
(* Instances of TargetUpdates for TLC. *)
EXTENDS TargetUpdates

CONSTANTS pilot, relay, tank, boat

MCSees == {<<pilot, tank>>, <<relay, boat>>}
MCOrders == {[do |-> "assign", provider |-> pilot], [do |-> "assign", provider |-> relay],
             [do |-> "subscribe", source |-> relay, provider |-> pilot],
             [do |-> "subscribe", source |-> pilot, provider |-> relay],
             [do |-> "update", origin |-> <<pilot, tank>>],
             [do |-> "retarget", origin |-> <<relay, boat>>]}
MCSubscriptions == {}
================================================================================
