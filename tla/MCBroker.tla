------------------------------ MODULE MCBroker ------------------------------
EXTENDS Broker

CONSTANTS NEW_POKEMON, APPEARED_POKEMON
=============================================================================
