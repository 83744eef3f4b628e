------------------------------- MODULE Topics -------------------------------
(***************************************************************************)
(* topics.Topics and discovery.DiscoveryManager: the topics of a device,   *)
(* which entity Home Assistant is told of, and where a message goes that   *)
(* arrives (mqtt_client.MqttClient._on_message).  A topic is the sequence  *)
(* of its segments; base_topic and discovery_prefix are sequences because  *)
(* _clean_segment lets a "/" through.                                      *)
(***************************************************************************)
EXTENDS ConfigLoader, Sequences

CONSTANTS
    BaseTopic,          \* mqtt_base_topic
    DiscoveryPrefix     \* mqtt_discovery_prefix

ASSUME TopicAssumption ==
    /\ BaseTopic \in Seq(STRING) \ {<< >>} /\ DiscoveryPrefix \in Seq(STRING) \ {<< >>}
    /\ "bridge" \notin Address

CommandTopic(a) == BaseTopic \o << a, "command" >>

\* subscribe_commands: the topics that match <base>/+/command.
Subscribed(topic) ==
    /\ Len(topic) = Len(BaseTopic) + 2
    /\ SubSeq(topic, 1, Len(BaseTopic)) = BaseTopic
    /\ topic[Len(topic)] = "command"

\* parse_command_topic and parse_bridge_command_topic split at every "/" and
\* compare the whole base with the first segment.
CommandSegment(topic) == Len(topic) = 3 /\ << topic[1] >> = BaseTopic /\ topic[3] = "command"

ParsesAsBridge(topic) == CommandSegment(topic) /\ topic[2] = "bridge"
ParsesAsDevice(topic) == CommandSegment(topic) /\ topic[2] \in Address

\* entity_type: the component in the discovery topic.
Component(d) ==
    CASE d.config.entity_type = "LIGHT"  -> "light"
      [] d.config.entity_type = "SWITCH" -> "switch"
      [] d.config.entity_type = "CHIME"  -> "button"

DiscoveryTopic(a, d) == DiscoveryPrefix \o << Component(d), a, "config" >>

\* _payload: a button, or an entity with a state.
IsButton(d) == d.config.entity_type = "CHIME" \/ ~d.config.stateful

\* discovery_messages.
DiscoveryMessage(a, d) ==
    [topic         |-> DiscoveryTopic(a, d),
     address       |-> a,
     name          |-> d.name,
     press         |-> IsButton(d),
     command_topic |-> CommandTopic(a)]

\* _validate_message asks for a button's fields if the second segment of the
\* topic is "button" and else for those of an entity with a state; it raises
\* DiscoveryError for a switch profile that has no state.
Discoverable(a, d) == (DiscoveryTopic(a, d)[2] = "button") <=> IsButton(d)
=============================================================================
