------------------------------ MODULE MCLayer -------------------------------
EXTENDS Layer

(* The order of main.go.                                                   *)
AllProbes == <<"tcp_transmit_skb", "ip_queue_xmit", "ip_local_out",
               "dev_queue_xmit", "eth_type_trans", "ip_rcv",
               "ip_local_deliver_finish", "ip_protocol_deliver_rcu",
               "tcp_rcv_established", "tcp_data_queue">>
=============================================================================
