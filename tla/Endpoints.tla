------------------------------ MODULE Endpoints ------------------------------
(***************************************************************************)
(* The requests of the API functions (src/pykalshi/api): one record of one *)
(* entry per function for every module, with the verb and the path of its  *)
(* request and whether the function refuses an empty path parameter.  The  *)
(* common prefix of the paths, /trade-api/v2, is left out; so are query    *)
(* parameters and bodies, from which each function drops what is None.     *)
(***************************************************************************)
EXTENDS TLC

Arg == ":"  \* a path parameter, or the placeholder of a published path

Request(verb, path) == [verb |-> verb, path |-> path, checked |-> FALSE]
Get(path) == Request("GET", path)
Post(path) == Request("POST", path)
Put(path) == Request("PUT", path)
Delete(path) == Request("DELETE", path)

\* validate_path_param is called on every parameter of the path.
Checked(request) == [request EXCEPT !.checked = TRUE]

-----------------------------------------------------------------------------
account ==
    [get_api_limits |-> Get(<<"account", "limits">>),
     get_endpoint_costs |-> Get(<<"account", "endpoint_costs">>)]

api_keys ==
    [get_api_keys |-> Get(<<"api_keys">>),
     create_api_key |-> Post(<<"api_keys">>),
     generate_api_key |-> Post(<<"api_keys", "generate">>),
     delete_api_key |-> Delete(<<"api_keys", Arg>>)]

rfqs ==
    [get_communications_id |-> Get(<<"communications", "id">>),
     get_rfqs |-> Get(<<"communications", "rfqs">>),
     create_rfq |-> Post(<<"communications", "rfqs">>),
     get_rfq |-> Get(<<"communications", "rfqs", Arg>>),
     delete_rfq |-> Delete(<<"communications", "rfqs", Arg>>)]

quotes ==
    [get_quotes |-> Get(<<"communications", "quotes">>),
     create_quote |-> Post(<<"communications", "quotes">>),
     get_quote |-> Get(<<"communications", "quotes", Arg>>),
     delete_quote |-> Delete(<<"communications", "quotes", Arg>>),
     confirm_quote |-> Put(<<"communications", "quotes", Arg, "confirm">>),
     accept_quote |-> Put(<<"communications", "quotes", Arg, "accept">>)]

event_orders ==
    [create_event_order |-> Post(<<"portfolio", "events", "orders">>),
     cancel_event_order |-> Checked(Delete(<<"portfolio", "events", "orders", Arg>>)),
     amend_event_order |-> Checked(Post(<<"portfolio", "events", "orders", Arg, "amend">>)),
     decrease_event_order |->
         Checked(Post(<<"portfolio", "events", "orders", Arg, "decrease">>)),
     batch_create_event_orders |-> Post(<<"portfolio", "events", "orders", "batched">>),
     batch_cancel_event_orders |-> Delete(<<"portfolio", "events", "orders", "batched">>)]

events ==
    [get_event |-> Get(<<"events", Arg>>),
     get_events |-> Get(<<"events">>),
     get_multivariate_events |-> Get(<<"events", "multivariate">>),
     get_event_metadata |-> Get(<<"events", Arg, "metadata">>),
     get_event_fee_changes |-> Get(<<"events", "fee_changes">>)]

event_histories ==
    [get_event_candlesticks |-> Get(<<"series", Arg, "events", Arg, "candlesticks">>),
     get_forecast_percentile_history |->
         Get(<<"series", Arg, "events", Arg, "forecast_percentile_history">>)]

exchange ==
    [get_exchange_status |-> Get(<<"exchange", "status">>),
     get_exchange_schedule |-> Get(<<"exchange", "schedule">>),
     get_exchange_announcements |-> Get(<<"exchange", "announcements">>),
     get_user_data_timestamp |-> Get(<<"exchange", "user_data_timestamp">>)]

historical ==
    [get_cutoff |-> Get(<<"historical", "cutoff">>),
     get_historical_markets |-> Get(<<"historical", "markets">>),
     get_historical_market |-> Get(<<"historical", "markets", Arg>>),
     get_historical_market_candlesticks |->
         Get(<<"historical", "markets", Arg, "candlesticks">>),
     get_historical_fills |-> Get(<<"historical", "fills">>),
     get_historical_orders |-> Get(<<"historical", "orders">>),
     get_historical_trades |-> Get(<<"historical", "trades">>)]

incentive_programs ==
    [get_incentive_programs |-> Get(<<"incentive_programs">>)]

live_data ==
    [get_live_data |-> Get(<<"live_data", "milestone", Arg>>),
     get_live_data_legacy |-> Get(<<"live_data", Arg, "milestone", Arg>>),
     get_live_data_batch |-> Get(<<"live_data", "batch">>),
     get_game_stats |-> Get(<<"live_data", "milestone", Arg, "game_stats">>)]

markets ==
    [get_market |-> Get(<<"markets", Arg>>),
     get_markets |-> Get(<<"markets">>),
     get_market_orderbook |-> Get(<<"markets", Arg, "orderbook">>),
     get_trades |-> Get(<<"markets", "trades">>)]

market_batches ==
    [get_market_orderbooks |-> Get(<<"markets", "orderbooks">>),
     get_batch_market_candlesticks |-> Get(<<"markets", "candlesticks">>),
     get_market_candlesticks |-> Get(<<"series", Arg, "markets", Arg, "candlesticks">>)]

milestones ==
    [get_milestone |-> Get(<<"milestones", Arg>>),
     get_milestones |-> Get(<<"milestones">>)]

multivariate_collections ==
    [get_multivariate_event_collections |-> Get(<<"multivariate_event_collections">>),
     get_multivariate_event_collection |->
         Checked(Get(<<"multivariate_event_collections", Arg>>)),
     get_multivariate_event_collection_lookup_history |->
         Checked(Get(<<"multivariate_event_collections", Arg, "lookup">>)),
     create_market_in_multivariate_event_collection |->
         Checked(Post(<<"multivariate_event_collections", Arg>>)),
     lookup_tickers_in_multivariate_event_collection |->
         Checked(Put(<<"multivariate_event_collections", Arg, "lookup">>))]

order_groups ==
    [get_order_groups |-> Get(<<"portfolio", "order_groups">>),
     create_order_group |-> Post(<<"portfolio", "order_groups", "create">>),
     get_order_group |-> Checked(Get(<<"portfolio", "order_groups", Arg>>)),
     delete_order_group |-> Checked(Delete(<<"portfolio", "order_groups", Arg>>)),
     reset_order_group |-> Checked(Put(<<"portfolio", "order_groups", Arg, "reset">>)),
     trigger_order_group |-> Put(<<"portfolio", "order_groups", Arg, "trigger">>),
     update_order_group_limit |-> Put(<<"portfolio", "order_groups", Arg, "limit">>)]

orders ==
    [get_orders |-> Get(<<"portfolio", "orders">>),
     get_order |-> Checked(Get(<<"portfolio", "orders", Arg>>)),
     create_order |-> Post(<<"portfolio", "orders">>),
     cancel_order |-> Checked(Delete(<<"portfolio", "orders", Arg>>))]

order_changes ==
    [amend_order |-> Checked(Post(<<"portfolio", "orders", Arg, "amend">>)),
     decrease_order |-> Checked(Post(<<"portfolio", "orders", Arg, "decrease">>)),
     get_queue_positions |-> Get(<<"portfolio", "orders", "queue_positions">>),
     get_order_queue_position |->
         Checked(Get(<<"portfolio", "orders", Arg, "queue_position">>)),
     batch_create_orders |-> Post(<<"portfolio", "orders", "batched">>),
     batch_cancel_orders |-> Delete(<<"portfolio", "orders", "batched">>)]

portfolio ==
    [get_balance |-> Get(<<"portfolio", "balance">>),
     get_positions |-> Get(<<"portfolio", "positions">>),
     get_settlements |-> Get(<<"portfolio", "settlements">>),
     get_fills |-> Get(<<"portfolio", "fills">>),
     get_deposits |-> Get(<<"portfolio", "deposits">>),
     get_withdrawals |-> Get(<<"portfolio", "withdrawals">>)]

\* Faulty variant: the path of the second function was copied with it.
searchCopied ==
    [get_tags_by_categories |-> Get(<<"search", "tags_by_categories">>),
     get_filters_by_sport |-> Get(<<"search", "tags_by_categories">>)]

search ==
    [get_tags_by_categories |-> Get(<<"search", "tags_by_categories">>),
     get_filters_by_sport |-> Get(<<"search", "filters_by_sport">>)]

series ==
    [get_series |-> Get(<<"series", Arg>>),
     get_series_list |-> Get(<<"series">>),
     get_fee_changes |-> Get(<<"series", "fee_changes">>)]

structured_targets ==
    [get_structured_targets |-> Get(<<"structured_targets">>),
     get_structured_target |-> Get(<<"structured_targets", Arg>>)]

-----------------------------------------------------------------------------
Endpoint ==
    account @@ api_keys @@ rfqs @@ quotes @@ event_orders @@ events @@
    event_histories @@ exchange @@ historical @@ incentive_programs @@ live_data @@
    markets @@ market_batches @@ milestones @@ multivariate_collections @@
    order_groups @@ orders @@ order_changes @@ portfolio @@ search @@ series @@
    structured_targets

Methods == DOMAIN Endpoint

=============================================================================
