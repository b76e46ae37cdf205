------------------------------ MODULE Responses ------------------------------
(***************************************************************************)
(* What the methods of KalshiHttpClient make of an answer: the response    *)
(* model that each validates it against (src/pykalshi/http_client.py) and  *)
(* the fields of that model (src/pykalshi/models/responses.py).  Of a      *)
(* field only its name is kept, whether it must be there, and whether its  *)
(* value is a list; what else an answer holds is ignored (extra="ignore"). *)
(***************************************************************************)
EXTENDS TLC

Fields(values, lists) == (values \X {"value"}) \cup (lists \X {"list"})

Model(values, lists) == [needs |-> Fields(values, lists), may |-> {}]
Optionally(model, values, lists) == [model EXCEPT !.may = Fields(values, lists)]

\* Faulty variant: a required field that is not there is left empty.
ValidatesKnown(model, answer) ==
    \A f \in answer, g \in model.needs \cup model.may : f[1] = g[1] => f = g

\* model_validate: every required field is there, and no known field has a
\* value of the wrong shape.
Validates(model, answer) ==
    /\ model.needs \subseteq answer
    /\ \A f \in answer, g \in model.needs \cup model.may : f[1] = g[1] => f = g

-----------------------------------------------------------------------------
ExchangeStatus ==
    Optionally(Model({"exchange_active", "trading_active"}, {}), {"exchange_estimated_resume_time"}, {})
GetMarketCandlesticksHistoricalResponse == Model({"ticker"}, {"candlesticks"})
GetApiKeysResponse == Model({}, {"api_keys"})
CreateApiKeyResponse == Model({"api_key_id"}, {})
GenerateApiKeyResponse == Model({"api_key_id", "private_key"}, {})
GetTagsForSeriesCategoriesResponse == Model({"tags_by_categories"}, {})
GetFiltersBySportsResponse == Model({"filters_by_sports"}, {"sport_ordering"})
GetAccountApiLimitsResponse == Model({"usage_tier", "read", "write"}, {})
GetAccountEndpointCostsResponse == Model({"default_cost"}, {"endpoint_costs"})
GetExchangeAnnouncementsResponse == Model({}, {"announcements"})
GetExchangeScheduleResponse == Model({"schedule"}, {})
GetHistoricalCutoffResponse ==
    Model({"market_settled_ts", "trades_created_ts", "orders_updated_ts"}, {})
GetUserDataTimestampResponse == Model({"as_of_time"}, {})
GetMarketCandlesticksResponse == Model({"ticker"}, {"candlesticks"})
GetEventCandlesticksResponse ==
    Model({"adjusted_end_ts"}, {"market_tickers", "market_candlesticks"})
BatchGetMarketCandlesticksResponse == Model({}, {"markets"})
GetLiveDataResponse == Model({"live_data"}, {})
GetLiveDatasResponse == Optionally(Model({}, {}), {}, {"live_datas"})
GetGameStatsResponse == Optionally(Model({}, {}), {"pbp"}, {})
GetBalanceResponse ==
    Optionally(Model({"balance", "portfolio_value", "updated_ts"}, {}),
               {"balance_dollars"}, {"balance_breakdown"})
GetSettlementsResponse == Optionally(Model({}, {"settlements"}), {"cursor"}, {})
GetDepositsResponse == Optionally(Model({}, {"deposits"}), {"cursor"}, {})
GetWithdrawalsResponse == Optionally(Model({}, {"withdrawals"}), {"cursor"}, {})
GetMilestoneResponse == Model({"milestone"}, {})
GetMilestonesResponse == Optionally(Model({}, {"milestones"}), {"cursor"}, {})
GetOrdersResponse == Model({"cursor"}, {"orders"})
GetOrderQueuePositionResponse == Model({"queue_position_fp"}, {})
GetOrderQueuePositionsResponse == Optionally(Model({}, {}), {}, {"queue_positions"})
GetPositionsResponse ==
    Optionally(Model({}, {"market_positions", "event_positions"}), {"cursor"}, {})
GetIncentiveProgramsResponse == Optionally(Model({}, {"incentive_programs"}), {"next_cursor"}, {})
GetTradesResponse == Model({"cursor"}, {"trades"})
GetFillsResponse == Model({"cursor"}, {"fills"})
GetStructuredTargetsResponse == Optionally(Model({}, {}), {"cursor"}, {"structured_targets"})
GetStructuredTargetResponse == Optionally(Model({}, {}), {"structured_target"}, {})
EmptyResponse == Model({}, {})
GetOrderGroupsResponse == Optionally(Model({}, {}), {}, {"order_groups"})
GetOrderGroupResponse ==
    Optionally(Model({"is_auto_cancel_enabled"}, {"orders"}),
               {"contracts_limit_fp", "exchange_index"}, {})
CreateOrderGroupResponse ==
    Optionally(Model({"order_group_id"}, {}), {"subaccount", "exchange_index"}, {})
GetCommunicationsIDResponse == Model({"communications_id"}, {})
GetRFQsResponse == Optionally(Model({}, {"rfqs"}), {"cursor"}, {})
GetRFQResponse == Model({"rfq"}, {})
CreateRFQResponse == Model({"id"}, {})
GetQuotesResponse == Optionally(Model({}, {"quotes"}), {"cursor"}, {})
GetQuoteResponse == Model({"quote"}, {})
CreateQuoteResponse == Model({"id"}, {})
GetOrderResponse == Model({"order"}, {})
CreateOrderResponse == Model({"order"}, {})
BatchCreateOrdersResponse == Model({}, {"orders"})
BatchCancelOrdersResponse == Model({}, {"orders"})
CancelOrderResponse == Model({"order", "reduced_by_fp"}, {})
AmendOrderResponse == Model({"old_order", "order"}, {})
DecreaseOrderResponse == Model({"order"}, {})
CreateOrderV2Response ==
    Optionally(Model({"order_id", "fill_count", "remaining_count", "ts_ms"}, {}),
               {"client_order_id", "average_fill_price", "average_fee_paid"}, {})
CancelOrderV2Response ==
    Optionally(Model({"order_id", "reduced_by", "ts_ms"}, {}), {"client_order_id"}, {})
DecreaseOrderV2Response ==
    Optionally(Model({"order_id", "remaining_count", "ts_ms"}, {}), {"client_order_id"}, {})
AmendOrderV2Response ==
    Optionally(Model({"order_id", "ts_ms"}, {}),
               {"client_order_id", "remaining_count", "fill_count", "average_fill_price", "average_fee_paid"}, {})
BatchCreateOrdersV2Response == Model({}, {"orders"})
BatchCancelOrdersV2Response == Model({}, {"orders"})
GetMultivariateEventCollectionResponse == Model({"multivariate_contract"}, {})
GetMultivariateEventCollectionsResponse ==
    Optionally(Model({}, {"multivariate_contracts"}), {"cursor"}, {})
LookupTickersForMarketInMultivariateEventCollectionResponse ==
    Model({"event_ticker", "market_ticker"}, {})
GetMultivariateEventCollectionLookupHistoryResponse == Model({}, {"lookup_points"})
CreateMarketInMultivariateEventCollectionResponse ==
    Optionally(Model({"event_ticker", "market_ticker"}, {}), {"market"}, {})
GetMarketOrderbooksResponse == Model({}, {"orderbooks"})
GetMarketOrderbookResponse == Model({"orderbook_fp"}, {})
GetEventsResponse == Optionally(Model({"cursor"}, {"events"}), {}, {"milestones"})
GetMultivariateEventsResponse == Model({"cursor"}, {"events"})
GetEventFeeChangesResponse == Model({"cursor"}, {"event_fee_changes"})
GetEventResponse == Model({"event"}, {"markets"})
GetEventMetadataResponse ==
    Optionally(Model({"image_url"}, {"market_details", "settlement_sources"}),
               {"featured_image_url", "competition", "competition_scope"}, {})
GetEventForecastPercentilesHistoryResponse == Model({}, {"forecast_history"})
GetSeriesResponse == Model({"series"}, {})
GetSeriesListResponse == Model({}, {"series"})
GetSeriesFeeChangesResponse == Model({}, {"series_fee_change_arr"})
GetMarketsResponse == Model({"cursor"}, {"markets"})
GetMarketResponse == Model({"market"}, {})

-----------------------------------------------------------------------------
(* The model of each method, by the sections of the client.  The client's  *)
(* get_historical_cutoff calls get_cutoff; all others share their names.   *)

exchange_and_account ==
    [get_exchange_status |-> ExchangeStatus,
     get_exchange_schedule |-> GetExchangeScheduleResponse,
     get_exchange_announcements |-> GetExchangeAnnouncementsResponse,
     get_user_data_timestamp |-> GetUserDataTimestampResponse,
     get_api_limits |-> GetAccountApiLimitsResponse,
     get_endpoint_costs |-> GetAccountEndpointCostsResponse]

orders_and_groups ==
    [get_orders |-> GetOrdersResponse,
     get_order |-> GetOrderResponse,
     create_order |-> CreateOrderResponse,
     cancel_order |-> CancelOrderResponse,
     amend_order |-> AmendOrderResponse,
     decrease_order |-> DecreaseOrderResponse,
     batch_create_orders |-> BatchCreateOrdersResponse,
     batch_cancel_orders |-> BatchCancelOrdersResponse,
     get_queue_positions |-> GetOrderQueuePositionsResponse,
     get_order_queue_position |-> GetOrderQueuePositionResponse,
     get_order_groups |-> GetOrderGroupsResponse,
     create_order_group |-> CreateOrderGroupResponse,
     get_order_group |-> GetOrderGroupResponse,
     delete_order_group |-> EmptyResponse,
     reset_order_group |-> EmptyResponse,
     trigger_order_group |-> EmptyResponse,
     update_order_group_limit |-> EmptyResponse]

portfolio_and_markets ==
    [get_balance |-> GetBalanceResponse,
     get_positions |-> GetPositionsResponse,
     get_settlements |-> GetSettlementsResponse,
     get_fills |-> GetFillsResponse,
     get_deposits |-> GetDepositsResponse,
     get_withdrawals |-> GetWithdrawalsResponse,
     get_market |-> GetMarketResponse,
     get_markets |-> GetMarketsResponse,
     get_market_orderbook |-> GetMarketOrderbookResponse,
     get_market_orderbooks |-> GetMarketOrderbooksResponse,
     get_batch_market_candlesticks |-> BatchGetMarketCandlesticksResponse,
     get_market_candlesticks |-> GetMarketCandlesticksResponse,
     get_trades |-> GetTradesResponse]

events_and_series ==
    [get_event |-> GetEventResponse,
     get_events |-> GetEventsResponse,
     get_multivariate_events |-> GetMultivariateEventsResponse,
     get_event_metadata |-> GetEventMetadataResponse,
     get_event_fee_changes |-> GetEventFeeChangesResponse,
     get_event_candlesticks |-> GetEventCandlesticksResponse,
     get_forecast_percentile_history |-> GetEventForecastPercentilesHistoryResponse,
     get_series |-> GetSeriesResponse,
     get_series_list |-> GetSeriesListResponse,
     get_fee_changes |-> GetSeriesFeeChangesResponse,
     get_tags_by_categories |-> GetTagsForSeriesCategoriesResponse,
     get_filters_by_sport |-> GetFiltersBySportsResponse]

history_and_keys ==
    [get_cutoff |-> GetHistoricalCutoffResponse,
     get_historical_markets |-> GetMarketsResponse,
     get_historical_market |-> GetMarketResponse,
     get_historical_market_candlesticks |-> GetMarketCandlesticksHistoricalResponse,
     get_historical_fills |-> GetFillsResponse,
     get_historical_orders |-> GetOrdersResponse,
     get_historical_trades |-> GetTradesResponse,
     get_api_keys |-> GetApiKeysResponse,
     create_api_key |-> CreateApiKeyResponse,
     generate_api_key |-> GenerateApiKeyResponse,
     delete_api_key |-> EmptyResponse]

communications_models ==
    [get_communications_id |-> GetCommunicationsIDResponse,
     get_rfqs |-> GetRFQsResponse,
     create_rfq |-> CreateRFQResponse,
     get_rfq |-> GetRFQResponse,
     delete_rfq |-> EmptyResponse,
     get_quotes |-> GetQuotesResponse,
     create_quote |-> CreateQuoteResponse,
     get_quote |-> GetQuoteResponse,
     delete_quote |-> EmptyResponse,
     confirm_quote |-> EmptyResponse,
     accept_quote |-> EmptyResponse]

reference_data ==
    [get_live_data |-> GetLiveDataResponse,
     get_live_data_legacy |-> GetLiveDataResponse,
     get_live_data_batch |-> GetLiveDatasResponse,
     get_game_stats |-> GetGameStatsResponse,
     get_milestone |-> GetMilestoneResponse,
     get_milestones |-> GetMilestonesResponse,
     get_structured_targets |-> GetStructuredTargetsResponse,
     get_structured_target |-> GetStructuredTargetResponse,
     get_incentive_programs |-> GetIncentiveProgramsResponse]

event_orders_and_collections ==
    [create_event_order |-> CreateOrderV2Response,
     cancel_event_order |-> CancelOrderV2Response,
     amend_event_order |-> AmendOrderV2Response,
     decrease_event_order |-> DecreaseOrderV2Response,
     batch_create_event_orders |-> BatchCreateOrdersV2Response,
     batch_cancel_event_orders |-> BatchCancelOrdersV2Response,
     get_multivariate_event_collections |-> GetMultivariateEventCollectionsResponse,
     get_multivariate_event_collection |-> GetMultivariateEventCollectionResponse,
     get_multivariate_event_collection_lookup_history |-> GetMultivariateEventCollectionLookupHistoryResponse,
     create_market_in_multivariate_event_collection |-> CreateMarketInMultivariateEventCollectionResponse,
     lookup_tickers_in_multivariate_event_collection |-> LookupTickersForMarketInMultivariateEventCollectionResponse]

ResponseModel ==
    exchange_and_account @@ orders_and_groups @@ portfolio_and_markets @@
    events_and_series @@ history_and_keys @@ communications_models @@
    reference_data @@ event_orders_and_collections

=============================================================================
